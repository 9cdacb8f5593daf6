------------------------------- MODULE SourceSync -------------------------------
(***************************************************************************)
(* The sync of one MCP source (integrator/jobs.py, sync.py, registry.py):  *)
(* handle_sync starts a run and queues the first page of every stream;     *)
(* handle_page lists one page, indexes it, remembers the ids it saw, and   *)
(* queues the next page or ends the stream, which may delete documents,    *)
(* and with the last stream the run.  The CLI edits the source's row from  *)
(* another process.                                                        *)
(*                                                                         *)
(* A worker's handler is cut where another actor can come in: at every     *)
(* call to the source, between writes to the registry, the index and the   *)
(* queue (three files), and between reading the source's row and saving    *)
(* it.  The queue is the one of JobQueue.tla, reduced to what a sync sees: *)
(* at-least-once delivery, a budget of attempts, one live mcp_sync.        *)
(*                                                                         *)
(* Abstracted: contents (a document is its item), and the stream's         *)
(* checkpoint, which only decides whether a listing stops early - as do    *)
(* max_items and max_pages; a page may do so at any time.  The plan does   *)
(* not change and the source is authorized when the model begins.          *)
(***************************************************************************)
EXTENDS Integers, FiniteSets

CONSTANTS
    Workers,
    NoStream,
    MaxAttempts,   \* node.job_max_attempts
    Settings       \* the instances, of which each behaviour is of one: the workers at work;
                   \* the plan's streams, whether their listings page by position (else by the
                   \* last item's key), and whether it has a detail or verify tool (checker);
                   \* minMissing, the items a listing may lose before deletion is suspended
                   \* (10 in the code); failures, what a call to the source may answer besides
                   \* success; commands, those of the CLI in use.  The rest are bounds: items
                   \* of a stream, runs ever started, slots in the queue, and how many
                   \* commands, changes of the source's items and crashes there may be.

Limits == [commands: Nat, changes: Nat, crashes: Nat]

ASSUME SyncAssumption ==
    /\ MaxAttempts \in Nat \ {0}
    /\ \A g \in Settings :
         /\ g.workers \subseteq Workers
         /\ NoStream \notin g.streams /\ g.streams # {}
         /\ g.items \in Nat /\ g.minMissing \in Nat /\ g.runs \in Nat /\ g.slots \in Nat
         /\ g.byOffset \in BOOLEAN /\ g.checker \in BOOLEAN
         /\ g.failures \subseteq {"rate_limited", "unauthorized", "unavailable", "refused"}
         /\ g.commands \subseteq {"pause", "enable", "remove"}
         /\ g.limits \in Limits

VARIABLES
    source,   \* the source's row
    runs,     \* the runs table
    seen,     \* the seen table: items listed, by run and stream
    jobs,     \* the queue's slots
    worker,   \* what each worker is doing
    cli,      \* what the CLI is doing
    index,    \* items indexed, by stream
    live,     \* items the source has, by stream
    away,     \* history: items the source lacked at some time since the run began
    exact,    \* history: runs that nothing else came across (CoversSource)
    told,     \* history: the last CLI command that ended
    bounds,   \* commands, changes and crashes so far
    setting   \* chosen once

vars == <<source, runs, seen, jobs, worker, cli, index, live, away, exact, told, bounds, setting>>

Streams == setting.streams
Checker == setting.checker
RunIds == 1..setting.runs
Items == 1..setting.items
Slots == 1..setting.slots

\* The states before the first authorization are left out.
SourceStates == {"active", "error", "needs_reauth", "paused"}
Source == [present: BOOLEAN, enabled: BOOLEAN, state: SourceStates]

NoRun == [status |-> "none", streams |-> [s \in Streams |-> "none"]]
Run == [status: {"none", "running", "succeeded", "partial", "failed", "deleted"},
        streams: [Streams -> {"none", "running", "done", "failed"}]]

\* A job with NoStream is an mcp_sync, the others are mcp_pages.  A crash may cost an attempt
\* more than the budget.
FreeSlot == [status |-> "free", run |-> 0, stream |-> NoStream, cursor |-> 0, attempts |-> 0]
Job == [status: {"free", "pending", "running", "dead"}, run: RunIds \cup {0},
        stream: Streams \cup {NoStream}, cursor: 0..setting.items,
        attempts: 0..(MaxAttempts + bounds.crashes)]

\* Where a handler stands, and its local variables: the streams it has still to fan out or to
\* look at, the one it will fail, the page and next cursor it listed (an empty set is None),
\* whether the listing is whole, what it will delete, the run's outcome as it worked it out,
\* the source's row as it read it and the state it will save, and whether it will return or
\* raise.
Outcomes == {"succeeded", "partial", "failed"}
NoRow == [present |-> FALSE, enabled |-> FALSE, state |-> "paused"]
Idle == [pc |-> "idle", slot |-> 0, run |-> 0, todo |-> {}, failing |-> {}, page |-> {}, next |-> {},
         whole |-> FALSE, doomed |-> {}, outcome |-> "failed", row |-> NoRow, to |-> "active",
         ok |-> TRUE]
Local == [pc: {"idle", "sync", "tools", "fanout", "state", "outcome", "save", "deny", "page",
               "fetch", "index", "mark", "next", "reconcile", "delete", "done", "finish",
               "close", "ended"},
          slot: Slots \cup {0}, run: RunIds \cup {0}, todo: SUBSET Streams,
          failing: SUBSET Streams,
          page: SUBSET Items, next: SUBSET (0..setting.items), whole: BOOLEAN,
          doomed: SUBSET Items, outcome: Outcomes, row: Source, to: SourceStates, ok: BOOLEAN]

Init ==
    /\ setting \in Settings
    /\ source = [present |-> TRUE, enabled |-> TRUE, state |-> "active"]
    /\ runs = [r \in RunIds |-> NoRun]
    /\ seen = [r \in RunIds |-> [s \in Streams |-> {}]]
    /\ jobs = [j \in Slots |-> FreeSlot]
    /\ worker = [w \in Workers |-> Idle]
    /\ cli = [pc |-> "idle", command |-> "enable", row |-> NoRow]
    /\ live \in [Streams -> SUBSET Items]
    /\ index = [s \in Streams |-> {}]
    /\ away = [r \in RunIds |-> [s \in Streams |-> {}]]
    /\ exact = {}
    /\ told = "enable"
    /\ bounds = [commands |-> 0, changes |-> 0, crashes |-> 0]

-------------------------------------------------------------------------------
\* The queue.

FirstFree(j) == jobs[j].status = "free" /\ \A i \in 1..(j - 1) : jobs[i].status # "free"

Room == \E j \in Slots : jobs[j].status = "free"

Queued(r, s, c) == [FreeSlot EXCEPT !.status = "pending", !.run = r, !.stream = s, !.cursor = c]

Enqueue(job) == \E j \in Slots : FirstFree(j) /\ jobs' = [jobs EXCEPT ![j] = job]

SyncQueued == \E j \in Slots :
    jobs[j].status \in {"pending", "running"} /\ jobs[j].stream = NoStream

\* The scheduler or the CLI asks for a run; the dedupe key admits one mcp_sync at a time.
\* It looks at the source's row first.
RequestSync ==
    /\ source.present /\ source.enabled
    /\ ~SyncQueued
    /\ Enqueue(Queued(0, NoStream, 0))
    /\ UNCHANGED <<source, runs, seen, worker, cli, index, live, away, exact, told, bounds, setting>>

Step(w, fields) == worker' = [worker EXCEPT ![w] = fields]

Claim(w, j) ==
    /\ worker[w].pc = "idle" /\ w \in setting.workers /\ jobs[j].status = "pending"
    /\ jobs' = [jobs EXCEPT ![j].status = "running", ![j].attempts = @ + 1]
    /\ Step(w, [Idle EXCEPT !.pc = IF jobs[j].stream = NoStream THEN "sync" ELSE "page",
                            !.slot = j, !.run = jobs[j].run])
    /\ UNCHANGED <<source, runs, seen, cli, index, live, away, exact, told, bounds, setting>>

\* The handler has returned (ok) or raised.
Settle(w) ==
    LET j == worker[w].slot IN
    /\ worker[w].pc = "ended"
    /\ jobs' = [jobs EXCEPT ![j] =
           IF worker[w].ok THEN FreeSlot
           ELSE IF @.attempts >= MaxAttempts THEN [@ EXCEPT !.status = "dead"]
           ELSE [@ EXCEPT !.status = "pending"]]
    /\ Step(w, Idle)
    /\ UNCHANGED <<source, runs, seen, cli, index, live, away, exact, told, bounds, setting>>

Ended(w, ok) == [worker[w] EXCEPT !.pc = "ended", !.ok = ok]

-------------------------------------------------------------------------------
\* handle_sync.

Over(r) == \A s \in Streams : runs[r].streams[s] \in {"done", "failed"}

\* Is some run's page still queued or being worked on?
Underway == \E j \in Slots :
    jobs[j].status \in {"pending", "running"} /\ jobs[j].stream # NoStream

\* start_run, unless the source is gone or disabled.
StartRun(w) ==
    /\ worker[w].pc = "sync"
    /\ IF source.present /\ source.enabled
       THEN \E r \in RunIds :
            /\ runs[r].status = "none" /\ \A q \in 1..(r - 1) : runs[q].status # "none"
            /\ runs' = [runs EXCEPT ![r].status = "running"]
            /\ away' = [away EXCEPT ![r] = [s \in Streams |-> Items \ live[s]]]
            /\ exact' = IF Underway THEN {} ELSE exact \cup {r}
            /\ Step(w, [worker[w] EXCEPT !.pc = "tools", !.run = r])
       ELSE Step(w, Ended(w, TRUE)) /\ UNCHANGED <<runs, away, exact>>
    /\ UNCHANGED <<source, seen, jobs, cli, index, live, told, bounds, setting>>

\* The tools the source offers fit the plan.
ToolsFit(w) ==
    /\ worker[w].pc = "tools"
    /\ Step(w, [worker[w] EXCEPT !.pc = "fanout", !.todo = Streams])
    /\ UNCHANGED <<source, runs, seen, jobs, cli, index, live, away, exact, told, bounds, setting>>

\* They do not, or the call failed: the run is over before it has a page.
ToolsFail(w, f) ==
    /\ worker[w].pc = "tools"
    /\ IF f = "unauthorized"
       THEN /\ Step(w, [worker[w] EXCEPT !.pc = "state", !.to = "needs_reauth"])
            /\ UNCHANGED <<runs, seen>>
       ELSE /\ runs' = [runs EXCEPT ![worker[w].run].status =
                           IF @ = "deleted" THEN @ ELSE "failed"]
            /\ seen' = [seen EXCEPT ![worker[w].run] = [s \in Streams |-> {}]]
            /\ Step(w, IF f = "refused" THEN [worker[w] EXCEPT !.pc = "state", !.to = "error"]
                       ELSE Ended(w, FALSE))
    /\ UNCHANGED <<source, jobs, cli, index, live, away, exact, told, bounds, setting>>

\* note_stream for several streams; a run that was deleted with its source has no row.
NoteAll(r, S, outcome) ==
    runs' = IF runs[r].status = "deleted"
            THEN runs
            ELSE [runs EXCEPT ![r].streams = [s \in Streams |-> IF s \in S THEN outcome ELSE @[s]]]

\* The first page of one stream; after the last, the source is active.
FanOut(w, s) ==
    LET left == worker[w].todo \ {s} IN
    /\ worker[w].pc = "fanout" /\ s \in worker[w].todo
    /\ NoteAll(worker[w].run, {s}, "running")
    /\ Enqueue(Queued(worker[w].run, s, 0))
    /\ Step(w, IF left # {} THEN [worker[w] EXCEPT !.todo = left]
               ELSE [worker[w] EXCEPT !.pc = "state", !.todo = {}, !.to = "active"])
    /\ UNCHANGED <<source, seen, cli, index, live, away, exact, told, bounds, setting>>

-------------------------------------------------------------------------------
\* The source's row, read and then saved whole (_set_state, the end of _maybe_finish).

AfterState(w) ==
    IF worker[w].to = "needs_reauth"
    THEN [worker[w] EXCEPT !.pc = "deny", !.row = Idle.row, !.todo = Streams]
    ELSE [worker[w] EXCEPT !.pc = "ended", !.row = Idle.row]

GetSource(w) ==
    LET kept == IF worker[w].pc = "state" THEN {worker[w].to} ELSE {"needs_reauth", "paused"} IN
    /\ worker[w].pc \in {"state", "outcome"}
    /\ Step(w, IF ~source.present \/ source.state \in kept
               THEN AfterState(w)
               ELSE [worker[w] EXCEPT !.pc = "save", !.row = source])
    /\ UNCHANGED <<source, runs, seen, jobs, cli, index, live, away, exact, told, bounds, setting>>

\* save is an upsert of the whole row.
SaveSource(w) ==
    /\ worker[w].pc = "save"
    /\ source' = [worker[w].row EXCEPT !.state = worker[w].to]
    /\ Step(w, AfterState(w))
    /\ UNCHANGED <<runs, seen, jobs, cli, index, live, away, exact, told, bounds, setting>>

\* The rest of _authorization_failed: each stream is looked at and, unless it is over, fails.
DenyCheck(w, s) ==
    /\ worker[w].pc = "deny" /\ s \in worker[w].todo /\ worker[w].failing = {}
    /\ Step(w, [worker[w] EXCEPT !.todo = @ \ {s},
                    !.failing = IF runs[worker[w].run].streams[s] \in {"done", "failed"}
                                THEN {} ELSE {s}])
    /\ UNCHANGED <<source, runs, seen, jobs, cli, index, live, away, exact, told, bounds, setting>>

DenyNote(w) ==
    /\ worker[w].pc = "deny" /\ worker[w].failing # {}
    /\ NoteAll(worker[w].run, worker[w].failing, "failed")
    /\ Step(w, [worker[w] EXCEPT !.failing = {}])
    /\ UNCHANGED <<source, seen, jobs, cli, index, live, away, exact, told, bounds, setting>>

AllDenied(w) == worker[w].pc = "deny" /\ worker[w].todo = {} /\ worker[w].failing = {}

Outcome(r) ==
    LET failed == {s \in Streams : runs[r].streams[s] = "failed"} IN
    IF failed = {} THEN "succeeded" ELSE IF failed = Streams THEN "failed" ELSE "partial"

\* Mutant of Finishes: a run ends whenever one of its streams does.
Finishes_Early(r) == runs[r].status = "running"

Finishes(r) == runs[r].status = "running" /\ Over(r)

\* _maybe_finish: the run is read, and the outcome worked out from what was read ...
ReadRun(w) ==
    LET r == worker[w].run IN
    /\ worker[w].pc = "finish" \/ AllDenied(w)
    /\ Step(w, IF Finishes(r) THEN [worker[w] EXCEPT !.pc = "close", !.outcome = Outcome(r)]
               ELSE [worker[w] EXCEPT !.pc = "ended"])
    /\ UNCHANGED <<source, runs, seen, jobs, cli, index, live, away, exact, told, bounds, setting>>

\* ... and written, whatever the row says by then.  Ending the run forgets what it saw.
FinishRun(w) ==
    LET r == worker[w].run IN
    /\ worker[w].pc = "close"
    /\ runs' = [runs EXCEPT ![r].status = IF @ = "deleted" THEN @ ELSE worker[w].outcome]
    /\ seen' = [seen EXCEPT ![r] = [s \in Streams |-> {}]]
    /\ Step(w, [worker[w] EXCEPT !.pc = "outcome", !.outcome = Idle.outcome,
                    !.to = IF worker[w].outcome = "failed" THEN "error" ELSE "active"])
    /\ UNCHANGED <<source, jobs, cli, index, live, away, exact, told, bounds, setting>>

-------------------------------------------------------------------------------
\* handle_page.

StreamOf(w) == jobs[worker[w].slot].stream
CursorOf(w) == jobs[worker[w].slot].cursor

Note(w, outcome) == NoteAll(worker[w].run, {StreamOf(w)}, outcome)

BeginPage(w) ==
    /\ worker[w].pc = "page"
    /\ IF source.present /\ source.enabled
       THEN Step(w, [worker[w] EXCEPT !.pc = "fetch"]) /\ UNCHANGED runs
       ELSE /\ IF source.present THEN Note(w, "failed") ELSE UNCHANGED runs
            /\ Step(w, Ended(w, TRUE))
    /\ UNCHANGED <<source, seen, jobs, cli, index, live, away, exact, told, bounds, setting>>

\* What the list tool answers after cursor c: the next item, and a cursor if there is more.
\* A listing by position cannot know that it is at the end before it gets an empty page.
After(s, c) ==
    IF setting.byOffset
    THEN {i \in live[s] : Cardinality({k \in live[s] : k <= i}) > c}
    ELSE {i \in live[s] : i > c}

Page(s, c) == {i \in After(s, c) : \A k \in After(s, c) : i <= k}

NextCursor(s, c) ==
    IF setting.byOffset
    THEN IF After(s, c) = {} THEN {} ELSE {c + 1}
    ELSE IF After(s, c) = Page(s, c) THEN {} ELSE Page(s, c)

\* The list call; early when the high-water mark, max_items or max_pages ends the stream here.
Fetch(w, early) ==
    LET next == NextCursor(StreamOf(w), CursorOf(w)) IN
    /\ worker[w].pc = "fetch"
    /\ Step(w, [worker[w] EXCEPT !.pc = "index", !.page = Page(StreamOf(w), CursorOf(w)),
                                 !.next = IF early THEN {} ELSE next,
                                 !.whole = next = {} /\ ~early])
    /\ exact' = IF early THEN exact \ {worker[w].run} ELSE exact
    /\ UNCHANGED <<source, runs, seen, jobs, cli, index, live, away, told, bounds, setting>>

\* The page's documents go through the pipeline.  A detail tool may find that an item has
\* gone since it was listed; such an item counts as seen and is left as it is.
IndexPage(w) ==
    /\ worker[w].pc = "index"
    /\ \E gone \in IF Checker THEN SUBSET (worker[w].page \ live[StreamOf(w)]) ELSE {{}} :
           index' = [index EXCEPT ![StreamOf(w)] = @ \cup (worker[w].page \ gone)]
    /\ Step(w, [worker[w] EXCEPT !.pc = "mark"])
    /\ UNCHANGED <<source, runs, seen, jobs, cli, live, away, exact, told, bounds, setting>>

Marked(w) == seen[worker[w].run][StreamOf(w)] \cup worker[w].page

\* mark_seen, and what comes after the page: the next one, or the end of the stream.
MarkSeen(w) ==
    /\ worker[w].pc = "mark"
    /\ seen' = [seen EXCEPT ![worker[w].run][StreamOf(w)] = Marked(w)]
    /\ Step(w, [worker[w] EXCEPT !.page = {}, !.whole = FALSE,
                    !.pc = IF worker[w].next # {} THEN "next"
                           ELSE IF worker[w].whole THEN "reconcile" ELSE "done"])
    /\ UNCHANGED <<source, runs, jobs, cli, index, live, away, exact, told, bounds, setting>>

NextPage(w) == \E c \in worker[w].next :
    /\ worker[w].pc = "next"
    /\ Enqueue(Queued(worker[w].run, StreamOf(w), c))
    /\ Step(w, [worker[w] EXCEPT !.pc = "ended", !.next = {}])
    /\ UNCHANGED <<source, runs, seen, cli, index, live, away, exact, told, bounds, setting>>

Missing(w) == index[StreamOf(w)] \ seen[worker[w].run][StreamOf(w)]

\* Without a per-item check, a listing that lost everything, or most of it, is not trusted.
Suspended(w) ==
    LET indexed == Cardinality(index[StreamOf(w)])  missing == Cardinality(Missing(w)) IN
    /\ ~Checker /\ missing > 0
    /\ \/ seen[worker[w].run][StreamOf(w)] = {}
       \/ missing > setting.minMissing /\ missing > indexed \div 2

\* Mutant of Doomed: what the check says is not asked.
Doomed_Unchecked(w) == IF Suspended(w) THEN {} ELSE Missing(w)

\* reconcile_stream: each missing item is checked, if the plan can.
Doomed(w) ==
    IF Suspended(w) THEN {} ELSE IF Checker THEN Missing(w) \ live[StreamOf(w)] ELSE Missing(w)

\* A check that is refused, or left for the next run (MAX_VERIFY_PER_RUN), keeps the item.
Reconcile(w) ==
    /\ worker[w].pc = "reconcile"
    /\ \E kept \in IF Checker THEN SUBSET Doomed(w) ELSE {{}} :
        /\ Step(w, [worker[w] EXCEPT !.pc = "delete", !.doomed = Doomed(w) \ kept])
        /\ exact' = IF Suspended(w) \/ kept # {} THEN exact \ {worker[w].run} ELSE exact
    /\ UNCHANGED <<source, runs, seen, jobs, cli, index, live, away, told, bounds, setting>>

DeleteDoomed(w) ==
    /\ worker[w].pc = "delete"
    /\ index' = [index EXCEPT ![StreamOf(w)] = @ \ worker[w].doomed]
    /\ Step(w, [worker[w] EXCEPT !.pc = "done", !.doomed = {}])
    /\ UNCHANGED <<source, runs, seen, jobs, cli, live, away, exact, told, bounds, setting>>

StreamDone(w) ==
    /\ worker[w].pc = "done"
    /\ Note(w, "done")
    /\ Step(w, [worker[w] EXCEPT !.pc = "finish"])
    /\ UNCHANGED <<source, seen, jobs, cli, index, live, away, exact, told, bounds, setting>>

\* Where a page calls the source: to list, for the details of a document, to check an item.
Calling(w) == worker[w].pc \in {"fetch", "mark"} \cup (IF Checker THEN {"reconcile"} ELSE {})

\* Mutant of Postponed: the attempt counts.
Postponed_Counted(job) == [job EXCEPT !.status = "pending"]

Postponed(job) == [job EXCEPT !.status = "pending", !.attempts = @ - 1]

\* Rate limits postpone the page, without a bound.
Postpone(w) ==
    /\ Calling(w) /\ "rate_limited" \in setting.failures
    /\ jobs' = [jobs EXCEPT ![worker[w].slot] = Postponed(@)]
    /\ Step(w, Idle)
    /\ UNCHANGED <<source, runs, seen, cli, index, live, away, exact, told, bounds, setting>>

Unauthorized(w) ==
    /\ Calling(w) /\ "unauthorized" \in setting.failures
    /\ Step(w, [Idle EXCEPT !.pc = "state", !.to = "needs_reauth", !.slot = worker[w].slot,
                            !.run = worker[w].run])
    /\ UNCHANGED <<source, runs, seen, jobs, cli, index, live, away, exact, told, bounds, setting>>

\* Mutant of GivesUp: the stream fails with the first failed attempt that comes after the last.
GivesUp_Late(w) == jobs[worker[w].slot].attempts > MaxAttempts

GivesUp(w) == jobs[worker[w].slot].attempts >= MaxAttempts

\* Anything transient is raised, and retried by the queue; the last attempt fails the stream.
Unavailable(w) ==
    /\ Calling(w) /\ "unavailable" \in setting.failures
    /\ IF GivesUp(w) THEN Note(w, "failed") ELSE UNCHANGED runs
    /\ Step(w, [Idle EXCEPT !.pc = IF GivesUp(w) THEN "finish" ELSE "ended", !.ok = FALSE,
                            !.slot = worker[w].slot, !.run = worker[w].run])
    /\ UNCHANGED <<source, seen, jobs, cli, index, live, away, exact, told, bounds, setting>>

\* A tool error, or any other answer that is not one of the above, fails the stream for this
\* run.
Refused(w) ==
    /\ Calling(w) /\ "refused" \in setting.failures
    /\ Note(w, "failed")
    /\ Step(w, [Idle EXCEPT !.pc = "finish", !.slot = worker[w].slot, !.run = worker[w].run])
    /\ UNCHANGED <<source, seen, jobs, cli, index, live, away, exact, told, bounds, setting>>

-------------------------------------------------------------------------------
\* The CLI, the source's own changes, the operator and crashes.

CliReads(command) ==
    /\ cli.pc = "idle" /\ command \in setting.commands /\ source.present
    /\ bounds.commands < setting.limits.commands
    /\ bounds' = [bounds EXCEPT !.commands = @ + 1]
    /\ cli' = [pc |-> "read", command |-> command, row |-> source]
    /\ UNCHANGED <<source, runs, seen, jobs, worker, index, live, away, exact, told, setting>>

CliDone == cli' = [cli EXCEPT !.pc = "idle", !.row = NoRow] /\ told' = cli.command

Pause ==
    /\ cli.pc = "read" /\ cli.command = "pause"
    /\ source' = [cli.row EXCEPT !.enabled = FALSE, !.state = "paused"]
    /\ CliDone
    /\ UNCHANGED <<runs, seen, jobs, worker, index, live, away, exact, bounds, setting>>

Enable ==
    /\ cli.pc = "read" /\ cli.command = "enable"
    /\ source' = [cli.row EXCEPT !.enabled = TRUE, !.state = "active"]
    /\ IF SyncQueued THEN UNCHANGED jobs ELSE Enqueue(Queued(0, NoStream, 0))
    /\ CliDone
    /\ UNCHANGED <<runs, seen, worker, index, live, away, exact, bounds, setting>>

\* cmd_remove deletes the documents first and the rows after.
RemoveDocuments ==
    /\ cli.pc = "read" /\ cli.command = "remove"
    /\ index' = [s \in Streams |-> {}]
    /\ cli' = [cli EXCEPT !.pc = "purged"]
    /\ UNCHANGED <<source, runs, seen, jobs, worker, live, away, exact, told, bounds, setting>>

RemoveRows ==
    /\ cli.pc = "purged"
    /\ source' = [source EXCEPT !.present = FALSE]
    /\ runs' = [r \in RunIds |-> IF runs[r].status = "none" THEN runs[r]
                                 ELSE [runs[r] EXCEPT !.status = "deleted"]]
    /\ seen' = [r \in RunIds |-> [s \in Streams |-> {}]]
    /\ CliDone
    /\ UNCHANGED <<jobs, worker, index, live, away, exact, bounds, setting>>

\* An item is created or deleted at the source.
Change(s, i) ==
    /\ bounds.changes < setting.limits.changes
    /\ bounds' = [bounds EXCEPT !.changes = @ + 1]
    /\ live' = [live EXCEPT ![s] = IF i \in @ THEN @ \ {i} ELSE @ \cup {i}]
    /\ away' = [r \in RunIds |-> [away[r] EXCEPT ![s] = @ \cup {i}]]
    /\ exact' = {}
    /\ UNCHANGED <<source, runs, seen, jobs, worker, cli, index, told, setting>>

\* The server dies; when it starts again, its running jobs are pending.
Crash ==
    /\ bounds.crashes < setting.limits.crashes
    /\ bounds' = [bounds EXCEPT !.crashes = @ + 1]
    /\ worker' = [w \in Workers |-> Idle]
    /\ jobs' = [j \in Slots |-> IF jobs[j].status = "running"
                                THEN [jobs[j] EXCEPT !.status = "pending"] ELSE jobs[j]]
    /\ UNCHANGED <<source, runs, seen, cli, index, live, away, exact, told, setting>>

Quiet ==
    /\ \A w \in Workers : worker[w].pc = "idle"
    /\ \A j \in Slots : jobs[j].status \in {"free", "dead"}
    /\ cli.pc = "idle"

\* Nothing is left to do, or a bound is reached: no run to start, or no slot to
\* enqueue to.
Rest ==
    /\ \/ Quiet
       \/ ~Room
       \/ /\ \E w \in Workers : worker[w].pc = "sync"
          /\ \A r \in RunIds : runs[r].status # "none"
    /\ UNCHANGED vars

Handle(w) ==
    \/ \E j \in Slots : Claim(w, j)
    \/ Settle(w)
    \/ StartRun(w) \/ ToolsFit(w)
    \/ \E f \in setting.failures : ToolsFail(w, f)
    \/ \E s \in Streams : FanOut(w, s)
    \/ GetSource(w) \/ SaveSource(w) \/ ReadRun(w) \/ FinishRun(w)
    \/ DenyNote(w) \/ \E s \in Streams : DenyCheck(w, s)
    \/ BeginPage(w) \/ Fetch(w, FALSE) \/ Fetch(w, TRUE)
    \/ IndexPage(w) \/ MarkSeen(w) \/ NextPage(w)
    \/ Reconcile(w) \/ DeleteDoomed(w) \/ StreamDone(w)
    \/ Postpone(w) \/ Unauthorized(w) \/ Unavailable(w) \/ Refused(w)

Next ==
    \/ RequestSync
    \/ \E w \in Workers : Handle(w)
    \/ \E command \in setting.commands : CliReads(command)
    \/ Pause \/ Enable \/ RemoveDocuments \/ RemoveRows
    \/ \E s \in Streams, i \in Items : Change(s, i)
    \/ Crash
    \/ Rest

Spec == Init /\ [][Next]_vars

-------------------------------------------------------------------------------
TypeOK ==
    /\ source \in Source
    /\ runs \in [RunIds -> Run]
    /\ seen \in [RunIds -> [Streams -> SUBSET Items]]
    /\ jobs \in [Slots -> Job]
    /\ worker \in [Workers -> Local]
    /\ cli \in [pc: {"idle", "read", "purged"}, command: {"pause", "enable", "remove"},
                row: Source]
    /\ index \in [Streams -> SUBSET Items] /\ live \in [Streams -> SUBSET Items]
    /\ away \in [RunIds -> [Streams -> SUBSET Items]]
    /\ exact \subseteq RunIds
    /\ told \in {"pause", "enable", "remove"}
    /\ bounds \in Limits /\ \A k \in DOMAIN bounds : bounds[k] <= setting.limits[k]

\* "Deletions are inferred only from a complete listing that reached its end in this run"
\* (sync.py): a document is deleted only if the source lacked its item at some time since the
\* run began.
DeletionsJustified == \A w \in Workers :
    worker[w].pc = "delete" => worker[w].doomed \subseteq away[worker[w].run][StreamOf(w)]

Last(r) == runs[r].status # "none" /\ \A q \in (r + 1)..setting.runs : runs[q].status = "none"

\* "... or finishes the stream and, when every stream is done, the run" (jobs.py): once the
\* queue is empty, no run is left running - as long as the operator does not interfere and
\* the server does not die.
QuietMeansOver ==
    Quiet /\ bounds.commands = 0 /\ bounds.crashes = 0 => \A r \in RunIds : runs[r].status # "running"

\* A run that succeeded and that nothing came across - no other run, no change at the source,
\* no early end, no suspended or postponed deletion - leaves exactly the source's items in the index.
CoversSource == Quiet => \A r \in exact :
    Last(r) /\ runs[r].status = "succeeded" => index = live

\* A run's outcome stays as it is, and success means that every stream is done, unless the
\* server dies and delivers a page of the run again.  A denial fails streams that other workers
\* are at, and whoever has read the run writes what it read: partial and failed may replace one
\* another then, but not success, and no run is running again.
OutcomeFinal == [][\A r \in RunIds :
    bounds.crashes = 0 /\ runs[r].status \in Outcomes
    => /\ \/ runs'[r].status \in {runs[r].status, "deleted"}
          \/ /\ "unauthorized" \in setting.failures
             /\ {runs[r].status, runs'[r].status} = {"partial", "failed"}
       /\ runs[r].status = "succeeded" => \A s \in Streams : runs'[r].streams[s] = "done"]_vars

\* "A paused or removed source's documents are not returned by any tool": after the command,
\* the source stays as the operator left it.
OperatorDecides == cli.pc = "idle" =>
    /\ told = "pause" => ~source.enabled
    /\ told = "remove" => ~source.present
===============================================================================
