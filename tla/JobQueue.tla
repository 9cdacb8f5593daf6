------------------------------- MODULE JobQueue -------------------------------
(***************************************************************************)
(* The durable job queue of the single-server profile (node/queue.py) and  *)
(* the workers that drain it (NodeService.run_once, node/service.py).      *)
(*                                                                         *)
(* A row of the jobs table is a record.  A worker holds a SNAPSHOT of the  *)
(* row it claimed - complete, fail and postpone address the row by id and  *)
(* decide from the snapshot, whatever has happened to the row since.       *)
(*                                                                         *)
(* Times are relative to now: wait is available_at - now, lease is         *)
(* lease_until - now, and Tick lowers both.  The environment is: slow      *)
(* handlers, the process dying and starting again, and the CLI, which      *)
(* writes the same file from another process.                              *)
(***************************************************************************)
EXTENDS Integers, FiniteSets

CONSTANTS
    Workers,               \* worker threads of the one server process
    Keys, NoKey,           \* dedupe keys; NoKey is NULL
    MaxAttempts,           \* node.job_max_attempts
    RetryBase, RetryMax,   \* backoff, in ticks
    LeaseTime,             \* node.job_lease_s, in ticks
    MaxRateLimitRequeues,  \* ingestion.max_rate_limit_requeues
    Delays,                \* delays a caller or a source may ask for
    HandlersMayOverrun,    \* may a live handler still run when its lease ends?
    MaxJobs,               \* bound: rows ever inserted
    MaxCrashes,            \* bound: times the process dies
    MaxAge                 \* bound: overdue rows whose order is kept; MaxJobs keeps all

ASSUME QueueAssumption ==
    /\ NoKey \notin Keys
    /\ MaxAttempts \in Nat \ {0}
    /\ RetryBase \in Nat /\ RetryMax \in Nat /\ LeaseTime \in Nat
    /\ MaxRateLimitRequeues \in Nat
    /\ Delays \subseteq Nat
    /\ HandlersMayOverrun \in BOOLEAN
    /\ MaxJobs \in Nat /\ MaxCrashes \in Nat /\ MaxAge \in Nat

VARIABLES
    jobs,     \* the table; a row that was never inserted is "absent", a deleted one "done"
    worker,   \* what each worker thread is doing
    up,       \* is the server process running?
    crashes,  \* times it has died
    ran       \* history: jobs whose handler has returned normally at least once

vars == <<jobs, worker, up, crashes, ran>>

Ids == 1..MaxJobs
Statuses == {"absent", "pending", "running", "dead", "done"}

Row == [status: Statuses, key: Keys \cup {NoKey}, attempts: Int,
        limited: 0..MaxRateLimitRequeues, wait: Int, lease: Int]

\* A worker's local state: idle, inside the handler of its job, or past the handler
\* and about to delete the row.
Idle == [phase |-> "idle", id |-> 0, attempts |-> 0, limited |-> 0]
Local == [phase: {"idle", "handling", "handled"}, id: Ids \cup {0}, attempts: Int,
          limited: 0..MaxRateLimitRequeues]

Busy(w) == worker[w].phase # "idle"
Live(j) == jobs[j].status \in {"pending", "running"}

\* Mutant of Stored: an upsert, which also writes rows that were deleted.
Stored_Upsert(j) == jobs[j].status # "absent"

Stored(j) == Live(j) \/ jobs[j].status = "dead"

\* Mutant of KeyTaken: an index over pending rows only.
KeyTaken_PendingOnly(k, j) ==
    k # NoKey /\ \E i \in Ids \ {j} : jobs[i].status = "pending" /\ jobs[i].key = k

\* The partial unique index jobs_dedupe: would making j live break it?
KeyTaken(k, j) == k # NoKey /\ \E i \in Ids \ {j} : Live(i) /\ jobs[i].key = k

Init ==
    /\ jobs = [j \in Ids |-> [status |-> "absent", key |-> NoKey, attempts |-> 0,
                              limited |-> 0, wait |-> 0, lease |-> 0]]
    /\ worker = [w \in Workers |-> Idle]
    /\ up = TRUE
    /\ crashes = 0
    /\ ran = {}

(***************************************************************************)
(* put: AUTOINCREMENT gives the next id; a duplicate key inserts nothing.  *)
(***************************************************************************)
Put(k, delay) == \E j \in Ids :
    /\ jobs[j].status = "absent" /\ \A i \in 1..(j - 1) : jobs[i].status # "absent"
    /\ ~KeyTaken(k, j)
    /\ jobs' = [jobs EXCEPT ![j] = [@ EXCEPT !.status = "pending", !.key = k, !.wait = delay]]
    /\ UNCHANGED <<worker, up, crashes, ran>>

(***************************************************************************)
(* claim: the first row, by available_at and then id, that is due or whose *)
(* lease has expired.  available_at is not touched by a claim.  The order  *)
(* of rows beyond MaxAge is left open.                                     *)
(***************************************************************************)

\* Mutant of Claimable: a lease that ends one tick early.
Claimable_OffByOne(j) ==
    \/ jobs[j].status = "pending" /\ jobs[j].wait <= 0
    \/ jobs[j].status = "running" /\ jobs[j].lease <= 0

Claimable(j) ==
    \/ jobs[j].status = "pending" /\ jobs[j].wait <= 0
    \/ jobs[j].status = "running" /\ jobs[j].lease < 0

Precedes(i, j) ==
    \/ jobs[i].wait < jobs[j].wait
    \/ jobs[i].wait = jobs[j].wait /\ jobs[i].wait > -MaxAge /\ i < j

Claim(w) == \E j \in Ids :
    /\ up /\ ~Busy(w)
    /\ Claimable(j) /\ \A i \in Ids : Claimable(i) => ~Precedes(i, j)
    /\ LET n == jobs[j].attempts + 1 IN
       /\ jobs' = [jobs EXCEPT ![j] = [@ EXCEPT !.status = "running", !.attempts = n,
                                                !.lease = LeaseTime]]
       /\ worker' = [worker EXCEPT ![w] = [phase |-> "handling", id |-> j, attempts |-> n,
                                           limited |-> jobs[j].limited]]
    /\ UNCHANGED <<up, crashes, ran>>

\* The handler returns: its effects are durable, the row is not yet deleted.
HandlerReturns(w) ==
    /\ worker[w].phase = "handling"
    /\ worker' = [worker EXCEPT ![w].phase = "handled"]
    /\ ran' = ran \cup {worker[w].id}
    /\ UNCHANGED <<jobs, up, crashes>>

Release(w) == worker' = [worker EXCEPT ![w] = Idle]

\* Of a deleted row only the key is remembered, for the properties below.
Deleted(row) == [row EXCEPT !.status = "done", !.attempts = 0, !.limited = 0, !.wait = 0,
                            !.lease = 0]

\* complete: DELETE by id, whoever holds the row now.
Complete(w) ==
    /\ worker[w].phase = "handled"
    /\ jobs' = [jobs EXCEPT ![worker[w].id] = Deleted(@)]
    /\ Release(w)
    /\ UNCHANGED <<up, crashes, ran>>

(***************************************************************************)
(* The two updates that put a row back.  Neither looks at the row's status *)
(* or lease; a row that is gone matches nothing, and one whose key is live *)
(* again raises IntegrityError, which the work loop logs and drops.        *)
(***************************************************************************)
Reschedule(j, attempts, limited, delay) ==
    jobs' = IF Stored(j) /\ ~KeyTaken(jobs[j].key, j)
            THEN [jobs EXCEPT ![j] = [@ EXCEPT !.status = "pending", !.attempts = attempts,
                                               !.limited = limited, !.wait = delay,
                                               !.lease = 0]]
            ELSE jobs

\* min(RetryMax, RetryBase * 2 ^ (a - 1))
RetryDelay(a) ==
    LET d == RetryBase * 2 ^ (IF a > 1 THEN a - 1 ELSE 0)
    IN  IF d \in 0..RetryMax THEN d ELSE RetryMax

\* Mutant of Bury: giving a job up by deleting it.
Bury_Deletes(j) == jobs' = IF Stored(j) THEN [jobs EXCEPT ![j] = Deleted(@)] ELSE jobs

Bury(j) ==
    jobs' = IF Stored(j) THEN [jobs EXCEPT ![j].status = "dead", ![j].lease = 0] ELSE jobs

\* Mutant of BudgetSpent: one attempt short.
BudgetSpent_OffByOne(s) == s.attempts + 1 >= MaxAttempts

BudgetSpent(s) == s.attempts >= MaxAttempts

\* Mutant of Fail: a failure that starts the count again.
Fail_FreshBudget(w) ==
    LET s == worker[w] IN
    IF BudgetSpent(s)
    THEN Bury(s.id)
    ELSE Reschedule(s.id, 0, jobs[s.id].limited, RetryDelay(s.attempts))

\* fail: the budget is judged by the snapshot's attempts.
Fail(w) ==
    LET s == worker[w] IN
    IF BudgetSpent(s)
    THEN Bury(s.id)
    ELSE Reschedule(s.id, jobs[s.id].attempts, jobs[s.id].limited, RetryDelay(s.attempts))

HandlerFails(w) ==
    /\ worker[w].phase = "handling"
    /\ Fail(w)
    /\ Release(w)
    /\ UNCHANGED <<up, crashes, ran>>

\* Mutant of RateLimitSpent: one postponement too many.
RateLimitSpent_OffByOne(s) == s.limited > MaxRateLimitRequeues

RateLimitSpent(s) == s.limited >= MaxRateLimitRequeues

\* _handle_fetch on RateLimitedError: postpone with the payload's counter raised,
\* which gives the attempt back; an exhausted counter is an ordinary failure.
RateLimited(w, delay) ==
    LET s == worker[w] IN
    /\ s.phase = "handling"
    /\ IF RateLimitSpent(s)
       THEN Fail(w)
       ELSE Reschedule(s.id, jobs[s.id].attempts - 1, s.limited + 1, delay)
    /\ Release(w)
    /\ UNCHANGED <<up, crashes, ran>>

(***************************************************************************)
(* requeue_dead for one job or for all of them: one UPDATE statement, so a *)
(* single duplicate key undoes it for every row it matched.                *)
(***************************************************************************)
DeadJobs == {j \in Ids : jobs[j].status = "dead"}

Conflicting(S) == \E j \in S :
    \/ KeyTaken(jobs[j].key, j)
    \/ jobs[j].key # NoKey /\ \E i \in S \ {j} : jobs[i].key = jobs[j].key

Requeue(S) ==
    /\ S # {} /\ ~Conflicting(S)
    /\ jobs' = [j \in Ids |-> IF j \in S
                              THEN [jobs[j] EXCEPT !.status = "pending", !.attempts = 0,
                                                   !.wait = 0]
                              ELSE jobs[j]]
    /\ UNCHANGED <<worker, up, crashes, ran>>

RequeueOne == \E j \in DeadJobs : Requeue({j})
RequeueAll == Requeue(DeadJobs)

\* The process dies: the threads and their snapshots are gone, the file stays.
Crash ==
    /\ up /\ crashes < MaxCrashes
    /\ up' = FALSE
    /\ crashes' = crashes + 1
    /\ worker' = [w \in Workers |-> Idle]
    /\ UNCHANGED <<jobs, ran>>

\* Mutant of Interrupted: recovery also picks up the dead letters.
Interrupted_AndDead(j) == jobs[j].status \in {"running", "dead"}

Interrupted(j) == jobs[j].status = "running"

\* NodeService.start calls recover_interrupted before it spawns a thread.
Start ==
    /\ ~up
    /\ up' = TRUE
    /\ jobs' = [j \in Ids |-> IF Interrupted(j)
                              THEN [jobs[j] EXCEPT !.status = "pending", !.wait = 0,
                                                   !.lease = 0]
                              ELSE jobs[j]]
    /\ UNCHANGED <<worker, crashes, ran>>

(***************************************************************************)
(* Time passes.  Of a due row only its place in the order matters from now *)
(* on, so what is overdue is kept as a rank, exact below MaxAge.  Unless   *)
(* handlers may overrun, a tick waits for a worker whose lease would end   *)
(* while it is still on the job.                                           *)
(***************************************************************************)
Rank(t) == Cardinality({jobs[i].wait : i \in {i \in Ids : Live(i) /\ jobs[i].wait - 1 \in t..-1}})

Sooner(t) ==
    IF t >= 0 THEN t ELSE IF Rank(t) \in 0..MaxAge THEN -Rank(t) ELSE -MaxAge

Aged(j) ==
    [jobs[j] EXCEPT !.wait = IF Live(j) THEN Sooner(@ - 1) ELSE @,
                    !.lease = IF jobs[j].status = "running" /\ @ >= 0 THEN @ - 1 ELSE @]

Tick ==
    /\ HandlersMayOverrun \/ \A w \in Workers : Busy(w) => jobs[worker[w].id].lease > 0
    /\ jobs' = [j \in Ids |-> Aged(j)]
    /\ UNCHANGED <<worker, up, crashes, ran>>

Work(w) ==
    \/ HandlerReturns(w)
    \/ Complete(w)
    \/ HandlerFails(w)
    \/ \E d \in Delays : RateLimited(w, d)

Next ==
    \/ \E k \in Keys \cup {NoKey}, d \in Delays : Put(k, d)
    \/ \E w \in Workers : Claim(w)
    \/ \E w \in Workers : HandlerReturns(w)
    \/ \E w \in Workers : Complete(w)
    \/ \E w \in Workers : HandlerFails(w)
    \/ \E w \in Workers, d \in Delays : RateLimited(w, d)
    \/ RequeueOne \/ RequeueAll
    \/ Crash \/ Start
    \/ Tick

Spec == Init /\ [][Next]_vars

\* What the process's threads do while it runs: workers poll for work and their handlers
\* end (every network call has a timeout), clocks advance, a dead process is started again.
Fairness ==
    /\ WF_vars(Tick) /\ WF_vars(Start)
    /\ \A w \in Workers : WF_vars(Claim(w)) /\ WF_vars(Work(w))

FairSpec == Spec /\ Fairness

-------------------------------------------------------------------------------
TypeOK ==
    /\ jobs \in [Ids -> Row]
    /\ worker \in [Workers -> Local]
    /\ up \in BOOLEAN
    /\ crashes \in 0..MaxCrashes
    /\ ran \subseteq Ids

\* Deduplication (put, fail, postpone, requeue_dead and restart together): two rows with the
\* same dedupe key are never both pending or running.
DedupeUnique == \A i, j \in Ids :
    Live(i) /\ Live(j) /\ jobs[i].key = jobs[j].key /\ jobs[i].key # NoKey => i = j

\* At-least-once delivery: a row leaves the table only after its handler has returned
\* normally, however many deliveries, crashes and stale updates came between.
NothingDropped == \A j \in Ids : jobs[j].status = "done" => j \in ran

\* What a lease is for: no job is in the hands of two workers.
OneWorkerPerJob == \A v, w \in Workers :
    Busy(v) /\ Busy(w) /\ worker[v].id = worker[w].id => v = w

\* "While one is pending or running, another with the same key is not added" (put), seen
\* from the workers: two different jobs with the same key are never worked on at once.
OneJobPerKey == \A v, w \in Workers :
    LET i == worker[v].id  j == worker[w].id IN
    Busy(v) /\ Busy(w) /\ jobs[i].key = jobs[j].key /\ jobs[i].key # NoKey => i = j

\* A job is only given up once its retry budget is used, also after requeue_dead gave it a
\* fresh one.
DeadOnlyAfterBudget == \A j \in Ids :
    jobs[j].status = "dead" => jobs[j].attempts >= MaxAttempts

\* A deleted row stays deleted: no stale fail or postpone brings a finished job back.
DoneIsFinal == [][\A j \in Ids : jobs[j].status = "done" => jobs'[j] = jobs[j]]_vars

\* Dead letters stay until an operator requeues them: nothing else takes a job off the list,
\* no restart and no worker.
DeadStaysDead == [][(\E j \in DeadJobs : jobs'[j].status # "dead")
                        => RequeueOne \/ RequeueAll]_vars

\* "Nothing is dropped silently": every queued job is eventually finished or dead-lettered.
EveryJobSettles == \A j \in Ids : Live(j) ~> ~Live(j)

\* The queue as its callers see it.
CallersView == [j \in Ids |-> IF Live(j) THEN "queued" ELSE jobs[j].status]

Delivery == INSTANCE JobDelivery WITH Jobs <- Ids, state <- CallersView, ran <- ran

\* The queue implements it while handlers end within their lease: through crashes, retries
\* and requeues a job only moves along those edges, and leaves only after a worker ran it.
DeliverySpec == Delivery!Spec
===============================================================================
