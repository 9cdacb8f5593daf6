---------------------------- MODULE JobQueueProofs ----------------------------
(***************************************************************************)
(* Proofs about JobQueue, for every value of the constants.                *)
(***************************************************************************)
EXTENDS JobQueue, TLAPS

\* The backoff stays within its cap, whatever the number of attempts.
LEMMA RetryDelayType == ASSUME NEW a \in Int PROVE RetryDelay(a) \in 0..RetryMax
BY QueueAssumption DEF RetryDelay

\* A row that the clock has aged is still a row.
LEMMA AgedType ==
    ASSUME NEW j \in Ids, jobs \in [Ids -> Row]
    PROVE  Aged(j) \in Row
<1> DEFINE wait == IF Live(j) THEN Sooner(jobs[j].wait - 1) ELSE jobs[j].wait
           lease == IF jobs[j].status = "running" /\ jobs[j].lease >= 0
                    THEN jobs[j].lease - 1 ELSE jobs[j].lease
<1>1. jobs[j] \in Row /\ jobs[j].wait \in Int /\ jobs[j].lease \in Int
    BY DEF Row
<1>2. \A t \in Int : Sooner(t) \in Int
    BY QueueAssumption DEF Sooner
<1>3. wait \in Int /\ lease \in Int
    BY <1>1, <1>2
<1>4. Aged(j) = [jobs[j] EXCEPT !.wait = wait, !.lease = lease]
    BY DEF Aged
<1>5. QED
    BY <1>1, <1>3, <1>4, Zenon DEF Row

\* The two updates by id keep the table well-typed, whatever snapshot they come from.
LEMMA RescheduleType ==
    ASSUME NEW j \in Ids, NEW attempts \in Int, NEW limited \in 0..MaxRateLimitRequeues,
           NEW delay \in Int, jobs \in [Ids -> Row], Reschedule(j, attempts, limited, delay)
    PROVE  jobs' \in [Ids -> Row]
<1> DEFINE r == [jobs[j] EXCEPT !.status = "pending", !.attempts = attempts,
                               !.limited = limited, !.wait = delay, !.lease = 0]
<1>1. jobs[j] \in Row /\ "pending" \in Statuses /\ 0 \in Int
    BY DEF Statuses
<1>2. r \in Row
    BY <1>1, Zenon DEF Row
<1>3. jobs' = [jobs EXCEPT ![j] = r] \/ jobs' = jobs
    BY DEF Reschedule
<1> HIDE DEF r
<1>4. QED
    BY <1>2, <1>3

\* Burying a job leaves a table of rows.
LEMMA BuryType ==
    ASSUME NEW j \in Ids, jobs \in [Ids -> Row], Bury(j)
    PROVE  jobs' \in [Ids -> Row]
<1> DEFINE r == [jobs[j] EXCEPT !.status = "dead", !.lease = 0]
<1>1. jobs[j] \in Row /\ "dead" \in Statuses /\ 0 \in Int
    BY DEF Statuses
<1>2. r \in Row
    BY <1>1, Zenon DEF Row
<1>3. jobs' = [jobs EXCEPT ![j] = r] \/ jobs' = jobs
    BY DEF Bury
<1> HIDE DEF r
<1>4. QED
    BY <1>2, <1>3

\* So does a failure, whether it is retried or buried.
LEMMA FailType ==
    ASSUME NEW w \in Workers, TypeOK, Busy(w), worker[w].id \in Ids, Fail(w)
    PROVE  jobs' \in [Ids -> Row]
<1> DEFINE s == worker[w]
<1>1. s.attempts \in Int /\ jobs[s.id] \in Row
    BY DEF TypeOK, Local
<1>2. CASE BudgetSpent(s)
    BY <1>1, <1>2, BuryType DEF Fail, TypeOK
<1>3. CASE ~BudgetSpent(s)
    <2>1. RetryDelay(s.attempts) \in Int
        BY <1>1, RetryDelayType, QueueAssumption
    <2>2. Reschedule(s.id, jobs[s.id].attempts, jobs[s.id].limited, RetryDelay(s.attempts))
        BY <1>3 DEF Fail
    <2>3. jobs[s.id].attempts \in Int /\ jobs[s.id].limited \in 0..MaxRateLimitRequeues
        BY <1>1 DEF Row
    <2>4. QED
        BY <2>1, <2>2, <2>3, RescheduleType DEF TypeOK
<1>4. QED
    BY <1>2, <1>3

\* A worker that is busy is busy with a row that exists or existed.
BusyWithJob == \A w \in Workers : Busy(w) => worker[w].id \in Ids

TypeInv == TypeOK /\ BusyWithJob

\* The initial state satisfies the inductive type invariant.
LEMMA TypeInvInit == Init => TypeInv
BY QueueAssumption DEF Init, TypeInv, TypeOK, BusyWithJob, Busy, Idle, Local, Row, Statuses

\* Every step preserves the inductive type invariant, one case per action.
LEMMA TypeInvStep == TypeInv /\ [Next]_vars => TypeInv'
<1> SUFFICES ASSUME TypeInv, [Next]_vars
             PROVE  TypeInv'
    OBVIOUS
<1> USE QueueAssumption DEF TypeInv, TypeOK, BusyWithJob, Busy
<1>1. ASSUME NEW k \in Keys \cup {NoKey}, NEW d \in Delays, Put(k, d)
      PROVE  TypeInv'
    <2>1. PICK j \in Ids :
            /\ jobs' = [jobs EXCEPT ![j] = [@ EXCEPT !.status = "pending", !.key = k,
                                                     !.wait = d]]
            /\ UNCHANGED <<worker, up, crashes, ran>>
        BY <1>1 DEF Put
    <2>2. jobs[j] \in Row /\ d \in Int /\ "pending" \in Statuses
        BY DEF Statuses
    <2>3. [jobs[j] EXCEPT !.status = "pending", !.key = k, !.wait = d] \in Row
        BY <1>1, <2>2, Zenon DEF Row
    <2>4. jobs' \in [Ids -> Row]
        BY <2>1, <2>3, Zenon
    <2>5. QED
        BY <2>1, <2>4
<1>2. ASSUME NEW w \in Workers, Claim(w)
      PROVE  TypeInv'
    <2>1. PICK j \in Ids :
            /\ jobs' = [jobs EXCEPT ![j] = [@ EXCEPT !.status = "running",
                                                     !.attempts = jobs[j].attempts + 1,
                                                     !.lease = LeaseTime]]
            /\ worker' = [worker EXCEPT ![w] = [phase |-> "handling", id |-> j,
                                                attempts |-> jobs[j].attempts + 1,
                                                limited |-> jobs[j].limited]]
            /\ UNCHANGED <<up, crashes, ran>>
        BY <1>2 DEF Claim
    <2> DEFINE r == [jobs[j] EXCEPT !.status = "running", !.attempts = jobs[j].attempts + 1,
                                   !.lease = LeaseTime]
    <2>2. /\ jobs[j] \in Row /\ "running" \in Statuses /\ LeaseTime \in Int
          /\ jobs[j].attempts + 1 \in Int /\ jobs[j].limited \in 0..MaxRateLimitRequeues
        BY DEF Row, Statuses
    <2>3. r \in Row
        BY <2>2, Zenon DEF Row
    <2>4. worker' \in [Workers -> Local]
        BY <2>1, <2>2 DEF Local
    <2>5. jobs' = [jobs EXCEPT ![j] = r]
        BY <2>1
    <2> HIDE DEF r
    <2>6. jobs' \in [Ids -> Row]
        BY <2>3, <2>5, Zenon
    <2>7. \A v \in Workers : worker'[v] = worker[v] \/ worker'[v].id = j
        BY <2>1, Zenon
    <2>8. QED
        BY <2>1, <2>4, <2>6, <2>7
<1>3. ASSUME NEW w \in Workers, HandlerReturns(w)
      PROVE  TypeInv'
    BY <1>3 DEF HandlerReturns, Local
<1>4. ASSUME NEW w \in Workers, Complete(w)
      PROVE  TypeInv'
    <2> DEFINE j == worker[w].id
    <2>1. j \in Ids /\ jobs[j] \in Row
        BY <1>4 DEF Complete
    <2>2. Deleted(jobs[j]) \in Row
        <3>1. "done" \in Statuses /\ 0 \in Int /\ 0 \in 0..MaxRateLimitRequeues
            BY DEF Statuses
        <3>2. QED
            BY <2>1, <3>1, Zenon DEF Deleted, Row
    <2>3. jobs' = [jobs EXCEPT ![j] = Deleted(jobs[j])]
        BY <1>4 DEF Complete
    <2>4. jobs' \in [Ids -> Row]
        BY <2>2, <2>3
    <2>5. QED
        BY <1>4, <2>4 DEF Complete, Release, Idle, Local
<1>5. ASSUME NEW w \in Workers, HandlerFails(w)
      PROVE  TypeInv'
    <2>1. jobs' \in [Ids -> Row]
        BY <1>5, FailType DEF HandlerFails
    <2>2. QED
        BY <1>5, <2>1 DEF HandlerFails, Release, Idle, Local
<1>6. ASSUME NEW w \in Workers, NEW d \in Delays, RateLimited(w, d)
      PROVE  TypeInv'
    <2> DEFINE s == worker[w]
    <2>0. s.id \in Ids /\ Busy(w) /\ s.limited \in 0..MaxRateLimitRequeues
        BY <1>6 DEF RateLimited, Local
    <2>1. jobs' \in [Ids -> Row]
        <3>1. CASE RateLimitSpent(s)
            BY <1>6, <2>0, <3>1, FailType DEF RateLimited
        <3>2. CASE ~RateLimitSpent(s)
            <4>1. Reschedule(s.id, jobs[s.id].attempts - 1, s.limited + 1, d)
                BY <1>6, <3>2 DEF RateLimited
            <4>2. s.limited + 1 \in 0..MaxRateLimitRequeues
                BY <2>0, <3>2 DEF RateLimitSpent
            <4>3. jobs[s.id].attempts - 1 \in Int /\ d \in Int
                BY <2>0 DEF Row
            <4>4. QED
                BY <2>0, <4>1, <4>2, <4>3, RescheduleType
        <3>3. QED
            BY <3>1, <3>2
    <2>2. QED
        BY <1>6, <2>1 DEF RateLimited, Release, Idle, Local
<1>7. ASSUME NEW S \in SUBSET Ids, Requeue(S)
      PROVE  TypeInv'
    <2>1. ASSUME NEW j \in Ids
          PROVE  [jobs[j] EXCEPT !.status = "pending", !.attempts = 0, !.wait = 0] \in Row
        <3>1. jobs[j] \in Row /\ "pending" \in Statuses /\ 0 \in Int
            BY DEF Statuses
        <3>2. QED
            BY <3>1, Zenon DEF Row
    <2>2. jobs' \in [Ids -> Row]
        BY <1>7, <2>1, Zenon DEF Requeue
    <2>3. QED
        BY <1>7, <2>2 DEF Requeue
<1>8. CASE Crash
    <2>1. worker' \in [Workers -> Local] /\ \A w \in Workers : worker'[w] = Idle
        BY <1>8 DEF Crash, Idle, Local
    <2>2. crashes' \in 0..MaxCrashes
        BY <1>8 DEF Crash
    <2>3. QED
        BY <1>8, <2>1, <2>2 DEF Crash, Idle
<1>9. CASE Start
    <2>1. ASSUME NEW j \in Ids
          PROVE  [jobs[j] EXCEPT !.status = "pending", !.wait = 0, !.lease = 0] \in Row
        <3>1. jobs[j] \in Row /\ "pending" \in Statuses /\ 0 \in Int
            BY DEF Statuses
        <3>2. QED
            BY <3>1, Zenon DEF Row
    <2>2. jobs' \in [Ids -> Row]
        BY <1>9, <2>1, Zenon DEF Start
    <2>3. QED
        BY <1>9, <2>2 DEF Start
<1>10. CASE Tick
    <2>1. jobs' \in [Ids -> Row]
        BY <1>10, AgedType, Zenon DEF Tick
    <2>2. QED
        BY <1>10, <2>1 DEF Tick
<1>11. CASE UNCHANGED vars
    BY <1>11 DEF vars
<1>12. QED
    BY <1>1, <1>2, <1>3, <1>4, <1>5, <1>6, <1>7, <1>8, <1>9, <1>10, <1>11
       DEF Next, RequeueOne, RequeueAll, DeadJobs

\* Every row and every worker's snapshot is well-formed in every reachable state.
THEOREM TypeCorrect == Spec => []TypeOK
<1>1. Spec => []TypeInv
    BY TypeInvInit, TypeInvStep, PTL DEF Spec
<1>2. TypeInv => TypeOK
    BY DEF TypeInv
<1>3. QED
    BY <1>1, <1>2, PTL

-------------------------------------------------------------------------------
(***************************************************************************)
(* What each operation does to the table, row by row.                      *)
(***************************************************************************)

\* Row j may have changed, keeping its key; no other row has.
OnlyRow(j) == /\ jobs'[j].key = jobs[j].key
              /\ \A i \in Ids : i # j => jobs'[i] = jobs[i]

\* What Reschedule can do to the table: nothing, or one stored row is pending again and no
\* live row has its key.
LEMMA RescheduleEffect ==
    ASSUME NEW j \in Ids, NEW attempts, NEW limited, NEW delay, jobs \in [Ids -> Row],
           Reschedule(j, attempts, limited, delay)
    PROVE  \/ jobs' = jobs
           \/ /\ Stored(j) /\ ~KeyTaken(jobs[j].key, j)
              /\ jobs'[j].status = "pending" /\ OnlyRow(j)
<1> DEFINE r == [jobs[j] EXCEPT !.status = "pending", !.attempts = attempts,
                               !.limited = limited, !.wait = delay, !.lease = 0]
<1>1. CASE Stored(j) /\ ~KeyTaken(jobs[j].key, j)
    <2>1. jobs' = [jobs EXCEPT ![j] = r]
        BY <1>1 DEF Reschedule
    <2>2. r.status = "pending" /\ r.key = jobs[j].key
        BY DEF Row
    <2> HIDE DEF r
    <2>3. QED
        BY <1>1, <2>1, <2>2 DEF OnlyRow
<1>2. CASE ~(Stored(j) /\ ~KeyTaken(jobs[j].key, j))
    BY <1>2 DEF Reschedule
<1>3. QED
    BY <1>1, <1>2

\* What Bury can do: nothing, or one stored row is dead, with the attempts it had.
LEMMA BuryEffect ==
    ASSUME NEW j \in Ids, jobs \in [Ids -> Row], Bury(j)
    PROVE  \/ jobs' = jobs
           \/ /\ Stored(j) /\ jobs'[j].status = "dead" /\ OnlyRow(j)
              /\ jobs'[j].attempts = jobs[j].attempts
BY DEF Bury, OnlyRow, Row

\* A failed or rate-limited delivery puts the row back, buries it, or changes nothing.
PutBack(j) == /\ Stored(j) /\ ~KeyTaken(jobs[j].key, j)
              /\ jobs'[j].status = "pending" /\ OnlyRow(j)

Buried(w) == LET j == worker[w].id IN
    /\ BudgetSpent(worker[w])
    /\ Stored(j) /\ jobs'[j].status = "dead" /\ OnlyRow(j)
    /\ jobs'[j].attempts = jobs[j].attempts

\* A failure leaves the table, puts the worker's job back, or buries it.
LEMMA FailEffect ==
    ASSUME NEW w \in Workers, TypeInv, Busy(w), Fail(w)
    PROVE  jobs' = jobs \/ PutBack(worker[w].id) \/ Buried(w)
<1> DEFINE j == worker[w].id
<1>1. j \in Ids /\ jobs \in [Ids -> Row]
    BY DEF TypeInv, TypeOK, BusyWithJob
<1>2. CASE BudgetSpent(worker[w])
    BY <1>1, <1>2, BuryEffect DEF Fail, Buried
<1>3. CASE ~BudgetSpent(worker[w])
    BY <1>1, <1>3, RescheduleEffect DEF Fail, PutBack
<1>4. QED
    BY <1>2, <1>3

\* What a delivery that did not succeed leaves behind.
Undelivered(w) ==
    /\ worker[w].phase = "handling"
    /\ jobs' = jobs \/ PutBack(worker[w].id) \/ Buried(w)
    /\ worker' = [worker EXCEPT ![w] = Idle]
    /\ UNCHANGED <<up, crashes, ran>>

\* A handler that raises leaves its job undelivered.
LEMMA HandlerFailsEffect ==
    ASSUME NEW w \in Workers, TypeInv, HandlerFails(w)
    PROVE  Undelivered(w)
BY FailEffect DEF HandlerFails, Undelivered, Release, Busy

\* So does one that is rate limited.
LEMMA RateLimitedEffect ==
    ASSUME NEW w \in Workers, NEW d \in Delays, TypeInv, RateLimited(w, d)
    PROVE  Undelivered(w)
<1> DEFINE j == worker[w].id
<1>1. Busy(w) /\ j \in Ids /\ jobs \in [Ids -> Row]
    BY DEF TypeInv, TypeOK, BusyWithJob, RateLimited, Busy
<1>2. CASE RateLimitSpent(worker[w])
    BY <1>1, <1>2, FailEffect DEF RateLimited, Undelivered, Release
<1>3. CASE ~RateLimitSpent(worker[w])
    BY <1>1, <1>3, RescheduleEffect DEF RateLimited, Undelivered, Release, PutBack
<1>4. QED
    BY <1>2, <1>3

\* put adds one pending row, whose key no live row has.
LEMMA PutEffect ==
    ASSUME NEW k \in Keys \cup {NoKey}, NEW d \in Delays, TypeInv, Put(k, d)
    PROVE  \E j \in Ids : /\ jobs[j].status = "absent" /\ ~KeyTaken(k, j)
                          /\ jobs'[j].status = "pending" /\ jobs'[j].key = k
                          /\ \A i \in Ids : i # j => jobs'[i] = jobs[i]
                          /\ UNCHANGED <<worker, up, crashes, ran>>
<1>1. PICK j \in Ids :
        /\ jobs[j].status = "absent" /\ ~KeyTaken(k, j)
        /\ jobs' = [jobs EXCEPT ![j] = [@ EXCEPT !.status = "pending", !.key = k, !.wait = d]]
        /\ UNCHANGED <<worker, up, crashes, ran>>
    BY DEF Put
<1>2. jobs \in [Ids -> Row] /\ jobs[j] \in Row
    BY DEF TypeInv, TypeOK
<1> DEFINE r == [jobs[j] EXCEPT !.status = "pending", !.key = k, !.wait = d]
<1>3. r.status = "pending" /\ r.key = k
    BY <1>2 DEF Row
<1>4. jobs' = [jobs EXCEPT ![j] = r]
    BY <1>1
<1> HIDE DEF r
<1>5. QED
    BY <1>1, <1>2, <1>3, <1>4

\* claim hands one claimable row to an idle worker, with a full lease.
LEMMA ClaimEffect ==
    ASSUME NEW w \in Workers, TypeInv, Claim(w)
    PROVE  \E j \in Ids :
              /\ up /\ ~Busy(w) /\ Claimable(j)
              /\ jobs'[j].status = "running" /\ jobs'[j].attempts = jobs[j].attempts + 1
              /\ jobs'[j].lease = LeaseTime /\ OnlyRow(j)
              /\ worker'[w].phase = "handling" /\ worker'[w].id = j
              /\ worker'[w].attempts = jobs[j].attempts + 1
              /\ \A v \in Workers : v # w => worker'[v] = worker[v]
              /\ UNCHANGED <<up, crashes, ran>>
<1> DEFINE n(j) == jobs[j].attempts + 1
           r(j) == [jobs[j] EXCEPT !.status = "running", !.attempts = n(j),
                                   !.lease = LeaseTime]
           s(j) == [phase |-> "handling", id |-> j, attempts |-> n(j),
                    limited |-> jobs[j].limited]
<1>1. PICK j \in Ids :
        /\ up /\ ~Busy(w) /\ Claimable(j)
        /\ jobs' = [jobs EXCEPT ![j] = r(j)]
        /\ worker' = [worker EXCEPT ![w] = s(j)]
        /\ UNCHANGED <<up, crashes, ran>>
    BY DEF Claim
<1>2. jobs \in [Ids -> Row] /\ jobs[j] \in Row /\ worker \in [Workers -> Local]
    BY DEF TypeInv, TypeOK
<1>3. r(j).status = "running" /\ r(j).attempts = n(j) /\ r(j).lease = LeaseTime
      /\ r(j).key = jobs[j].key
    BY <1>2 DEF Row
<1>4. s(j).phase = "handling" /\ s(j).id = j /\ s(j).attempts = n(j)
    OBVIOUS
<1> HIDE DEF r, s
<1>5. jobs'[j] = r(j) /\ worker'[w] = s(j)
      /\ (\A i \in Ids : i # j => jobs'[i] = jobs[i])
      /\ \A v \in Workers : v # w => worker'[v] = worker[v]
    BY <1>1, <1>2, Zenon
<1>6. QED
    BY <1>1, <1>3, <1>4, <1>5 DEF OnlyRow

\* complete makes the row of a handled job done, and frees its worker.
LEMMA CompleteEffect ==
    ASSUME NEW w \in Workers, TypeInv, Complete(w)
    PROVE  /\ worker[w].phase = "handled" /\ worker[w].id \in Ids
           /\ jobs'[worker[w].id].status = "done" /\ OnlyRow(worker[w].id)
           /\ worker' = [worker EXCEPT ![w] = Idle]
           /\ UNCHANGED <<up, crashes, ran>>
<1> DEFINE j == worker[w].id
           r == Deleted(jobs[j])
<1>1. j \in Ids /\ jobs \in [Ids -> Row] /\ jobs[j] \in Row
    BY DEF TypeInv, TypeOK, BusyWithJob, Complete, Busy
<1>2. r.status = "done" /\ r.key = jobs[j].key
    BY <1>1 DEF Deleted, Row
<1>3. jobs' = [jobs EXCEPT ![j] = r]
    BY DEF Complete
<1> HIDE DEF r
<1>4. jobs'[j] = r /\ \A i \in Ids : i # j => jobs'[i] = jobs[i]
    BY <1>1, <1>3, Zenon
<1>5. QED
    BY <1>1, <1>2, <1>4 DEF OnlyRow, Complete, Release

\* requeue_dead makes the chosen dead rows pending, and touches no other.
LEMMA RequeueEffect ==
    ASSUME NEW S \in SUBSET DeadJobs, TypeInv, Requeue(S)
    PROVE  /\ S # {} /\ ~Conflicting(S)
           /\ \A j \in Ids : jobs'[j].key = jobs[j].key
           /\ \A j \in S : jobs'[j].status = "pending"
           /\ \A j \in Ids \ S : jobs'[j] = jobs[j]
           /\ UNCHANGED <<worker, up, crashes, ran>>
<1> DEFINE r(j) == [jobs[j] EXCEPT !.status = "pending", !.attempts = 0, !.wait = 0]
<1>1. \A j \in Ids : jobs[j] \in Row
    BY DEF TypeInv, TypeOK
<1>2. \A j \in Ids : r(j).status = "pending" /\ r(j).key = jobs[j].key
    BY <1>1 DEF Row
<1>3. jobs' = [j \in Ids |-> IF j \in S THEN r(j) ELSE jobs[j]]
    BY DEF Requeue
<1> HIDE DEF r
<1>4. S \subseteq Ids
    BY DEF DeadJobs
<1>5. QED
    BY <1>2, <1>3, <1>4 DEF Requeue

\* A start puts the running rows back to pending, and touches no other.
LEMMA StartEffect ==
    ASSUME TypeInv, Start
    PROVE  /\ ~up /\ up' = TRUE /\ UNCHANGED <<worker, crashes, ran>>
           /\ \A j \in Ids :
                /\ jobs'[j].key = jobs[j].key
                /\ IF jobs[j].status = "running" THEN jobs'[j].status = "pending"
                                                 ELSE jobs'[j] = jobs[j]
<1> DEFINE r(j) == [jobs[j] EXCEPT !.status = "pending", !.wait = 0, !.lease = 0]
<1>1. \A j \in Ids : jobs[j] \in Row
    BY DEF TypeInv, TypeOK
<1>2. \A j \in Ids : r(j).status = "pending" /\ r(j).key = jobs[j].key
    BY <1>1 DEF Row
<1>3. jobs' = [j \in Ids |-> IF Interrupted(j) THEN r(j) ELSE jobs[j]]
    BY DEF Start
<1> HIDE DEF r
<1>4. QED
    BY <1>2, <1>3 DEF Start, Interrupted

\* The clock changes no status and no key, and no lease that it may not end.
LEMMA TickEffect ==
    ASSUME TypeInv, Tick
    PROVE  /\ UNCHANGED <<worker, up, crashes, ran>>
           /\ HandlersMayOverrun \/ \A w \in Workers : Busy(w) => jobs[worker[w].id].lease > 0
           /\ \A j \in Ids :
                /\ jobs'[j].key = jobs[j].key /\ jobs'[j].status = jobs[j].status
                /\ jobs'[j].attempts = jobs[j].attempts
                /\ jobs'[j].lease \in {jobs[j].lease, jobs[j].lease - 1}
<1>1. \A j \in Ids : jobs[j] \in Row
    BY DEF TypeInv, TypeOK
<1>2. \A j \in Ids : jobs'[j] = Aged(j)
    BY DEF Tick
<1>3. ASSUME NEW j \in Ids
      PROVE  /\ Aged(j).key = jobs[j].key /\ Aged(j).status = jobs[j].status
             /\ Aged(j).attempts = jobs[j].attempts
             /\ Aged(j).lease \in {jobs[j].lease, jobs[j].lease - 1}
    BY <1>1 DEF Aged, Row
<1>4. QED
    BY <1>2, <1>3 DEF Tick

-------------------------------------------------------------------------------
(***************************************************************************)
(* Deduplication and at-least-once delivery.                               *)
(***************************************************************************)

\* Every step preserves the uniqueness of the keys of live rows.
LEMMA DedupeStep == TypeInv /\ DedupeUnique /\ [Next]_vars => DedupeUnique'
<1> SUFFICES ASSUME TypeInv, DedupeUnique, [Next]_vars
             PROVE  DedupeUnique'
    OBVIOUS
\* Steps that make no row live and change no key.
<1>1. ASSUME \A j \in Ids : jobs'[j].key = jobs[j].key /\ (Live(j)' => Live(j))
      PROVE  DedupeUnique'
    BY <1>1 DEF DedupeUnique
\* Steps that put back one row whose key is free.
<1>2. ASSUME NEW j \in Ids, PutBack(j)
      PROVE  DedupeUnique'
    BY <1>2 DEF DedupeUnique, PutBack, OnlyRow, KeyTaken, Live
<1>3. ASSUME NEW k \in Keys \cup {NoKey}, NEW d \in Delays, Put(k, d)
      PROVE  DedupeUnique'
    BY <1>3, PutEffect DEF DedupeUnique, KeyTaken, Live
<1>4. ASSUME NEW w \in Workers, Claim(w)
      PROVE  DedupeUnique'
    BY <1>1, <1>4, ClaimEffect DEF OnlyRow, Live, Claimable
<1>5. ASSUME NEW w \in Workers, HandlerReturns(w)
      PROVE  DedupeUnique'
    BY <1>1, <1>5 DEF HandlerReturns, Live
<1>6. ASSUME NEW w \in Workers, Complete(w)
      PROVE  DedupeUnique'
    BY <1>1, <1>6, CompleteEffect DEF OnlyRow, Live
<1>7. ASSUME NEW w \in Workers, Undelivered(w)
      PROVE  DedupeUnique'
    <2>1. worker[w].id \in Ids
        BY <1>7 DEF Undelivered, TypeInv, BusyWithJob, Busy
    <2>2. CASE jobs' = jobs
        BY <1>1, <2>2 DEF Live
    <2>3. CASE PutBack(worker[w].id)
        BY <1>2, <2>1, <2>3
    <2>4. CASE Buried(w)
        BY <1>1, <2>1, <2>4 DEF Buried, OnlyRow, Live
    <2>5. QED
        BY <1>7, <2>2, <2>3, <2>4 DEF Undelivered
<1>8. ASSUME NEW S \in SUBSET DeadJobs, Requeue(S)
      PROVE  DedupeUnique'
    BY <1>8, RequeueEffect DEF DedupeUnique, Conflicting, KeyTaken, Live, DeadJobs
<1>9. CASE Crash
    BY <1>1, <1>9 DEF Crash, Live
<1>10. CASE Start
    BY <1>1, <1>10, StartEffect DEF Live
<1>11. CASE Tick
    BY <1>1, <1>11, TickEffect DEF Live
<1>12. CASE UNCHANGED vars
    BY <1>1, <1>12 DEF vars, Live
<1>13. QED
    BY <1>3, <1>4, <1>5, <1>6, <1>7, <1>8, <1>9, <1>10, <1>11, <1>12, HandlerFailsEffect,
       RateLimitedEffect DEF Next, RequeueOne, RequeueAll

\* However puts, retries, requeues, crashes and stale updates interleave, and whether or not
\* handlers outlive their leases, a dedupe key is live at most once.
THEOREM Dedupe == Spec => []DedupeUnique
<1>1. Init => DedupeUnique
    BY DEF Init, DedupeUnique, Live
<1>2. Spec => [](TypeInv /\ DedupeUnique)
    BY <1>1, TypeInvInit, TypeInvStep, DedupeStep, PTL DEF Spec
<1>3. QED
    BY <1>2, PTL

\* A worker that is about to delete its row has run it.
HandledRan == \A w \in Workers : worker[w].phase = "handled" => worker[w].id \in ran

DeliveryInv == NothingDropped /\ HandledRan

\* Every step preserves that a done job has run.
LEMMA DeliveryStep == TypeInv /\ DeliveryInv /\ [Next]_vars => DeliveryInv'
<1> SUFFICES ASSUME TypeInv, DeliveryInv, [Next]_vars
             PROVE  DeliveryInv'
    OBVIOUS
<1> USE DEF DeliveryInv, NothingDropped, HandledRan
<1>0. worker \in [Workers -> Local]
    BY DEF TypeInv, TypeOK
<1>1. ASSUME NEW k \in Keys \cup {NoKey}, NEW d \in Delays, Put(k, d)
      PROVE  DeliveryInv'
    BY <1>1, PutEffect
<1>2. ASSUME NEW w \in Workers, Claim(w)
      PROVE  DeliveryInv'
    BY <1>2, ClaimEffect DEF OnlyRow
<1>3. ASSUME NEW w \in Workers, HandlerReturns(w)
      PROVE  DeliveryInv'
    BY <1>0, <1>3 DEF HandlerReturns, Local
<1>4. ASSUME NEW w \in Workers, Complete(w)
      PROVE  DeliveryInv'
    BY <1>0, <1>4, CompleteEffect DEF OnlyRow, Idle
<1>5. ASSUME NEW w \in Workers, Undelivered(w)
      PROVE  DeliveryInv'
    <2>1. \A v \in Workers : worker'[v] = worker[v] \/ worker'[v].phase = "idle"
        BY <1>0, <1>5 DEF Undelivered, Idle
    <2>2. worker[w].id \in Ids
        BY <1>5 DEF Undelivered, TypeInv, BusyWithJob, Busy
    <2>3. \A j \in Ids : jobs'[j].status = "done" => jobs[j].status = "done"
        BY <1>5, <2>2 DEF Undelivered, PutBack, Buried, OnlyRow
    <2>4. QED
        BY <1>5, <2>1, <2>3 DEF Undelivered
<1>6. ASSUME NEW S \in SUBSET DeadJobs, Requeue(S)
      PROVE  DeliveryInv'
    BY <1>6, RequeueEffect DEF DeadJobs
<1>7. CASE Crash
    BY <1>7 DEF Crash, Idle
<1>8. CASE Start
    BY <1>8, StartEffect
<1>9. CASE Tick
    BY <1>9, TickEffect
<1>10. CASE UNCHANGED vars
    BY <1>10 DEF vars
<1>11. QED
    BY <1>1, <1>2, <1>3, <1>4, <1>5, <1>6, <1>7, <1>8, <1>9, <1>10, HandlerFailsEffect,
       RateLimitedEffect DEF Next, RequeueOne, RequeueAll

\* No job leaves the table before its handler has returned normally.
THEOREM AtLeastOnce == Spec => []NothingDropped
<1>1. Init => DeliveryInv
    BY DEF Init, DeliveryInv, NothingDropped, HandledRan, Idle
<1>2. Spec => [](TypeInv /\ DeliveryInv)
    BY <1>1, TypeInvInit, TypeInvStep, DeliveryStep, PTL DEF Spec
<1>3. DeliveryInv => NothingDropped
    BY DEF DeliveryInv
<1>4. QED
    BY <1>2, <1>3, PTL

-------------------------------------------------------------------------------
(***************************************************************************)
(* Handlers that end within their lease.  A worker's snapshot is then what *)
(* the row says: the row is still leased to it, for the same delivery.     *)
(***************************************************************************)
Holders == \A w \in Workers : Busy(w) =>
    LET row == jobs[worker[w].id] IN
    row.status = "running" /\ row.attempts = worker[w].attempts /\ row.lease >= 0

DownIdle == ~up => \A w \in Workers : ~Busy(w)

LeaseInv == Holders /\ DownIdle /\ OneWorkerPerJob /\ DeadOnlyAfterBudget

\* Every step preserves the lease invariant, if handlers end within their lease.
LEMMA LeaseStep ==
    ASSUME ~HandlersMayOverrun
    PROVE  TypeInv /\ LeaseInv /\ [Next]_vars => LeaseInv'
<1> SUFFICES ASSUME TypeInv, LeaseInv, [Next]_vars
             PROVE  LeaseInv'
    OBVIOUS
<1> USE DEF LeaseInv, Holders, DownIdle, OneWorkerPerJob, DeadOnlyAfterBudget, Busy
<1>0. /\ worker \in [Workers -> Local] /\ jobs \in [Ids -> Row]
      /\ \A w \in Workers : Busy(w) => worker[w].id \in Ids
    BY DEF TypeInv, TypeOK, BusyWithJob
<1>1. ASSUME NEW k \in Keys \cup {NoKey}, NEW d \in Delays, Put(k, d)
      PROVE  LeaseInv'
    <2>1. PICK j \in Ids :
              /\ jobs[j].status = "absent" /\ jobs'[j].status = "pending"
              /\ \A i \in Ids : i # j => jobs'[i] = jobs[i]
              /\ UNCHANGED <<worker, up, crashes, ran>>
        BY <1>1, PutEffect
    <2>2. \A w \in Workers : Busy(w) => worker[w].id # j
        BY <2>1
    <2>3. QED
        BY <1>0, <2>1, <2>2
<1>2. ASSUME NEW w \in Workers, Claim(w)
      PROVE  LeaseInv'
    <2>1. PICK j \in Ids :
              /\ up /\ ~Busy(w) /\ Claimable(j)
              /\ jobs'[j].status = "running" /\ jobs'[j].attempts = jobs[j].attempts + 1
              /\ jobs'[j].lease = LeaseTime /\ OnlyRow(j)
              /\ worker'[w].phase = "handling" /\ worker'[w].id = j
              /\ worker'[w].attempts = jobs[j].attempts + 1
              /\ \A v \in Workers : v # w => worker'[v] = worker[v]
              /\ UNCHANGED <<up, crashes, ran>>
        BY <1>2, ClaimEffect
    <2>2. \A v \in Workers : Busy(v) => worker[v].id # j
        BY <1>0, <2>1 DEF Claimable, Row
    <2>3. LeaseTime >= 0
        BY QueueAssumption
    <2>4. QED
        BY <1>0, <2>1, <2>2, <2>3 DEF OnlyRow
<1>3. ASSUME NEW w \in Workers, HandlerReturns(w)
      PROVE  LeaseInv'
    BY <1>0, <1>3 DEF HandlerReturns, Local
<1>4. ASSUME NEW w \in Workers, Complete(w)
      PROVE  LeaseInv'
    BY <1>0, <1>4, CompleteEffect DEF OnlyRow, Idle
<1>5. ASSUME NEW w \in Workers, Undelivered(w)
      PROVE  LeaseInv'
    <2> DEFINE j == worker[w].id
    <2>1. /\ Busy(w) /\ j \in Ids
          /\ \A v \in Workers : v # w => worker'[v] = worker[v] /\ (Busy(v) => worker[v].id # j)
          /\ worker'[w].phase = "idle"
        BY <1>0, <1>5 DEF Undelivered, Idle
    <2>2. \A i \in Ids : i # j => jobs'[i] = jobs[i]
        BY <1>5 DEF Undelivered, PutBack, Buried, OnlyRow
    <2>3. jobs'[j].status = "dead" => jobs'[j].attempts >= MaxAttempts
        BY <1>5, <2>1 DEF Undelivered, PutBack, Buried, BudgetSpent
    <2>4. QED
        BY <1>0, <1>5, <2>1, <2>2, <2>3 DEF Undelivered
<1>6. ASSUME NEW S \in SUBSET DeadJobs, Requeue(S)
      PROVE  LeaseInv'
    BY <1>0, <1>6, RequeueEffect DEF DeadJobs
<1>7. CASE Crash
    BY <1>7 DEF Crash, Idle
<1>8. CASE Start
    BY <1>0, <1>8, StartEffect
<1>9. CASE Tick
    <2>1. \A j \in Ids : jobs[j].lease \in Int
        BY <1>0 DEF Row
    <2>2. QED
        BY <1>0, <1>9, <2>1, TickEffect
<1>10. CASE UNCHANGED vars
    BY <1>10 DEF vars
<1>11. QED
    BY <1>1, <1>2, <1>3, <1>4, <1>5, <1>6, <1>7, <1>8, <1>9, <1>10, HandlerFailsEffect,
       RateLimitedEffect DEF Next, RequeueOne, RequeueAll

\* With that assumption the lease invariant holds throughout.
LEMMA LeaseInvariant == ASSUME ~HandlersMayOverrun PROVE Spec => [](TypeInv /\ LeaseInv)
<1>1. Init => LeaseInv
    BY DEF Init, LeaseInv, Holders, DownIdle, OneWorkerPerJob, DeadOnlyAfterBudget, Busy, Idle
<1>2. QED
    BY <1>1, TypeInvInit, TypeInvStep, LeaseStep, PTL DEF Spec

\* While handlers end within their lease, a job is in at most one worker's hands.
THEOREM Exclusive == ASSUME ~HandlersMayOverrun PROVE Spec => []OneWorkerPerJob
<1>1. LeaseInv => OneWorkerPerJob
    BY DEF LeaseInv
<1>2. QED
    BY <1>1, LeaseInvariant, PTL

\* ... and two different jobs with one dedupe key are never worked on together.
THEOREM ExclusiveKey == ASSUME ~HandlersMayOverrun PROVE Spec => []OneJobPerKey
<1>1. TypeInv /\ LeaseInv /\ DedupeUnique => OneJobPerKey
    BY DEF LeaseInv, Holders, DedupeUnique, OneJobPerKey, Live, TypeInv, BusyWithJob
<1>2. QED
    BY <1>1, LeaseInvariant, Dedupe, PTL

\* ... and no job is given up before its budget is used, requeued ones included.
THEOREM FullBudget == ASSUME ~HandlersMayOverrun PROVE Spec => []DeadOnlyAfterBudget
<1>1. LeaseInv => DeadOnlyAfterBudget
    BY DEF LeaseInv
<1>2. QED
    BY <1>1, LeaseInvariant, PTL

-------------------------------------------------------------------------------
(***************************************************************************)
(* The queue implements JobDelivery.                                       *)
(***************************************************************************)

\* One row moves in the callers' view, the others stay.
LEMMA ViewMoves ==
    ASSUME NEW j \in Ids, NEW from, NEW to,
           CallersView[j] = from, CallersView'[j] = to, UNCHANGED ran,
           \A i \in Ids : i # j => jobs'[i] = jobs[i]
    PROVE  Delivery!Move({j}, from, to)
BY DEF Delivery!Move, CallersView, Live

\* A step that moves no job in the callers' view leaves the view as it is.
LEMMA ViewStays ==
    ASSUME \A j \in Ids : CallersView'[j] = CallersView[j]
    PROVE  CallersView' = CallersView
BY DEF CallersView

\* Every step of the queue is a step of JobDelivery, or a stutter.
LEMMA DeliveryRefinement ==
    ASSUME ~HandlersMayOverrun
    PROVE  TypeInv /\ LeaseInv /\ DeliveryInv /\ [Next]_vars => [Delivery!Next]_(Delivery!vars)
<1> SUFFICES ASSUME TypeInv, LeaseInv, DeliveryInv, [Next]_vars
             PROVE  Delivery!Next \/ (CallersView' = CallersView /\ ran' = ran)
    BY DEF Delivery!vars
<1>0. \A w \in Workers : Busy(w) => /\ worker[w].id \in Ids
                                   /\ jobs[worker[w].id].status = "running"
    BY DEF TypeInv, BusyWithJob, LeaseInv, Holders
<1>1. ASSUME NEW k \in Keys \cup {NoKey}, NEW d \in Delays, Put(k, d)
      PROVE  \E j \in Ids : Delivery!Add(j)
    BY <1>1, PutEffect, ViewMoves DEF Delivery!Add, CallersView, Live
<1>2. ASSUME NEW w \in Workers, Claim(w)
      PROVE  CallersView' = CallersView /\ ran' = ran
    BY <1>2, ClaimEffect, ViewStays DEF CallersView, Live, Claimable, OnlyRow
<1>3. ASSUME NEW w \in Workers, HandlerReturns(w)
      PROVE  Delivery!Run(worker[w].id) /\ worker[w].id \in Ids
    BY <1>0, <1>3 DEF HandlerReturns, Busy, Delivery!Run, CallersView, Live
<1>4. ASSUME NEW w \in Workers, Complete(w)
      PROVE  Delivery!Finish(worker[w].id) /\ worker[w].id \in Ids
    BY <1>0, <1>4, CompleteEffect, ViewMoves
       DEF DeliveryInv, HandledRan, Busy, Delivery!Finish, CallersView, Live, OnlyRow
<1>5. ASSUME NEW w \in Workers, Undelivered(w)
      PROVE  \/ Delivery!GiveUp(worker[w].id) /\ worker[w].id \in Ids
             \/ CallersView' = CallersView /\ ran' = ran
    <2>1. worker[w].id \in Ids /\ jobs[worker[w].id].status = "running" /\ ran' = ran
        BY <1>0, <1>5 DEF Undelivered, Busy
    <2>2. CASE jobs' = jobs
        BY <2>1, <2>2 DEF CallersView, Live
    <2>3. CASE PutBack(worker[w].id)
        BY <2>1, <2>3, ViewStays DEF PutBack, OnlyRow, CallersView, Live
    <2>4. CASE Buried(w)
        BY <2>1, <2>4, ViewMoves DEF Buried, OnlyRow, CallersView, Live, Delivery!GiveUp
    <2>5. QED
        BY <1>5, <2>2, <2>3, <2>4 DEF Undelivered
<1>6. ASSUME NEW S \in SUBSET DeadJobs, Requeue(S)
      PROVE  Delivery!Revive(S) /\ S \in SUBSET Ids
    <2>1. /\ S # {} /\ ran' = ran /\ S \subseteq Ids
          /\ \A j \in S : jobs[j].status = "dead" /\ jobs'[j].status = "pending"
          /\ \A j \in Ids \ S : jobs'[j] = jobs[j]
        BY <1>6, RequeueEffect DEF DeadJobs
    <2>2. \A j \in S : CallersView[j] = "dead"
        BY <2>1 DEF CallersView, Live
    <2>3. CallersView' = [j \in Ids |-> IF j \in S THEN "queued" ELSE CallersView[j]]
        BY <2>1 DEF CallersView, Live
    <2>4. QED
        BY <2>1, <2>2, <2>3 DEF Delivery!Revive, Delivery!Move
<1>7. CASE Crash
    BY <1>7 DEF Crash, CallersView, Live
<1>8. CASE Start
    BY <1>8, StartEffect, ViewStays DEF CallersView, Live
<1>9. CASE Tick
    BY <1>9, TickEffect, ViewStays DEF CallersView, Live
<1>10. CASE UNCHANGED vars
    BY <1>10 DEF vars, CallersView, Live
<1>11. QED
    BY <1>1, <1>2, <1>3, <1>4, <1>5, <1>6, <1>7, <1>8, <1>9, <1>10, HandlerFailsEffect,
       RateLimitedEffect DEF Next, RequeueOne, RequeueAll, Delivery!Next

\* While handlers end within their lease, the queue is an at-least-once queue with a
\* dead-letter list, whatever crashes, retries and requeues do.
THEOREM Implements == ASSUME ~HandlersMayOverrun PROVE Spec => DeliverySpec
<1>1. Init => Delivery!Init
    BY DEF Init, Delivery!Init, CallersView, Live
<1>2. Init => DeliveryInv
    BY DEF Init, DeliveryInv, NothingDropped, HandledRan, Idle
<1>3. Spec => []DeliveryInv
    BY <1>2, TypeInvInit, TypeInvStep, DeliveryStep, PTL DEF Spec
<1>4. QED
    BY <1>1, <1>3, LeaseInvariant, DeliveryRefinement, PTL DEF Spec, DeliverySpec, Delivery!Spec

-------------------------------------------------------------------------------
(***************************************************************************)
(* What no step may do: bring a finished job back, or take a dead letter   *)
(* off the list without an operator.                                       *)
(***************************************************************************)

\* Of a done row only its key is left.
DoneRowsBare == \A j \in Ids : jobs[j].status = "done" => Deleted(jobs[j]) = jobs[j]

\* Deleting a row twice is deleting it once, which leaves the status and the key.
LEMMA DeletedTwice ==
    ASSUME NEW row \in Row
    PROVE  Deleted(Deleted(row)) = Deleted(row) /\ Deleted(row).status = "done"
BY DEF Deleted, Row

\* Ageing a done row leaves it as it is.
LEMMA DoneRowAges ==
    ASSUME NEW j \in Ids, jobs[j] \in Row, jobs[j].status = "done"
    PROVE  Aged(j) = jobs[j]
BY DEF Aged, Live, Row

\* No step changes a done row, and a row becomes done by being deleted.
LEMMA DoneStep ==
    TypeInv /\ DoneRowsBare /\ [Next]_vars =>
        /\ \A j \in Ids : jobs[j].status = "done" => jobs'[j] = jobs[j]
        /\ DoneRowsBare'
<1> DEFINE Final(j) == jobs[j].status = "done" => jobs'[j] = jobs[j]
           Bare(j) == jobs'[j].status = "done" => jobs'[j] = jobs[j]
<1> SUFFICES ASSUME TypeInv, DoneRowsBare, [Next]_vars
             PROVE  (\A j \in Ids : Final(j)) /\ DoneRowsBare'
    OBVIOUS
<1>0. jobs \in [Ids -> Row] /\ \A w \in Workers : Busy(w) => worker[w].id \in Ids
    BY DEF TypeInv, TypeOK, BusyWithJob
\* Steps after which a done row is one that was there before.
<1>1. ASSUME \A j \in Ids : Final(j) /\ Bare(j)
      PROVE  (\A j \in Ids : Final(j)) /\ DoneRowsBare'
    BY <1>1 DEF DoneRowsBare
<1>2. ASSUME NEW k \in Keys \cup {NoKey}, NEW d \in Delays, Put(k, d)
      PROVE  \A j \in Ids : Final(j) /\ Bare(j)
    BY <1>2, PutEffect
<1>3. ASSUME NEW w \in Workers, Claim(w)
      PROVE  \A j \in Ids : Final(j) /\ Bare(j)
    BY <1>3, ClaimEffect DEF OnlyRow, Claimable
<1>4. ASSUME NEW w \in Workers, HandlerReturns(w)
      PROVE  \A j \in Ids : Final(j) /\ Bare(j)
    BY <1>4 DEF HandlerReturns
<1>5. ASSUME NEW w \in Workers, Complete(w)
      PROVE  (\A j \in Ids : Final(j)) /\ DoneRowsBare'
    <2> DEFINE i == worker[w].id
    <2>1. i \in Ids /\ jobs[i] \in Row
        BY <1>0, <1>5 DEF Complete, Busy
    <2>2. jobs' = [jobs EXCEPT ![i] = Deleted(jobs[i])]
        BY <1>5 DEF Complete
    <2>3. jobs'[i] = Deleted(jobs[i]) /\ \A j \in Ids : j # i => jobs'[j] = jobs[j]
        BY <1>0, <2>1, <2>2, Zenon
    <2>4. Deleted(jobs'[i]) = jobs'[i]
        BY <2>1, <2>3, DeletedTwice
    <2>5. \A j \in Ids : Final(j)
        BY <2>3 DEF DoneRowsBare
    <2>6. DoneRowsBare'
        BY <2>3, <2>4, Zenon DEF DoneRowsBare, Deleted
    <2>7. QED
        BY <2>5, <2>6
<1>6. ASSUME NEW w \in Workers, Undelivered(w)
      PROVE  \A j \in Ids : Final(j) /\ Bare(j)
    <2>1. worker[w].id \in Ids
        BY <1>0, <1>6 DEF Undelivered, Busy
    <2>2. QED
        BY <1>6, <2>1 DEF Undelivered, PutBack, Buried, OnlyRow, Stored, Live
<1>7. ASSUME NEW S \in SUBSET DeadJobs, Requeue(S)
      PROVE  \A j \in Ids : Final(j) /\ Bare(j)
    BY <1>7, RequeueEffect DEF DeadJobs
<1>8. CASE Crash
    BY <1>1, <1>8 DEF Crash
<1>9. CASE Start
    BY <1>1, <1>9, StartEffect DEF Start, Interrupted
<1>10. CASE Tick
    <2>1. \A j \in Ids : jobs'[j] = Aged(j) /\ jobs'[j].status = jobs[j].status
        BY <1>10, TickEffect DEF Tick
    <2>2. \A j \in Ids : Final(j) /\ Bare(j)
        BY <1>0, <2>1, DoneRowAges
    <2>3. QED
        BY <1>1, <2>2
<1>11. CASE UNCHANGED vars
    BY <1>1, <1>11 DEF vars
<1>12. QED
    BY <1>1, <1>2, <1>3, <1>4, <1>5, <1>6, <1>7, <1>8, <1>9, <1>10, <1>11,
       HandlerFailsEffect, RateLimitedEffect DEF Next, RequeueOne, RequeueAll

\* No stale fail, postpone or complete, of a worker that has lost its lease or not, changes
\* a job that is finished.
THEOREM Final == Spec => DoneIsFinal
<1>1. Init => DoneRowsBare
    BY DEF Init, DoneRowsBare
<1>2. TypeInv /\ DoneRowsBare /\ [Next]_vars => DoneRowsBare'
    BY DoneStep
<1>3. TypeInv /\ DoneRowsBare /\ [Next]_vars =>
          [\A j \in Ids : jobs[j].status = "done" => jobs'[j] = jobs[j]]_vars
    BY DoneStep
<1>4. QED
    BY <1>1, <1>2, <1>3, TypeInvInit, TypeInvStep, PTL DEF Spec, DoneIsFinal

\* A job in a worker's hands is not dead, so nothing a worker does frees a dead letter.
LEMMA DeadStep ==
    TypeInv /\ Holders /\ [Next]_vars =>
        ((\E j \in DeadJobs : jobs'[j].status # "dead") => RequeueOne \/ RequeueAll)
<1> SUFFICES ASSUME TypeInv, Holders, [Next]_vars, ~RequeueOne, ~RequeueAll,
                    NEW j \in DeadJobs
             PROVE  jobs'[j].status = "dead"
    OBVIOUS
<1>0. /\ j \in Ids /\ jobs[j].status = "dead"
      /\ \A w \in Workers : Busy(w) => worker[w].id \in Ids /\ worker[w].id # j
    BY DEF DeadJobs, TypeInv, BusyWithJob, Holders
<1>1. ASSUME NEW k \in Keys \cup {NoKey}, NEW d \in Delays, Put(k, d)
      PROVE  jobs'[j].status = "dead"
    BY <1>0, <1>1, PutEffect
<1>2. ASSUME NEW w \in Workers, Claim(w)
      PROVE  jobs'[j].status = "dead"
    BY <1>0, <1>2, ClaimEffect DEF OnlyRow, Claimable
<1>3. ASSUME NEW w \in Workers, HandlerReturns(w)
      PROVE  jobs'[j].status = "dead"
    BY <1>0, <1>3 DEF HandlerReturns
<1>4. ASSUME NEW w \in Workers, Complete(w)
      PROVE  jobs'[j].status = "dead"
    BY <1>0, <1>4, CompleteEffect DEF OnlyRow, Busy
<1>5. ASSUME NEW w \in Workers, Undelivered(w)
      PROVE  jobs'[j].status = "dead"
    BY <1>0, <1>5 DEF Undelivered, PutBack, Buried, OnlyRow, Busy
<1>6. CASE Crash \/ UNCHANGED vars
    BY <1>0, <1>6 DEF Crash, vars
<1>7. CASE Start
    BY <1>0, <1>7, StartEffect
<1>8. CASE Tick
    BY <1>0, <1>8, TickEffect
<1>9. QED
    BY <1>1, <1>2, <1>3, <1>4, <1>5, <1>6, <1>7, <1>8, HandlerFailsEffect, RateLimitedEffect
       DEF Next

\* While handlers end within their lease, a dead letter stays until an operator requeues it.
THEOREM DeadStays == ASSUME ~HandlersMayOverrun PROVE Spec => DeadStaysDead
<1>1. TypeInv /\ LeaseInv /\ [Next]_vars =>
          [(\E j \in DeadJobs : jobs'[j].status # "dead") => RequeueOne \/ RequeueAll]_vars
    BY DeadStep DEF LeaseInv
<1>2. QED
    BY <1>1, LeaseInvariant, PTL DEF Spec, DeadStaysDead
===============================================================================
