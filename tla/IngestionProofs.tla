---------------------------- MODULE IngestionProofs ----------------------------
(***************************************************************************)
(* For any items, places for jobs, sizes of pages, overlaps and budgets,   *)
(* and any number of discoveries, changes and failures: the state is well  *)
(* typed, no change is missed but what failed for good, a run that began   *)
(* alone makes the index the source but for that, and nothing goes that    *)
(* the source has had all along.                                           *)
(***************************************************************************)
EXTENDS Ingestion, FiniteSetTheorems, FunctionTheorems, TLAPS

Back(t) == IF t > Overlap THEN t - Overlap ELSE 0
Lent == IF queue = "node" THEN events ELSE 0

JobType == [type : {"none", "discover", "fetch"},
            pc : {"none", "queued", "dead", "queueing", "saving", "purging", "indexing",
                  "following", "done"},
            tries : Nat, limited : 0..MaxRequeues, full : BOOLEAN, since : Nat,
            page : Nat \ {0}, pinned : Versions, docs : Versions, live : SUBSET Items,
            more : BOOLEAN, started : Nat, repos : BOOLEAN]

StateOK ==
  /\ kind \in {"issue", "pr", "file", "readme"} /\ queue \in {"node", "sqs"}
  /\ now \in (1 + Overlap)..MaxTime /\ watermark \in 0..now
  /\ updated \in Versions /\ indexed \in Versions /\ newest \in Versions
  /\ listed \in BOOLEAN /\ empty \in BOOLEAN /\ ~(listed /\ empty)
  /\ settled \in BOOLEAN /\ late \in BOOLEAN /\ shifted \in BOOLEAN
  /\ runs \in Nat /\ events \in Nat /\ stayed \in SUBSET Items

(* What a job can be: its budget, when it began, and what it may delete    *)
(* and index.  A discovery at work has read the allowlist as it is.        *)
JobOK(job) ==
  /\ job.type = "none" => job = NoJob
  /\ job.type = "discover" =>
       job.pc \in {"queued", "dead", "queueing", "saving", "purging", "done"}
  /\ job.type = "fetch" => job.pc \in {"queued", "dead", "indexing", "following", "done"}
  /\ job.tries <= MaxAttempts + Lent
  /\ job.pc = "queued" => job.tries < MaxAttempts + Lent
  /\ job.since <= Back(now) /\ job.started <= now
  /\ job.type = "discover" /\ job.pc \in {"queueing", "saving", "purging"} =>
       job.repos = listed /\ ~empty
  /\ job.type = "discover" /\ job.pc = "queueing" /\ job.full => job.since = 0
  /\ job.type = "fetch" /\ kind \notin Dated => job.since = 0
  /\ kind \in Dated => job.live = Items
  /\ stayed \subseteq job.live
  /\ \A i \in Items : job.docs[i] <= newest[i] /\ job.pinned[i] <= newest[i]
  /\ kind = "readme" => \A i \in Items : i # 1 => job.docs[i] = 0

(* The versions there are; an issue or a pull request has its greatest.    *)
VersionsOK == \A i \in Items :
  /\ updated[i] <= newest[i] /\ indexed[i] <= newest[i]
  /\ kind \in Dated /\ updated[i] # 0 => updated[i] = newest[i]
  /\ kind = "readme" /\ i # 1 => updated[i] = 0 /\ indexed[i] = 0

JobsOK == jobs \in [Slots -> JobType] /\ \A s \in Slots : JobOK(jobs[s])

BasicInv == StateOK /\ JobsOK /\ VersionsOK /\ stayed \subseteq Belonging(updated, listed \/ empty)

-----------------------------------------------------------------------------
(* Ranks.  Items are in one order, so that the items before one are fewer  *)
(* than those before its successors; and a page that ends before an item   *)
(* of the list is full.                                                    *)
LEMMA Ordered ==
  ASSUME updated \in Versions, NEW i \in Items, NEW j \in Items
  PROVE  /\ ~Precedes(i, i)
         /\ i # j => Precedes(i, j) \/ Precedes(j, i)
         /\ \A k \in Items : Precedes(i, j) /\ Precedes(j, k) => Precedes(i, k)
PROOF
  <1>1. Items \subseteq Nat /\ \A k \in Items : updated[k] \in Nat
    BY IngestionAssumption DEF Versions, Times
  <1>. QED BY <1>1 DEF Precedes, NewestFirst

LEMMA RanksRise ==
  ASSUME updated \in Versions, NEW S \in SUBSET Items, NEW i \in S, NEW j \in S, Precedes(i, j)
  PROVE  /\ IsFiniteSet(Before(S, i)) /\ IsFiniteSet(Before(S, j))
         /\ Cardinality(Before(S, i)) \in Nat /\ Cardinality(Before(S, j)) \in Nat
         /\ Cardinality(Before(S, i)) < Cardinality(Before(S, j))
PROOF
  <1>1. IsFiniteSet(S)
    BY IngestionAssumption, FS_Subset
  <1>2. Before(S, i) \in SUBSET Before(S, j) /\ i \in Before(S, j) /\ i \notin Before(S, i)
    BY Ordered DEF Before
  <1>3. IsFiniteSet(Before(S, j)) /\ Before(S, j) \subseteq S
    BY <1>1, FS_Subset DEF Before
  <1>4. /\ IsFiniteSet(Before(S, i)) /\ Cardinality(Before(S, i)) <= Cardinality(Before(S, j))
        /\ Cardinality(Before(S, j)) # Cardinality(Before(S, i))
    BY <1>2, <1>3, FS_Subset
  <1>. QED BY <1>3, <1>4, FS_CardinalityType

LEMMA RankBound ==
  ASSUME NEW S \in SUBSET Items, NEW i \in S, updated \in Versions
  PROVE  /\ Cardinality(S) \in Nat /\ IsFiniteSet(S)
         /\ Cardinality(Before(S, i)) \in Nat
         /\ Cardinality(Before(S, i)) < Cardinality(S)
PROOF
  <1>1. IsFiniteSet(S)
    BY IngestionAssumption, FS_Subset
  <1>2. Before(S, i) \in SUBSET S /\ i \notin Before(S, i)
    BY Ordered DEF Before
  <1>3. /\ IsFiniteSet(Before(S, i)) /\ Cardinality(Before(S, i)) <= Cardinality(S)
        /\ Cardinality(S) # Cardinality(Before(S, i))
    BY <1>1, <1>2, FS_Subset
  <1>. QED BY <1>1, <1>3, FS_CardinalityType

LEMMA NumbersBelow ==
  ASSUME NEW n \in Nat
  PROVE  IsFiniteSet(0..(n - 1)) /\ Cardinality(0..(n - 1)) = n
PROOF
  <1>1. PICK m \in Int : m = n - 1
    OBVIOUS
  <1>2. IsFiniteSet(0..m) /\ Cardinality(0..m) = IF 0 > m THEN 0 ELSE m - 0 + 1
    BY FS_Interval
  <1>. QED BY <1>1, <1>2

LEMMA PageFull ==
  ASSUME updated \in Versions, NEW S \in SUBSET Items, NEW n \in Nat \ {0}, NEW i \in S,
         Cardinality(Before(S, i)) >= n * PageSize
  PROVE  Cardinality(Page(S, n)) = PageSize
PROOF
  <1> DEFINE N == Cardinality(S)
             f == [j \in S |-> Cardinality(Before(S, j))]
             a == (n - 1) * PageSize
             b == n * PageSize - 1
             P == Page(S, n)
             g == [j \in P |-> f[j]]
  <1>1. N \in Nat /\ IsFiniteSet(S) /\ \A j \in S : f[j] \in Nat /\ f[j] < N
    BY RankBound
  <1>2. f \in Injection(S, 0..(N - 1))
    <2>1. f \in [S -> 0..(N - 1)]
      BY <1>1
    <2>2. ASSUME NEW j \in S, NEW k \in S, f[j] = f[k] PROVE j = k
      <3>1. j # k => f[j] < f[k] \/ f[k] < f[j]
        BY Ordered, RanksRise
      <3>. QED BY <1>1, <2>2, <3>1
    <2>. HIDE DEF f
    <2>. QED BY <2>1, <2>2, Fun_IsInj
  <1>3. IsFiniteSet(0..(N - 1)) /\ Cardinality(0..(N - 1)) = N
    BY <1>1, NumbersBelow
  <1>4. f \in Surjection(S, 0..(N - 1))
    BY <1>1, <1>2, <1>3, FS_Injection
  <1>5. PageSize \in Nat \ {0}
    BY IngestionAssumption
  <1>6. a \in Nat /\ b \in Int /\ b = a + PageSize - 1
    BY <1>5
  <1>7. b < N /\ b + 1 <= f[i]
    <2>1. b + 1 = n * PageSize /\ f[i] >= n * PageSize
      BY <1>5
    <2>. HIDE DEF b, f, N
    <2>. QED BY <1>1, <1>6, <2>1
  <1>8. P = {j \in S : f[j] \in a..b}
    BY DEF Page
  <1>. HIDE DEF f, a, b, P, N
  <1>9. g \in Bijection(P, a..b)
    <2>1. g \in [P -> a..b]
      BY <1>8
    <2>2. \A j, k \in P : g[j] = g[k] => j = k
      BY <1>2, <1>8 DEF Injection, IsInjective
    <2>3. \A m \in a..b : \E j \in P : g[j] = m
      BY <1>1, <1>4, <1>6, <1>7, <1>8 DEF Surjection
    <2>. HIDE DEF g
    <2>. QED BY <2>1, <2>2, <2>3, Fun_IsBij
  <1>10. IsFiniteSet(a..b) /\ Cardinality(a..b) = PageSize
    BY <1>5, <1>6, FS_Interval
  <1>11. IsFiniteSet(P)
    BY <1>1, <1>8, FS_Subset
  <1>12. Cardinality(a..b) = Cardinality(P)
    BY <1>9, <1>11, FS_Bijection DEF ExistsBijection
  <1>. QED BY <1>10, <1>12 DEF P

-----------------------------------------------------------------------------
(* Types.  A job stays as it may be while the world goes on.               *)
Grows ==
  /\ kind' = kind /\ queue' = queue /\ now <= now' /\ events <= events'
  /\ stayed' \subseteq stayed /\ \A i \in Items : newest[i] <= newest'[i]

LEMMA BackRises ==
  ASSUME NEW t \in Nat, NEW u \in Nat, t <= u
  PROVE  Back(t) \in Nat /\ Back(u) \in Nat /\ Back(t) <= Back(u)
  BY IngestionAssumption DEF Back

LEMMA JobsOn ==
  ASSUME StateOK, StateOK', Grows, NEW job \in JobType, JobOK(job),
         (listed' = listed /\ empty' = empty) \/ job.pc \in {"none", "queued", "dead"}
  PROVE  JobOK(job)'
PROOF
  <1>1. /\ \A i \in Items : /\ job.docs[i] \in Nat /\ job.pinned[i] \in Nat
                            /\ newest[i] \in Nat /\ newest'[i] \in Nat
        /\ now \in Nat /\ now' \in Nat /\ events \in Nat /\ events' \in Nat /\ Overlap \in Nat
        /\ MaxAttempts \in Nat /\ job.tries \in Nat /\ job.since \in Nat /\ job.started \in Nat
    BY IngestionAssumption DEF StateOK, Versions, Times, JobType
  <1>2. Lent <= Lent' /\ Lent \in Nat /\ Lent' \in Nat
    BY <1>1 DEF Lent, Grows
  <1>3. Back(now) <= Back(now)' /\ Back(now) \in Nat /\ Back(now)' \in Nat
    <2>1. Back(now)' = Back(now') /\ now <= now'
      BY DEF Back, Grows
    <2>. QED BY <1>1, <2>1, BackRises
  <1>4. \A i \in Items : job.docs[i] <= newest'[i] /\ job.pinned[i] <= newest'[i]
    BY <1>1 DEF JobOK, Grows
  <1>5. job.tries <= MaxAttempts + Lent' /\ (job.pc = "queued" => job.tries < MaxAttempts + Lent')
    BY <1>1, <1>2 DEF JobOK
  <1>6. job.since <= Back(now)' /\ job.started <= now'
    BY <1>1, <1>3 DEF JobOK, Grows
  <1>. QED BY <1>4, <1>5, <1>6 DEF JobOK, Grows

LEMMA OneJob ==
  ASSUME BasicInv, StateOK', Grows, listed' = listed, empty' = empty, NEW s \in Slots, NEW x \in JobType,
         JobOK(x), jobs' = [jobs EXCEPT ![s] = x]
  PROVE  JobsOK'
PROOF
  <1>1. jobs' \in [Slots -> JobType]
    BY DEF BasicInv, JobsOK
  <1>2. ASSUME NEW r \in Slots PROVE JobOK(jobs[r])'
    <2>1. PICK y \in JobType : y = jobs'[r]
      BY <1>1
    <2>2. JobOK(y)
      BY <2>1 DEF BasicInv, JobsOK
    <2>3. JobOK(y)'
      BY <2>2, JobsOn DEF BasicInv
    <2>. QED BY <2>1, <2>3
  <1>. QED BY <1>1, <1>2 DEF JobsOK

LEMMA TwoJobs ==
  ASSUME BasicInv, StateOK', Grows, listed' = listed, empty' = empty, NEW s \in Slots, NEW t \in Slots,
         NEW x \in JobType, NEW z \in JobType, JobOK(x), JobOK(z),
         jobs' = [jobs EXCEPT ![s] = x, ![t] = z]
  PROVE  JobsOK'
PROOF
  <1>1. jobs' \in [Slots -> JobType]
    BY DEF BasicInv, JobsOK
  <1>2. ASSUME NEW r \in Slots PROVE JobOK(jobs[r])'
    <2>1. PICK y \in JobType : y = jobs'[r]
      BY <1>1
    <2>2. JobOK(y)
      BY <2>1 DEF BasicInv, JobsOK
    <2>3. JobOK(y)'
      BY <2>2, JobsOn DEF BasicInv
    <2>. QED BY <2>1, <2>3
  <1>. QED BY <1>1, <1>2 DEF JobsOK

LEMMA Bounds ==
  ASSUME StateOK
  PROVE  /\ now \in Nat /\ Overlap \in Nat /\ MaxAttempts \in Nat \ {0} /\ Lent \in Nat
         /\ Back(now) \in Nat /\ MaxRequeues \in Nat /\ PageSize \in Nat \ {0}
         /\ watermark \in Nat /\ Back(watermark) \in Nat /\ Back(watermark) <= Back(now)
         /\ Nothing \in Versions /\ \A i \in Items : Nothing[i] = 0 /\ newest[i] \in Nat
  BY IngestionAssumption DEF StateOK, Lent, Back, Nothing, Versions, Times

LEMMA SinceIs ==
  ASSUME StateOK, NEW full \in BOOLEAN
  PROVE  Since(full) = IF full THEN 0 ELSE Back(watermark)
  BY Bounds DEF Since, Back

LEMMA NoJobOK ==
  ASSUME StateOK
  PROVE  /\ NoJob \in JobType /\ JobOK(NoJob)
         /\ NoJob.type = "none" /\ NoJob.pc = "none" /\ NoJob.docs = Nothing
         /\ NoJob.live = Items /\ NoJob.page = 1 /\ ~NoJob.more /\ NoJob.since = 0
         /\ NoJob.tries = 0 /\ NoJob.started = 0 /\ ~NoJob.repos /\ NoJob.limited = 0
         /\ NoJob.pinned = Nothing
PROOF
  <1> DEFINE no == Nothing
  <1>1. no \in Versions /\ no = Nothing /\ \A i \in Items : no[i] = 0
    BY Bounds
  <1>2. NoJob = [type |-> "none", pc |-> "none", tries |-> 0, limited |-> 0, full |-> FALSE,
                 since |-> 0, page |-> 1, pinned |-> no, docs |-> no, live |-> Items,
                 more |-> FALSE, started |-> 0, repos |-> FALSE]
    BY DEF NoJob
  <1>. HIDE DEF no
  <1>3. /\ NoJob.type = "none" /\ NoJob.pc = "none" /\ NoJob.docs = no /\ NoJob.tries = 0
        /\ NoJob.live = Items /\ NoJob.page = 1 /\ ~NoJob.more /\ NoJob.since = 0
        /\ NoJob.started = 0 /\ NoJob.pinned = no /\ ~NoJob.repos /\ NoJob.limited = 0
    BY <1>2
  <1>4. NoJob \in JobType
    BY <1>1, <1>2, Bounds DEF JobType
  <1>5. JobOK(NoJob)
    BY <1>1, <1>3, Bounds DEF JobOK, StateOK
  <1>. QED BY <1>1, <1>3, <1>4, <1>5

(* What is kept of a job in the queue.                                     *)
LEMMA RequeuedFields ==
  ASSUME StateOK, NEW job \in JobType, NEW x, x = Requeued(job)
  PROVE  /\ x \in JobType /\ x.type = job.type /\ x.pc = "queued" /\ x.tries = job.tries
         /\ x.full = job.full /\ x.limited = job.limited /\ x.page = job.page
         /\ x.since = IF job.type = "fetch" THEN job.since ELSE 0
         /\ x.pinned = IF job.page = 1 THEN Nothing ELSE job.pinned
         /\ x.docs = Nothing /\ x.live = Items /\ x.started = 0 /\ ~x.more /\ ~x.repos
PROOF
  <1> DEFINE since == IF job.type = "fetch" THEN job.since ELSE 0
             pinned == IF job.page = 1 THEN Nothing ELSE job.pinned
  <1>1. since \in Nat /\ pinned \in Versions
    BY Bounds DEF JobType
  <1>2. x = [NoJob EXCEPT !.type = job.type, !.pc = "queued", !.tries = job.tries,
                          !.full = job.full, !.limited = job.limited, !.page = job.page,
                          !.since = since, !.pinned = pinned]
    BY DEF Requeued
  <1>. HIDE DEF since, pinned
  <1>3. NoJob \in JobType
    BY NoJobOK
  <1>4. /\ job.type \in {"none", "discover", "fetch"} /\ job.tries \in Nat
        /\ job.full \in BOOLEAN /\ job.limited \in 0..MaxRequeues /\ job.page \in Nat \ {0}
    BY DEF JobType
  <1>5. x \in JobType
    BY <1>1, <1>2, <1>3, <1>4 DEF JobType
  <1>6. /\ x.type = job.type /\ x.pc = "queued" /\ x.tries = job.tries
        /\ x.full = job.full /\ x.limited = job.limited /\ x.page = job.page
        /\ x.since = since /\ x.pinned = pinned
        /\ x.docs = NoJob.docs /\ x.live = NoJob.live /\ x.started = NoJob.started
        /\ x.more = NoJob.more /\ x.repos = NoJob.repos
    BY <1>2, <1>3 DEF JobType
  <1>. QED BY <1>5, <1>6, NoJobOK DEF since, pinned

LEMMA RequeuedIs ==
  ASSUME StateOK, NEW job \in JobType, JobOK(job), job.type # "none", NEW x, x = Requeued(job),
         job.tries < MaxAttempts + Lent
  PROVE  JobOK(x)
PROOF
  <1>1. /\ x \in JobType /\ x.type = job.type /\ x.pc = "queued" /\ x.tries = job.tries
        /\ x.since = (IF job.type = "fetch" THEN job.since ELSE 0)
        /\ x.pinned = (IF job.page = 1 THEN Nothing ELSE job.pinned)
        /\ x.docs = Nothing /\ x.live = Items /\ x.started = 0 /\ ~x.more /\ ~x.repos
    BY RequeuedFields
  <1>2. /\ x.since <= Back(now) /\ (kind \notin Dated /\ x.type = "fetch" => x.since = 0)
        /\ \A i \in Items : x.pinned[i] <= newest[i]
    BY <1>1, Bounds DEF JobOK, JobType, StateOK
  <1>. QED BY <1>1, <1>2, Bounds DEF JobOK, StateOK

-----------------------------------------------------------------------------
(* Each step, by what it makes of the jobs.                                *)
Becomes(s, x) == x \in JobType /\ JobOK(x) /\ jobs' = [jobs EXCEPT ![s] = x]
Become(s, x, t, z) ==
  /\ x \in JobType /\ JobOK(x) /\ z \in JobType /\ JobOK(z)
  /\ t \in Slots /\ t # s /\ Free(t)
  /\ jobs' = [jobs EXCEPT ![s] = x, ![t] = z]

(* The job is in the queue again.                                          *)
Again(x, y) ==
  /\ x.type = y.type /\ x.pc \in {"queued", "dead"} /\ x.full = y.full /\ x.page = y.page
  /\ y.type = "fetch" => x.since = y.since
  /\ x.pinned = y.pinned \/ y.page = 1
  /\ x.docs \in {Nothing, y.docs} /\ x.live \in {Items, y.live} /\ x.more \in {FALSE, y.more}

LEMMA JobAt ==
  ASSUME BasicInv, NEW s \in Slots
  PROVE  jobs[s] \in JobType /\ JobOK(jobs[s])
  BY DEF BasicInv, JobsOK

LEMMA DiscoverIs ==
  ASSUME BasicInv, NEW s \in Slots, Discover(s)
  PROVE  Free(s) /\ \E x : Becomes(s, x) /\ x.type = "discover" /\ x.pc = "queued"
PROOF
  <1>1. PICK full \in BOOLEAN :
          jobs' = [jobs EXCEPT ![s] = [NoJob EXCEPT !.type = "discover", !.pc = "queued",
                                                    !.full = full]]
    BY DEF Discover, Set
  <1> DEFINE x == [NoJob EXCEPT !.type = "discover", !.pc = "queued", !.full = full]
  <1>2. NoJob \in JobType
    BY NoJobOK DEF BasicInv
  <1>3. /\ x \in JobType /\ x.type = "discover" /\ x.pc = "queued" /\ x.tries = NoJob.tries
        /\ x.since = NoJob.since /\ x.started = NoJob.started /\ x.live = NoJob.live
        /\ x.docs = NoJob.docs /\ x.pinned = NoJob.pinned
    BY <1>2 DEF JobType
  <1>. HIDE DEF x
  <1>4. JobOK(x)
    BY <1>3, NoJobOK, Bounds DEF JobOK, BasicInv, StateOK
  <1>. QED BY <1>1, <1>3, <1>4 DEF Becomes, Discover, x

LEMMA BeginIs ==
  ASSUME BasicInv, NEW s \in Slots, Begin(s), ~empty
  PROVE  /\ jobs[s].type = "discover" /\ jobs[s].pc = "queued"
         /\ \E x : /\ Becomes(s, x) /\ x.type = "discover" /\ x.pc = "queueing"
                   /\ x.full = jobs[s].full /\ x.started = now /\ x.repos = listed
                   /\ x.since = IF jobs[s].full THEN 0 ELSE Back(watermark)
PROOF
  <1> DEFINE y == jobs[s]
             since == Since(y.full)
             x == [Claimed(s) EXCEPT !.pc = "queueing", !.started = now, !.repos = listed,
                                     !.since = since]
  <1>1. jobs' = [jobs EXCEPT ![s] = x] /\ y.type = "discover" /\ y.pc = "queued"
    BY DEF Begin, Set, At
  <1>2. y \in JobType /\ JobOK(y) /\ y.full \in BOOLEAN
    BY JobAt DEF JobType
  <1>3. since = (IF y.full THEN 0 ELSE Back(watermark)) /\ since \in Nat /\ since <= Back(now)
    BY <1>2, SinceIs, Bounds DEF BasicInv
  <1>. HIDE DEF since
  <1>4. /\ x \in JobType /\ x.type = y.type /\ x.pc = "queueing" /\ x.tries = y.tries + 1
        /\ x.full = y.full /\ x.started = now /\ x.repos = listed /\ x.since = since
        /\ x.live = y.live /\ x.docs = y.docs /\ x.pinned = y.pinned
    <2> DEFINE c == Claimed(s)
    <2>1. /\ c \in JobType /\ c.tries = y.tries + 1 /\ c.type = y.type /\ c.full = y.full
          /\ c.live = y.live /\ c.docs = y.docs /\ c.pinned = y.pinned
      BY <1>2 DEF Claimed, JobType
    <2>2. x = [c EXCEPT !.pc = "queueing", !.started = now, !.repos = listed, !.since = since]
      OBVIOUS
    <2>3. now \in Nat /\ listed \in BOOLEAN
      BY Bounds DEF BasicInv, StateOK
    <2>. HIDE DEF c, x, y
    <2>. QED BY <1>3, <2>1, <2>2, <2>3 DEF JobType
  <1>. HIDE DEF x, y
  <1>5. y.tries < MaxAttempts + Lent /\ y.tries \in Nat
    BY <1>1, <1>2 DEF JobOK, JobType
  <1>6. JobOK(x)
    BY <1>1, <1>2, <1>3, <1>4, <1>5, Bounds DEF JobOK, BasicInv
  <1>. QED BY <1>1, <1>3, <1>4, <1>6 DEF Becomes, y

(* Nothing to list.                                                        *)
LEMMA BeginsNothing ==
  ASSUME BasicInv, NEW s \in Slots, Begin(s), empty
  PROVE  /\ jobs[s].type = "discover" /\ jobs[s].pc = "queued"
         /\ \E x : Becomes(s, x) /\ x.type = "discover" /\ x.pc = "done"
PROOF
  <1>1. PICK y \in JobType : y = jobs[s] /\ JobOK(y) /\ y.type = "discover" /\ y.pc = "queued"
    BY JobAt DEF Begin, At
  <1> DEFINE x == [Claimed(s) EXCEPT !.pc = "done"]
  <1>2. jobs' = [jobs EXCEPT ![s] = x]
    BY DEF Begin, Set
  <1>3. x = [y EXCEPT !.tries = y.tries + 1, !.pc = "done"]
    BY <1>1 DEF Claimed, JobType
  <1>4. /\ x \in JobType /\ x.type = y.type /\ x.pc = "done" /\ x.tries = y.tries + 1
        /\ x.full = y.full /\ x.started = y.started /\ x.since = y.since
        /\ x.live = y.live /\ x.docs = y.docs /\ x.pinned = y.pinned
    <2>1. y.tries \in Nat /\ y.tries + 1 \in Nat
      BY DEF JobType
    <2>. HIDE DEF x
    <2>2. /\ x.type = y.type /\ x.pc = "done" /\ x.tries = y.tries + 1 /\ x.full = y.full
          /\ x.started = y.started /\ x.since = y.since /\ x.live = y.live /\ x.docs = y.docs
          /\ x.pinned = y.pinned
      BY <1>3 DEF JobType
    <2>3. x \in JobType
      BY <1>3, <2>1 DEF JobType
    <2>. QED BY <2>2, <2>3
  <1>. HIDE DEF x
  <1>5. y.tries < MaxAttempts + Lent /\ y.tries \in Nat
    BY <1>1 DEF JobOK, JobType
  <1>6. JobOK(x)
    BY <1>1, <1>4, <1>5, Bounds DEF JobOK, BasicInv
  <1>. QED BY <1>1, <1>2, <1>4, <1>6 DEF Becomes

LEMMA QueueJobsIs ==
  ASSUME BasicInv, NEW s \in Slots, QueueJobs(s)
  PROVE  /\ jobs[s].type = "discover" /\ jobs[s].pc = "queueing" /\ jobs[s].repos = listed
         /\ \E x : /\ x.type = "discover" /\ x.pc = "saving" /\ x.started = jobs[s].started
                   /\ \/ ~listed /\ Becomes(s, x)
                      \/ \E t, z : /\ listed /\ Become(s, x, t, z)
                                   /\ z.type = "fetch" /\ z.pc = "queued" /\ z.page = 1 /\ ~z.more
                                   /\ z.since = IF kind \in Dated THEN jobs[s].since ELSE 0
                                   /\ z.live = Items /\ z.docs = Nothing
PROOF
  <1> DEFINE y == jobs[s]
             x == [y EXCEPT !.pc = "saving"]
             since == IF kind \in Dated THEN y.since ELSE 0
             z == [NoJob EXCEPT !.type = "fetch", !.pc = "queued", !.since = since]
  <1>1. y \in JobType /\ JobOK(y) /\ y.type = "discover" /\ y.pc = "queueing" /\ NoJob \in JobType
    BY JobAt, NoJobOK DEF QueueJobs, At, BasicInv
  <1>2. y.repos = listed
    BY <1>1 DEF JobOK
  <1>3. /\ x \in JobType /\ x.type = y.type /\ x.pc = "saving" /\ x.tries = y.tries
        /\ x.full = y.full /\ x.started = y.started /\ x.repos = y.repos /\ x.since = y.since
        /\ x.live = y.live /\ x.docs = y.docs /\ x.pinned = y.pinned
    BY <1>1 DEF JobType
  <1>4. JobOK(x)
    <2>. HIDE DEF x, y
    <2>. QED BY <1>1, <1>2, <1>3 DEF JobOK
  <1>5. since \in Nat /\ since <= Back(now) /\ (kind \notin Dated => since = 0)
    BY <1>1, Bounds DEF JobOK, JobType, BasicInv
  <1>. HIDE DEF since
  <1>6. /\ z \in JobType /\ z.type = "fetch" /\ z.pc = "queued" /\ z.tries = NoJob.tries
        /\ z.page = NoJob.page /\ z.more = NoJob.more /\ z.since = since
        /\ z.started = NoJob.started /\ z.live = NoJob.live
        /\ z.docs = NoJob.docs /\ z.pinned = NoJob.pinned
    BY <1>1, <1>5 DEF JobType
  <1>. HIDE DEF z
  <1>7. JobOK(z)
    BY <1>5, <1>6, NoJobOK, Bounds DEF JobOK, BasicInv, StateOK
  <1>8. CASE listed
    <2>1. PICK t \in Slots : Free(t) /\ jobs' = [jobs EXCEPT ![s].pc = "saving", ![t] = z]
      BY <1>2, <1>8 DEF QueueJobs, Enqueue, z, since
    <2>2. t # s
      BY <1>1, <2>1, NoJobOK DEF Free, BasicInv
    <2>3. jobs' = [jobs EXCEPT ![s] = x, ![t] = z]
      BY <2>1, <2>2, <1>1 DEF BasicInv, JobsOK
    <2>4. Become(s, x, t, z)
      <3>. HIDE DEF x
      <3>. QED BY <1>3, <1>4, <1>6, <1>7, <2>1, <2>2, <2>3 DEF Become
    <2>. HIDE DEF x
    <2>. QED BY <1>1, <1>2, <1>3, <1>6, <1>8, <2>4, NoJobOK DEF since, BasicInv
  <1>9. CASE ~listed
    <2>1. jobs' = [jobs EXCEPT ![s] = x]
      BY <1>2, <1>9 DEF QueueJobs, Goto, Set
    <2>. HIDE DEF x
    <2>. QED BY <1>1, <1>2, <1>3, <1>4, <1>9, <2>1 DEF Becomes
  <1>. QED BY <1>8, <1>9

LEMMA SaveWatermarkIs ==
  ASSUME BasicInv, NEW s \in Slots, SaveWatermark(s)
  PROVE  /\ jobs[s].type = "discover" /\ jobs[s].pc = "saving"
         /\ watermark' = jobs[s].started /\ watermark' \in 0..now
         /\ \E x : Becomes(s, x) /\ x.type = "discover" /\ x.pc = "purging"
PROOF
  <1> DEFINE y == jobs[s]
             x == [y EXCEPT !.pc = "purging", !.started = 0, !.since = 0]
  <1>1. /\ y \in JobType /\ JobOK(y) /\ y.type = "discover" /\ y.pc = "saving"
        /\ jobs' = [jobs EXCEPT ![s] = x] /\ watermark' = y.started
    BY JobAt DEF SaveWatermark, At, Set
  <1>2. /\ x \in JobType /\ x.type = y.type /\ x.pc = "purging" /\ x.tries = y.tries
        /\ x.full = y.full /\ x.started = 0 /\ x.repos = y.repos /\ x.since = 0
        /\ x.live = y.live /\ x.docs = y.docs /\ x.pinned = y.pinned
    BY <1>1 DEF JobType
  <1>3. y.started \in 0..now
    BY <1>1, Bounds DEF JobOK, JobType, BasicInv
  <1>. HIDE DEF x, y
  <1>4. JobOK(x)
    BY <1>1, <1>2, Bounds DEF JobOK, BasicInv
  <1>. QED BY <1>1, <1>2, <1>3, <1>4 DEF Becomes, y

LEMMA PurgeIs ==
  ASSUME BasicInv, NEW s \in Slots, Purge(s)
  PROVE  /\ jobs[s].type = "discover" /\ jobs[s].pc = "purging" /\ ~empty
         /\ indexed' = IF listed THEN indexed ELSE Nothing
         /\ \E x : Becomes(s, x) /\ x.type = "discover" /\ x.pc = "done"
PROOF
  <1> DEFINE y == jobs[s]
             x == [y EXCEPT !.pc = "done"]
  <1>1. /\ y \in JobType /\ JobOK(y) /\ y.type = "discover" /\ y.pc = "purging"
        /\ jobs' = [jobs EXCEPT ![s] = x] /\ indexed' = IF y.repos THEN indexed ELSE Nothing
    BY JobAt DEF Purge, At, Goto, Set
  <1>2. /\ x \in JobType /\ x.type = y.type /\ x.pc = "done" /\ x.tries = y.tries
        /\ x.full = y.full /\ x.started = y.started /\ x.repos = y.repos /\ x.since = y.since
        /\ x.live = y.live /\ x.docs = y.docs /\ x.pinned = y.pinned
    BY <1>1 DEF JobType
  <1>. HIDE DEF x, y
  <1>3. y.repos = listed /\ ~empty
    BY <1>1 DEF JobOK
  <1>4. JobOK(x)
    BY <1>1, <1>2, <1>3 DEF JobOK
  <1>. QED BY <1>1, <1>2, <1>3, <1>4 DEF Becomes, y

LEMMA ReadIs ==
  ASSUME NEW v \in Versions, NEW S
  PROVE  /\ Read(S, v) \in Versions
         /\ \A i \in Items : Read(S, v)[i] = IF i \in S THEN v[i] ELSE 0
         /\ Read(Items, v) = v
         /\ \A i \in Items : Read(S, v)[i] <= v[i]
PROOF
  <1>1. /\ Read(S, v) \in Versions /\ 0 \in Times
        /\ \A i \in Items : Read(S, v)[i] = IF i \in S THEN v[i] ELSE 0
    BY IngestionAssumption DEF Read, Versions, Times
  <1>2. Read(Items, v) = v
    BY DEF Read, Versions
  <1>3. \A i \in Items : v[i] \in Nat
    BY DEF Versions, Times
  <1>. QED BY <1>1, <1>2, <1>3

LEMMA ClaimedIs ==
  ASSUME BasicInv, NEW s \in Slots, jobs[s].pc = "queued", NEW c, c = Claimed(s)
  PROVE  /\ c \in JobType /\ c.tries = jobs[s].tries + 1 /\ c.tries <= MaxAttempts + Lent
         /\ c.type = jobs[s].type /\ c.pc = "queued" /\ c.full = jobs[s].full
         /\ c.limited = jobs[s].limited
         /\ c.since = jobs[s].since /\ c.page = jobs[s].page /\ c.pinned = jobs[s].pinned
         /\ c.docs = jobs[s].docs /\ c.live = jobs[s].live /\ c.more = jobs[s].more
         /\ c.started = jobs[s].started /\ c.repos = jobs[s].repos
PROOF
  <1>1. PICK y \in JobType : y = jobs[s] /\ JobOK(y) /\ y.pc = "queued"
    BY JobAt
  <1>2. c = [y EXCEPT !.tries = y.tries + 1]
    BY <1>1 DEF Claimed
  <1>3. y.tries + 1 <= MaxAttempts + Lent
    BY <1>1, Bounds DEF JobOK, JobType, BasicInv
  <1>. QED BY <1>1, <1>2, <1>3 DEF JobType

(* A page as it is read.                                                   *)
PageOf(x, job) ==
  /\ x.type = "fetch" /\ x.pc = "indexing" /\ x.page = job.page /\ x.since = job.since
  /\ kind = "issue" =>
       LET page == Page({i \in Existing(updated) : updated[i] >= job.since}, job.page) IN
       x.docs = Read(page, updated) /\ x.more = (Cardinality(page) = PageSize)
  /\ kind = "pr" =>
       LET page == Page(Existing(updated), job.page)
           fresh == {i \in page : updated[i] >= job.since}
       IN x.docs = Read(fresh, updated) /\ x.more = (Cardinality(page) = PageSize /\ fresh = page)
  /\ kind = "file" =>
       LET tree == IF job.page = 1 THEN updated ELSE job.pinned IN
       /\ x.pinned = tree
       /\ settled' =>
            /\ x.live = IF job.page = 1 THEN Existing(tree) ELSE Items
            /\ x.docs = Read({i \in Page(Existing(tree), job.page) : indexed[i] # tree[i]}, tree)
            /\ x.more = (job.page * PageSize < Cardinality(Existing(tree)))
  /\ kind = "readme" =>
       /\ x.docs = updated /\ x.live = (IF Existing(updated) = {} THEN {} ELSE Items)
       /\ x.more = job.more

LEMMA FetchIs ==
  ASSUME BasicInv, NEW s \in Slots, Fetch(s)
  PROVE  /\ jobs[s].type = "fetch" /\ jobs[s].pc = "queued"
         /\ settled' \in BOOLEAN /\ (settled' => settled) /\ events' \in Nat /\ events <= events'
         /\ runs' = runs
         /\ \E x : Becomes(s, x) /\ PageOf(x, jobs[s])
PROOF
  <1>1. PICK part \in SUBSET Items :
          /\ IF part # Items THEN kind = "file" /\ Event ELSE UNCHANGED count
          /\ Set(s, [(CASE kind = "issue" -> FetchIssues(Claimed(s))
                        [] kind = "pr" -> FetchPulls(Claimed(s))
                        [] kind = "file" -> FetchFiles(Claimed(s), part)
                        [] OTHER -> FetchReadme(Claimed(s))) EXCEPT !.pc = "indexing"])
          /\ settled' = (settled /\ part = Items)
    BY DEF Fetch
  <1>2. PICK y \in JobType : y = jobs[s] /\ JobOK(y) /\ y.pc = "queued" /\ y.type = "fetch"
    BY JobAt DEF Fetch, At
  <1>3. PICK c : c = Claimed(s)
    OBVIOUS
  <1>4. /\ c \in JobType /\ c.tries <= MaxAttempts + Lent
        /\ c.type = y.type /\ c.pc = "queued" /\ c.full = y.full
        /\ c.since = y.since /\ c.page = y.page /\ c.pinned = y.pinned
        /\ c.docs = y.docs /\ c.live = y.live /\ c.more = y.more /\ c.started = y.started
    BY <1>2, <1>3, ClaimedIs
  <1>5. settled' \in BOOLEAN /\ (settled' => settled) /\ events' \in Nat /\ events <= events'
        /\ runs' = runs
    BY <1>1 DEF BasicInv, StateOK, Event, count
  <1>6. updated \in Versions /\ \A i \in Items : updated[i] <= newest[i] /\ newest[i] \in Nat
                                               /\ updated[i] \in Nat
    BY Bounds DEF BasicInv, StateOK, VersionsOK, Versions, Times
  <1>7. stayed \subseteq Existing(updated)
    BY DEF BasicInv, Belonging
  <1>8. ASSUME NEW x \in JobType,
               x.type = c.type, x.pc = "indexing", x.tries = c.tries, x.full = c.full,
               x.started = c.started, x.since = c.since,
               kind \in Dated => x.live = Items, stayed \subseteq x.live,
               \A i \in Items : x.docs[i] <= newest[i], \A i \in Items : x.pinned[i] <= newest[i],
               kind = "readme" => \A i \in Items : i # 1 => x.docs[i] = 0
        PROVE  JobOK(x)
    BY <1>2, <1>4, <1>8 DEF JobOK
  <1>9. /\ c.docs \in Versions /\ c.live \in SUBSET Items /\ c.pinned \in Versions /\ c.more \in BOOLEAN
        /\ \A i \in Items : c.pinned[i] <= newest[i]
        /\ stayed \subseteq c.live /\ (kind \in Dated => c.live = Items)
    BY <1>2, <1>4 DEF JobType, JobOK
  <1>10. CASE kind = "issue"
    <2> DEFINE page == Page({i \in Existing(updated) : updated[i] >= c.since}, c.page)
               docs == Read(page, updated)
               more == Cardinality(page) = PageSize
               x == [c EXCEPT !.pc = "indexing", !.docs = docs, !.live = c.live,
                              !.pinned = c.pinned, !.more = more]
    <2>1. jobs' = [jobs EXCEPT ![s] = x]
      <3>1. jobs' = [jobs EXCEPT ![s] = [FetchIssues(c) EXCEPT !.pc = "indexing"]]
        BY <1>1, <1>3, <1>10 DEF Set
      <3>2. FetchIssues(c) = [c EXCEPT !.docs = docs, !.more = more]
        BY DEF FetchIssues
      <3>. HIDE DEF docs, more
      <3>3. [FetchIssues(c) EXCEPT !.pc = "indexing"] = x
        BY <1>4, <3>2 DEF JobType
      <3>. QED BY <3>1, <3>3
    <2>2. docs \in Versions /\ \A i \in Items : docs[i] <= newest[i]
      BY <1>6, ReadIs DEF Versions, Times
    <2>3. more \in BOOLEAN
      OBVIOUS
    <2>4. docs = Read(page, updated) /\ more = (Cardinality(page) = PageSize)
      OBVIOUS
    <2>. HIDE DEF docs, more
    <2>5. x \in JobType
      BY <1>4, <1>9, <2>2, <2>3 DEF JobType
    <2>6. /\ Becomes(s, x) /\ x.type = "fetch" /\ x.pc = "indexing" /\ x.page = y.page
          /\ x.since = y.since /\ x.docs = docs /\ x.more = more
      <3>2. /\ x.type = c.type /\ x.pc = "indexing" /\ x.tries = c.tries /\ x.full = c.full
            /\ x.started = c.started /\ x.since = c.since /\ x.page = c.page
            /\ x.docs = docs /\ x.live = c.live /\ x.pinned = c.pinned /\ x.more = more
        BY <1>4 DEF JobType
      <3>. HIDE DEF x
      <3>3. JobOK(x)
        BY <1>6, <1>8, <1>9, <1>10, <2>2, <2>3, <2>5, <3>2
      <3>. QED BY <1>2, <1>4, <2>1, <2>2, <2>3, <2>5, <3>2, <3>3 DEF Becomes
    <2>7. PageOf(x, y)
      <3>. HIDE DEF x
      <3>. QED BY <1>4, <1>10, <2>4, <2>6 DEF PageOf
    <2>. HIDE DEF x
    <2>. QED BY <1>2, <1>5, <2>6, <2>7
  <1>11. CASE kind = "pr"
    <2> DEFINE page == Page(Existing(updated), c.page)
               fresh == {i \in page : updated[i] >= c.since}
               docs == Read(fresh, updated)
               more == Cardinality(page) = PageSize /\ fresh = page
               x == [c EXCEPT !.pc = "indexing", !.docs = docs, !.live = c.live,
                              !.pinned = c.pinned, !.more = more]
    <2>1. jobs' = [jobs EXCEPT ![s] = x]
      <3>1. jobs' = [jobs EXCEPT ![s] = [FetchPulls(c) EXCEPT !.pc = "indexing"]]
        BY <1>1, <1>3, <1>11 DEF Set
      <3>2. FetchPulls(c) = [c EXCEPT !.docs = docs, !.more = more]
        BY DEF FetchPulls
      <3>. HIDE DEF docs, more
      <3>3. [FetchPulls(c) EXCEPT !.pc = "indexing"] = x
        BY <1>4, <3>2 DEF JobType
      <3>. QED BY <3>1, <3>3
    <2>2. docs \in Versions /\ \A i \in Items : docs[i] <= newest[i]
      BY <1>6, ReadIs DEF Versions, Times
    <2>3. more \in BOOLEAN
      OBVIOUS
    <2>4. docs = Read(fresh, updated) /\ more = (Cardinality(page) = PageSize /\ fresh = page)
      OBVIOUS
    <2>. HIDE DEF docs, more
    <2>5. x \in JobType
      BY <1>4, <1>9, <2>2, <2>3 DEF JobType
    <2>6. /\ Becomes(s, x) /\ x.type = "fetch" /\ x.pc = "indexing" /\ x.page = y.page
          /\ x.since = y.since /\ x.docs = docs /\ x.more = more
      <3>2. /\ x.type = c.type /\ x.pc = "indexing" /\ x.tries = c.tries /\ x.full = c.full
            /\ x.started = c.started /\ x.since = c.since /\ x.page = c.page
            /\ x.docs = docs /\ x.live = c.live /\ x.pinned = c.pinned /\ x.more = more
        BY <1>4 DEF JobType
      <3>. HIDE DEF x
      <3>3. JobOK(x)
        BY <1>6, <1>8, <1>9, <1>11, <2>2, <2>3, <2>5, <3>2
      <3>. QED BY <1>2, <1>4, <2>1, <2>2, <2>3, <2>5, <3>2, <3>3 DEF Becomes
    <2>7. PageOf(x, y)
      <3>. HIDE DEF x
      <3>. QED BY <1>4, <1>11, <2>4, <2>6 DEF PageOf
    <2>. HIDE DEF x
    <2>. QED BY <1>2, <1>5, <2>6, <2>7
  <1>12. CASE kind = "file"
    <2> DEFINE tree == IF c.page = 1 THEN updated ELSE c.pinned
               listing == Read(part, tree)
               fresh == {i \in Page(Existing(listing), c.page) : indexed[i] # tree[i]}
               docs == Read(fresh, tree)
               live == Live(c, listing, part = Items)
               more == c.page * PageSize < Cardinality(Existing(listing))
               x == [c EXCEPT !.pc = "indexing", !.docs = docs, !.live = live,
                              !.pinned = tree, !.more = more]
    <2>1. jobs' = [jobs EXCEPT ![s] = x]
      <3>1. jobs' = [jobs EXCEPT ![s] = [FetchFiles(c, part) EXCEPT !.pc = "indexing"]]
        BY <1>1, <1>3, <1>12 DEF Set
      <3>2. FetchFiles(c, part) =
              [c EXCEPT !.pinned = tree, !.live = live, !.docs = docs, !.more = more]
        BY DEF FetchFiles
      <3>. HIDE DEF docs, more, live, tree
      <3>3. [FetchFiles(c, part) EXCEPT !.pc = "indexing"] = x
        BY <1>4, <3>2 DEF JobType
      <3>. QED BY <3>1, <3>3
    <2>2. tree \in Versions /\ \A i \in Items : tree[i] <= newest[i] /\ tree[i] \in Nat
      BY <1>6, <1>9 DEF Versions, Times
    <2>3. tree = IF y.page = 1 THEN updated ELSE y.pinned
      BY <1>4
    <2>. HIDE DEF tree
    <2>4. /\ listing \in Versions /\ (part = Items => listing = tree)
          /\ docs \in Versions /\ \A i \in Items : docs[i] <= newest[i]
      <3>1. docs \in Versions /\ \A i \in Items : docs[i] <= tree[i] /\ docs[i] \in Nat
        BY <2>2, ReadIs DEF Versions, Times
      <3>. HIDE DEF docs
      <3>. QED BY <1>6, <2>2, <3>1, ReadIs
    <2>5. /\ live \in SUBSET Items /\ stayed \subseteq live
          /\ part = Items => live = IF y.page = 1 THEN Existing(tree) ELSE Items
      <3>1. CASE c.page = 1 /\ part = Items
        BY <1>4, <1>7, <2>3, <2>4, <3>1 DEF Live, Existing
      <3>2. CASE c.page # 1 \/ part # Items
        BY <1>4, <3>2 DEF Live, BasicInv, StateOK
      <3>. QED BY <3>1, <3>2
    <2>6. more \in BOOLEAN /\ (part = Items => more = (y.page * PageSize < Cardinality(Existing(tree))))
      BY <1>4, <2>4
    <2>7. part = Items =>
            docs = Read({i \in Page(Existing(tree), y.page) : indexed[i] # tree[i]}, tree)
      BY <1>4, <2>4
    <2>. HIDE DEF docs, more, live
    <2>8. x \in JobType
      BY <1>4, <2>2, <2>4, <2>5, <2>6 DEF JobType
    <2>9. /\ Becomes(s, x) /\ x.type = "fetch" /\ x.pc = "indexing" /\ x.page = y.page
          /\ x.since = y.since /\ x.docs = docs /\ x.live = live /\ x.pinned = tree /\ x.more = more
      <3>1. kind \notin Dated
        BY <1>12 DEF Dated
      <3>2. /\ x.type = c.type /\ x.pc = "indexing" /\ x.tries = c.tries /\ x.full = c.full
            /\ x.started = c.started /\ x.since = c.since /\ x.page = c.page
            /\ x.docs = docs /\ x.live = live /\ x.pinned = tree /\ x.more = more
        BY <1>4 DEF JobType
      <3>. HIDE DEF x
      <3>3. JobOK(x)
        BY <1>6, <1>8, <1>9, <1>12, <2>2, <2>4, <2>5, <2>6, <2>8, <3>2, <3>1
      <3>. QED BY <1>2, <1>4, <2>1, <2>2, <2>4, <2>5, <2>6, <2>8, <3>2, <3>3 DEF Becomes
    <2>10. settled' => part = Items
      BY <1>1
    <2>11. PageOf(x, y)
      <3>. HIDE DEF x
      <3>. QED BY <1>12, <2>3, <2>5, <2>6, <2>7, <2>9, <2>10 DEF PageOf
    <2>. HIDE DEF x
    <2>. QED BY <1>2, <1>5, <2>9, <2>11
  <1>13. CASE kind = "readme"
    <2> DEFINE live == IF Existing(updated) = {} THEN {} ELSE Items
               x == [c EXCEPT !.pc = "indexing", !.docs = updated, !.live = live,
                              !.pinned = c.pinned, !.more = c.more]
    <2>1. jobs' = [jobs EXCEPT ![s] = x]
      <3>1. jobs' = [jobs EXCEPT ![s] = [FetchReadme(c) EXCEPT !.pc = "indexing"]]
        BY <1>1, <1>3, <1>13 DEF Set
      <3>2. FetchReadme(c) = [c EXCEPT !.docs = updated, !.live = live]
        BY DEF FetchReadme
      <3>. HIDE DEF live
      <3>3. [FetchReadme(c) EXCEPT !.pc = "indexing"] = x
        BY <1>4, <3>2 DEF JobType
      <3>. QED BY <3>1, <3>3
    <2>2. live \in SUBSET Items /\ stayed \subseteq live
      BY <1>7 DEF BasicInv, StateOK
    <2>3. \A i \in Items : i # 1 => updated[i] = 0
      BY <1>13 DEF BasicInv, VersionsOK
    <2>4. live = IF Existing(updated) = {} THEN {} ELSE Items
      OBVIOUS
    <2>. HIDE DEF live
    <2>5. x \in JobType
      BY <1>4, <1>6, <1>9, <2>2 DEF JobType
    <2>6. /\ Becomes(s, x) /\ x.type = "fetch" /\ x.pc = "indexing" /\ x.page = y.page
          /\ x.since = y.since /\ x.docs = updated /\ x.live = live /\ x.more = c.more
      <3>1. kind \notin Dated
        BY <1>13 DEF Dated
      <3>2. /\ x.type = c.type /\ x.pc = "indexing" /\ x.tries = c.tries /\ x.full = c.full
            /\ x.started = c.started /\ x.since = c.since /\ x.page = c.page
            /\ x.docs = updated /\ x.live = live /\ x.pinned = c.pinned /\ x.more = c.more
        BY <1>4 DEF JobType
      <3>. HIDE DEF x
      <3>3. JobOK(x)
        BY <1>6, <1>8, <1>9, <1>13, <2>2, <2>3, <2>5, <3>2, <3>1
      <3>. QED BY <1>2, <1>4, <2>1, <2>2, <2>3, <2>5, <3>2, <3>3 DEF Becomes
    <2>7. PageOf(x, y)
      <3>. HIDE DEF x
      <3>. QED BY <1>4, <1>13, <2>4, <2>6 DEF PageOf
    <2>. HIDE DEF x
    <2>. QED BY <1>2, <1>5, <2>6, <2>7
  <1>. QED BY <1>10, <1>11, <1>12, <1>13 DEF BasicInv, StateOK

(* The job stays what it is, at another place.                             *)
Moves(x, y, pc) ==
  /\ x.type = y.type /\ x.pc = pc /\ x.tries = y.tries /\ x.full = y.full /\ x.since = y.since
  /\ x.page = y.page /\ x.pinned = y.pinned /\ x.docs = y.docs /\ x.live = y.live
  /\ x.more = y.more /\ x.started = y.started /\ x.repos = y.repos

LEMMA MovesOn ==
  ASSUME BasicInv, NEW y \in JobType, JobOK(y), y.type = "fetch",
         NEW pc \in {"following", "done"}, NEW x, x = [y EXCEPT !.pc = pc]
  PROVE  x \in JobType /\ JobOK(x) /\ Moves(x, y, pc)
PROOF
  <1>1. x \in JobType /\ Moves(x, y, pc)
    BY DEF JobType, Moves
  <1>2. JobOK(x)
    <2>. HIDE DEF Moves
    <2>1. x.pc # "queued" /\ Moves(x, y, pc)
      BY <1>1 DEF Moves
    <2>. QED BY <2>1 DEF JobOK, Moves
  <1>. QED BY <1>1, <1>2

(* A document of the page is indexed, unless a newer version is.           *)
Indexes(x, y, i) ==
  /\ x.type = "fetch" /\ x.pc = "indexing"
  /\ x.since = y.since /\ x.page = y.page /\ x.pinned = y.pinned
  /\ x.live = y.live /\ x.more = y.more
  /\ y.docs[i] # 0 /\ y.docs[i] \in Times
  /\ x.docs[i] = 0 /\ \A j \in Items : j # i => x.docs[j] = y.docs[j]
  /\ indexed' = [indexed EXCEPT ![i] =
                   IF kind # "readme" /\ indexed[i] > y.docs[i] THEN indexed[i] ELSE y.docs[i]]
  /\ failed' = failed \ {<<i, y.docs[i]>>}

LEMMA IndexIs ==
  ASSUME BasicInv, NEW s \in Slots, Index(s)
  PROVE  /\ jobs[s].type = "fetch" /\ jobs[s].pc = "indexing"
         /\ \E x : \E i \in Items : Becomes(s, x) /\ Indexes(x, jobs[s], i)
PROOF
  <1>1. PICK y \in JobType : y = jobs[s] /\ JobOK(y) /\ y.pc = "indexing" /\ y.type = "fetch"
    BY JobAt DEF Index, At
  <1>2. PICK i \in Items :
          /\ y.docs[i] # 0
          /\ indexed' = [indexed EXCEPT ![i] =
                           IF kind # "readme" /\ indexed[i] > y.docs[i] THEN indexed[i]
                                                                        ELSE y.docs[i]]
          /\ failed' = failed \ {<<i, y.docs[i]>>}
          /\ jobs' = [jobs EXCEPT ![s] = [y EXCEPT !.docs[i] = 0]]
    BY <1>1 DEF Index, Existing, Set
  <1> DEFINE docs == [y.docs EXCEPT ![i] = 0]
             x == [y EXCEPT !.docs = docs]
  <1>3. y.docs \in Versions /\ y.docs[i] \in Times
    BY <1>1 DEF JobType, Versions
  <1>4. docs \in Versions /\ docs[i] = 0 /\ \A j \in Items : j # i => docs[j] = y.docs[j]
    BY <1>3, IngestionAssumption DEF Versions, Times
  <1>5. \A j \in Items : newest[j] \in Nat
    BY Bounds DEF BasicInv
  <1>6. jobs' = [jobs EXCEPT ![s] = x]
    BY <1>2
  <1>. HIDE DEF docs
  <1>7. /\ x \in JobType /\ x.type = y.type /\ x.pc = "indexing" /\ x.tries = y.tries
        /\ x.full = y.full /\ x.since = y.since /\ x.page = y.page /\ x.pinned = y.pinned
        /\ x.docs = docs /\ x.live = y.live /\ x.more = y.more /\ x.started = y.started
        /\ x.repos = y.repos
    BY <1>1, <1>4 DEF JobType
  <1>. HIDE DEF x
  <1>8. JobOK(x)
    BY <1>1, <1>4, <1>5, <1>7 DEF JobOK
  <1>9. Becomes(s, x)
    BY <1>1, <1>6, <1>7, <1>8 DEF Becomes
  <1>10. Indexes(x, y, i)
    BY <1>1, <1>2, <1>3, <1>4, <1>7 DEF Indexes
  <1>. QED BY <1>1, <1>9, <1>10

(* A document of the page is given up.                                     *)
Drops(x, y, i) ==
  /\ x.type = "fetch" /\ x.pc = "indexing"
  /\ x.since = y.since /\ x.page = y.page /\ x.pinned = y.pinned
  /\ x.live = y.live /\ x.more = y.more /\ y.docs[i] # 0
  /\ x.docs[i] = 0 /\ \A j \in Items : j # i => x.docs[j] = y.docs[j]
  /\ failed' = failed \cup {<<i, y.docs[i]>>}

LEMMA GiveUpIs ==
  ASSUME BasicInv, NEW s \in Slots, GiveUp(s)
  PROVE  /\ jobs[s].type = "fetch" /\ jobs[s].pc = "indexing" /\ indexed' = indexed
         /\ \E x : \E i \in Items : Becomes(s, x) /\ Drops(x, jobs[s], i)
PROOF
  <1>1. PICK y \in JobType : y = jobs[s] /\ JobOK(y) /\ y.pc = "indexing" /\ y.type = "fetch"
    BY JobAt DEF GiveUp, At
  <1>2. PICK i \in Items :
          /\ y.docs[i] # 0
          /\ failed' = failed \cup {<<i, y.docs[i]>>}
          /\ jobs' = [jobs EXCEPT ![s] = [y EXCEPT !.docs[i] = 0]]
    BY <1>1 DEF GiveUp, Existing, Set
  <1> DEFINE docs == [y.docs EXCEPT ![i] = 0]
             x == [y EXCEPT !.docs = docs]
  <1>3. y.docs \in Versions
    BY <1>1 DEF JobType
  <1>4. docs \in Versions /\ docs[i] = 0 /\ \A j \in Items : j # i => docs[j] = y.docs[j]
    BY <1>3, IngestionAssumption DEF Versions, Times
  <1>5. \A j \in Items : newest[j] \in Nat
    BY Bounds DEF BasicInv
  <1>6. jobs' = [jobs EXCEPT ![s] = x]
    BY <1>2
  <1>. HIDE DEF docs
  <1>7. /\ x \in JobType /\ x.type = y.type /\ x.pc = "indexing" /\ x.tries = y.tries
        /\ x.full = y.full /\ x.since = y.since /\ x.page = y.page /\ x.pinned = y.pinned
        /\ x.docs = docs /\ x.live = y.live /\ x.more = y.more /\ x.started = y.started
        /\ x.repos = y.repos
    BY <1>1, <1>4 DEF JobType
  <1>. HIDE DEF x
  <1>8. JobOK(x)
    BY <1>1, <1>4, <1>5, <1>7 DEF JobOK
  <1>9. Becomes(s, x)
    BY <1>1, <1>6, <1>7, <1>8 DEF Becomes
  <1>10. Drops(x, y, i)
    BY <1>1, <1>2, <1>4, <1>7 DEF Drops
  <1>. QED BY <1>1, <1>9, <1>10 DEF GiveUp

LEMMA ReconcileIs ==
  ASSUME BasicInv, NEW s \in Slots, Reconcile(s)
  PROVE  /\ jobs[s].type = "fetch" /\ jobs[s].pc = "indexing"
         /\ \A i \in Items : jobs[s].docs[i] = 0
         /\ indexed' = Read(jobs[s].live, indexed)
         /\ \E x : /\ Becomes(s, x) /\ x.type = "fetch" /\ x.pc = "following"
                   /\ x.since = jobs[s].since /\ x.page = jobs[s].page
                   /\ x.pinned = jobs[s].pinned /\ x.docs = jobs[s].docs
                   /\ x.live = Items /\ x.more = jobs[s].more
PROOF
  <1>1. PICK y \in JobType : y = jobs[s] /\ JobOK(y) /\ y.pc = "indexing" /\ y.type = "fetch"
    BY JobAt DEF Reconcile, At
  <1> DEFINE x == [y EXCEPT !.pc = "following", !.live = Items]
  <1>2. /\ jobs' = [jobs EXCEPT ![s] = x] /\ indexed' = Read(y.live, indexed)
        /\ \A i \in Items : y.docs[i] = 0
    BY <1>1 DEF Reconcile, Existing, Set
  <1>3. /\ x \in JobType /\ x.type = y.type /\ x.pc = "following" /\ x.tries = y.tries
        /\ x.full = y.full /\ x.since = y.since /\ x.page = y.page /\ x.pinned = y.pinned
        /\ x.docs = y.docs /\ x.live = Items /\ x.more = y.more /\ x.started = y.started
        /\ x.repos = y.repos
    BY <1>1 DEF JobType
  <1>. HIDE DEF x
  <1>4. JobOK(x)
    BY <1>1, <1>3 DEF JobOK, BasicInv, StateOK
  <1>. QED BY <1>1, <1>2, <1>3, <1>4 DEF Becomes

LEMMA FollowIs ==
  ASSUME BasicInv, NEW s \in Slots, Follow(s)
  PROVE  /\ jobs[s].type = "fetch" /\ jobs[s].pc = "following"
         /\ \E x : /\ Moves(x, jobs[s], "done")
                   /\ \/ ~jobs[s].more /\ Becomes(s, x)
                      \/ \E t, z : /\ jobs[s].more /\ Become(s, x, t, z)
                                   /\ z.type = "fetch" /\ z.pc = "queued"
                                   /\ z.page = jobs[s].page + 1 /\ z.page # 1
                                   /\ z.since = jobs[s].since /\ z.pinned = jobs[s].pinned
                                   /\ z.docs = Nothing /\ z.live = Items /\ ~z.more
PROOF
  <1>1. PICK y \in JobType : y = jobs[s] /\ JobOK(y) /\ y.pc = "following" /\ y.type = "fetch"
    BY JobAt DEF Follow, At
  <1> DEFINE x == [y EXCEPT !.pc = "done"]
             next == [y EXCEPT !.page = @ + 1, !.tries = 0, !.limited = 0]
             z == Requeued(next)
  <1>2. x \in JobType /\ JobOK(x) /\ Moves(x, y, "done")
    BY <1>1, MovesOn
  <1>3. CASE ~y.more
    <2>1. jobs' = [jobs EXCEPT ![s] = x]
      BY <1>1, <1>3 DEF Follow, Goto, Set
    <2>. HIDE DEF x
    <2>. QED BY <1>1, <1>2, <1>3, <2>1 DEF Becomes
  <1>4. CASE y.more
    <2>1. PICK t \in Slots : Free(t) /\ jobs' = [jobs EXCEPT ![s].pc = "done", ![t] = z]
      BY <1>1, <1>4 DEF Follow, Enqueue
    <2>2. t # s
      BY <1>1, <2>1, NoJobOK DEF Free, BasicInv
    <2>3. jobs' = [jobs EXCEPT ![s] = x, ![t] = z]
      BY <1>1, <2>1, <2>2 DEF BasicInv, JobsOK
    <2>4. /\ next \in JobType /\ next.type = "fetch" /\ next.tries = 0 /\ next.page = y.page + 1
          /\ next.pc = y.pc /\ next.full = y.full /\ next.since = y.since /\ next.docs = y.docs
          /\ next.pinned = y.pinned /\ next.live = y.live /\ next.started = y.started
          /\ y.page \in Nat \ {0}
      <3>1. next = [y EXCEPT !.page = y.page + 1, !.tries = 0, !.limited = 0]
        OBVIOUS
      <3>2. y.page \in Nat \ {0} /\ y.page + 1 \in Nat \ {0}
        BY DEF JobType
      <3>3. 0 \in 0..MaxRequeues
        BY Bounds DEF BasicInv
      <3>. HIDE DEF next
      <3>. QED BY <1>1, <3>1, <3>2, <3>3 DEF JobType
    <2>. HIDE DEF next
    <2>5. JobOK(next)
      BY <1>1, <2>4, Bounds DEF JobOK, BasicInv
    <2>6. 0 < MaxAttempts + Lent /\ StateOK
      BY Bounds DEF BasicInv
    <2>7. /\ z \in JobType /\ z.type = "fetch" /\ z.pc = "queued" /\ z.page = next.page
          /\ z.since = next.since /\ z.pinned = (IF next.page = 1 THEN Nothing ELSE next.pinned)
          /\ z.docs = Nothing /\ z.live = Items /\ ~z.more /\ JobOK(z)
      BY <2>4, <2>5, <2>6, RequeuedFields, RequeuedIs
    <2>8. z.page = y.page + 1 /\ z.page # 1 /\ z.since = y.since /\ z.pinned = y.pinned
      BY <2>4, <2>7
    <2>. HIDE DEF x, z
    <2>9. Become(s, x, t, z)
      BY <1>2, <2>1, <2>2, <2>3, <2>7 DEF Become
    <2>. QED BY <1>1, <1>2, <1>4, <2>7, <2>8, <2>9
  <1>. QED BY <1>1, <1>3, <1>4 DEF JobType

LEMMA CompleteIs ==
  ASSUME BasicInv, NEW s \in Slots, Complete(s)
  PROVE  jobs[s].pc = "done" /\ Becomes(s, NoJob)
  BY NoJobOK DEF Complete, Becomes, Set, BasicInv

(* Back in the queue.                                                      *)
LEMMA AgainOK ==
  ASSUME StateOK, NEW y \in JobType, JobOK(y), y.type # "none", NEW x \in JobType,
         x.type = y.type, x.pc \in {"queued", "dead"}, x.full = y.full, x.page = y.page,
         x.tries <= MaxAttempts + Lent, x.pc = "queued" => x.tries < MaxAttempts + Lent,
         x.since = IF y.type = "fetch" THEN y.since ELSE 0,
         x.pinned = IF y.page = 1 THEN Nothing ELSE y.pinned,
         x.docs = Nothing, x.live = Items, x.started = 0, ~x.more
  PROVE  JobOK(x) /\ Again(x, y)
PROOF
  <1>1. \A i \in Items : x.docs[i] = 0 /\ x.pinned[i] <= newest[i] /\ newest[i] \in Nat
    BY Bounds DEF JobOK
  <1>2. x.since <= Back(now) /\ x.started <= now
    BY Bounds DEF JobOK
  <1>3. JobOK(x)
    BY <1>1, <1>2, Bounds DEF JobOK, StateOK
  <1>4. x.more = FALSE
    BY DEF JobType
  <1>5. Again(x, y)
    BY <1>4 DEF Again
  <1>. QED BY <1>3, <1>5

LEMMA FailsIs ==
  ASSUME BasicInv, NEW s \in Slots, Fails(s)
  PROVE  jobs[s].type # "none" /\ \E x : Becomes(s, x) /\ Again(x, jobs[s])
PROOF
  <1>1. PICK y \in JobType : y = jobs[s] /\ JobOK(y) /\ y.pc \notin {"none", "dead"}
    BY JobAt DEF Fails
  <1>2. y.type # "none"
    BY <1>1, NoJobOK DEF JobOK, BasicInv
  <1>3. PICK c : c = IF Running(s) THEN y ELSE Claimed(s)
    OBVIOUS
  <1>4. /\ c \in JobType /\ c.tries <= MaxAttempts + Lent /\ c.type = y.type /\ c.full = y.full
        /\ c.since = y.since /\ c.page = y.page /\ c.pinned = y.pinned
        /\ c.docs = y.docs /\ c.live = y.live /\ c.started = y.started /\ c.repos = y.repos
        /\ c.pc = y.pc
    <2>1. CASE Running(s)
      BY <1>1, <1>3, <2>1 DEF JobOK
    <2>2. CASE ~Running(s)
      <3>1. y.pc = "queued"
        BY <1>1, <2>2 DEF Running
      <3>. QED BY <1>1, <1>3, <2>2, <3>1, ClaimedIs
    <2>. QED BY <2>1, <2>2
  <1>5. PICK q : q = Requeued(c)
    OBVIOUS
  <1>6. /\ q \in JobType /\ q.type = y.type /\ q.pc = "queued" /\ q.tries = c.tries
        /\ q.full = y.full /\ q.page = y.page
        /\ q.since = IF y.type = "fetch" THEN y.since ELSE 0
        /\ q.pinned = IF y.page = 1 THEN Nothing ELSE y.pinned
        /\ q.docs = Nothing /\ q.live = Items /\ q.started = 0 /\ ~q.more /\ ~q.repos
    <2>1. q = Requeued(c) /\ c \in JobType /\ c.type # "none" /\ StateOK
      BY <1>2, <1>4, <1>5 DEF BasicInv
    <2>. QED BY <1>2, <1>4, <2>1, RequeuedFields
  <1>7. PICK x : x = IF c.tries >= MaxAttempts THEN [q EXCEPT !.pc = "dead"] ELSE q
    OBVIOUS
  <1>8. jobs' = [jobs EXCEPT ![s] = x]
    BY <1>1, <1>3, <1>5, <1>7 DEF Fails, Set
  <1>9. /\ x \in JobType /\ x.type = y.type /\ x.pc \in {"queued", "dead"} /\ x.tries = c.tries
        /\ x.full = y.full /\ x.page = y.page
        /\ x.since = IF y.type = "fetch" THEN y.since ELSE 0
        /\ x.pinned = IF y.page = 1 THEN Nothing ELSE y.pinned
        /\ x.docs = Nothing /\ x.live = Items /\ x.started = 0 /\ ~x.more
        /\ x.pc = "queued" => c.tries < MaxAttempts
    <2>1. c.tries \in Nat /\ MaxAttempts \in Nat
      BY <1>4, Bounds DEF JobType, BasicInv
    <2>2. CASE c.tries >= MaxAttempts
      <3>1. PICK r : r = [q EXCEPT !.pc = "dead"]
        OBVIOUS
      <3>2. /\ r \in JobType /\ r.type = q.type /\ r.pc = "dead" /\ r.tries = q.tries
            /\ r.full = q.full /\ r.page = q.page /\ r.since = q.since /\ r.pinned = q.pinned
            /\ r.docs = q.docs /\ r.live = q.live /\ r.started = q.started /\ r.more = q.more
        BY <1>6, <3>1 DEF JobType
      <3>. QED BY <1>6, <1>7, <2>2, <3>1, <3>2
    <2>3. CASE ~(c.tries >= MaxAttempts)
      BY <1>6, <1>7, <2>1, <2>3
    <2>. QED BY <2>2, <2>3
  <1>10. x.tries <= MaxAttempts + Lent /\ (x.pc = "queued" => x.tries < MaxAttempts + Lent)
    <2>1. c.tries \in Nat /\ MaxAttempts \in Nat /\ Lent \in Nat
      BY <1>4, Bounds DEF JobType, BasicInv
    <2>. QED BY <1>4, <1>9, <2>1
  <1>11. JobOK(x) /\ Again(x, y)
    BY <1>1, <1>2, <1>9, <1>10, AgainOK DEF BasicInv
  <1>. QED BY <1>1, <1>2, <1>8, <1>9, <1>11 DEF Becomes

LEMMA ReviveIs ==
  ASSUME BasicInv, NEW s \in Slots, Revive(s)
  PROVE  jobs[s].pc = "dead" /\ \E x : Becomes(s, x) /\ Again(x, jobs[s])
PROOF
  <1>1. PICK y \in JobType : y = jobs[s] /\ JobOK(y) /\ y.pc = "dead"
    BY JobAt DEF Revive
  <1> DEFINE x == [y EXCEPT !.pc = "queued", !.tries = 0]
  <1>2. jobs' = [jobs EXCEPT ![s] = x]
    BY <1>1 DEF Revive, Set
  <1>3. /\ x \in JobType /\ x.type = y.type /\ x.pc = "queued" /\ x.tries = 0
        /\ x.full = y.full /\ x.since = y.since /\ x.page = y.page /\ x.pinned = y.pinned
        /\ x.docs = y.docs /\ x.live = y.live /\ x.more = y.more /\ x.started = y.started
        /\ x.repos = y.repos
    BY <1>1 DEF JobType
  <1>. HIDE DEF x
  <1>4. y.type # "none"
    BY <1>1, NoJobOK DEF JobOK, BasicInv
  <1>5. JobOK(x)
    BY <1>1, <1>3, <1>4, Bounds DEF JobOK, BasicInv
  <1>6. Again(x, y)
    BY <1>3 DEF Again
  <1>. QED BY <1>1, <1>2, <1>3, <1>5, <1>6 DEF Becomes

LEMMA DuplicateIs ==
  ASSUME BasicInv, NEW s \in Slots, NEW t \in Slots, Duplicate(s, t)
  PROVE  Free(t) /\ jobs[s].pc = "queued" /\ Becomes(t, jobs[s])
  BY JobAt DEF Duplicate, Becomes, Set

LEMMA RateLimitedIs ==
  ASSUME BasicInv, NEW s \in Slots, RateLimited(s)
  PROVE  /\ jobs[s].type = "fetch" /\ jobs[s].pc = "queued"
         /\ \E x : \/ Becomes(s, x) /\ Again(x, jobs[s])
                   \/ \E t, z : /\ Become(s, x, t, z) /\ Moves(x, jobs[s], "done")
                                /\ Again(z, jobs[s]) /\ z.pc = "queued"
PROOF
  <1>1. PICK y \in JobType : y = jobs[s] /\ JobOK(y) /\ y.pc = "queued" /\ y.type = "fetch"
    BY JobAt DEF RateLimited, At
  <1>2. PICK q : q = Requeued(y)
    OBVIOUS
  <1>3. /\ q \in JobType /\ q.type = y.type /\ q.pc = "queued" /\ q.tries = y.tries
        /\ q.full = y.full /\ q.page = y.page /\ q.limited = y.limited
        /\ q.since = IF y.type = "fetch" THEN y.since ELSE 0
        /\ q.pinned = IF y.page = 1 THEN Nothing ELSE y.pinned
        /\ q.docs = Nothing /\ q.live = Items /\ q.started = 0 /\ ~q.more /\ ~q.repos
    BY <1>1, <1>2, RequeuedFields DEF BasicInv
  <1>4. y.limited + 1 \in 0..MaxRequeues
    BY <1>1, Bounds DEF RateLimited, MayWait, JobType, BasicInv
  <1> DEFINE a == [q EXCEPT !.limited = y.limited + 1]
             z == [q EXCEPT !.limited = y.limited + 1, !.tries = 0]
             x == [y EXCEPT !.pc = "done"]
  <1>5. [Requeued(jobs[s]) EXCEPT !.limited = @ + 1] = a /\ [a EXCEPT !.tries = 0] = z
    BY <1>1, <1>2, <1>3 DEF JobType
  <1>6. /\ a \in JobType /\ a.type = q.type /\ a.pc = "queued" /\ a.tries = q.tries
        /\ a.full = q.full /\ a.page = q.page /\ a.since = q.since /\ a.pinned = q.pinned
        /\ a.docs = q.docs /\ a.live = q.live /\ a.started = q.started /\ a.more = q.more
    BY <1>3, <1>4 DEF JobType
  <1>7. /\ z \in JobType /\ z.type = q.type /\ z.pc = "queued" /\ z.tries = 0
        /\ z.full = q.full /\ z.page = q.page /\ z.since = q.since /\ z.pinned = q.pinned
        /\ z.docs = q.docs /\ z.live = q.live /\ z.started = q.started /\ z.more = q.more
    BY <1>3, <1>4 DEF JobType
  <1>8. y.tries \in Nat /\ y.tries < MaxAttempts + Lent /\ 0 < MaxAttempts + Lent
        /\ y.tries <= MaxAttempts + Lent /\ 0 <= MaxAttempts + Lent
    BY <1>1, Bounds DEF JobOK, JobType, BasicInv
  <1>9. x \in JobType /\ JobOK(x) /\ Moves(x, y, "done")
    BY <1>1, MovesOn
  <1>10. \/ jobs' = [jobs EXCEPT ![s] = a]
         \/ \E t \in Slots : Free(t) /\ jobs' = [jobs EXCEPT ![s].pc = "done", ![t] = z]
    <2>. HIDE DEF a, z
    <2>. QED BY <1>1, <1>5 DEF RateLimited, Set, Enqueue
  <1>. HIDE DEF a, z
  <1>11. JobOK(a) /\ Again(a, y)
    BY <1>1, <1>3, <1>6, <1>8, AgainOK DEF BasicInv
  <1>12. JobOK(z) /\ Again(z, y)
    BY <1>1, <1>3, <1>7, <1>8, AgainOK DEF BasicInv
  <1>13. ASSUME NEW t \in Slots, Free(t), jobs' = [jobs EXCEPT ![s].pc = "done", ![t] = z]
         PROVE  Become(s, x, t, z)
    <2>1. t # s
      BY <1>1, <1>13, NoJobOK DEF Free, BasicInv
    <2>2. jobs' = [jobs EXCEPT ![s] = x, ![t] = z]
      BY <1>1, <1>13, <2>1 DEF BasicInv, JobsOK
    <2>. HIDE DEF x
    <2>. QED BY <1>7, <1>9, <1>12, <1>13, <2>1, <2>2 DEF Become
  <1>. HIDE DEF x
  <1>14. jobs' = [jobs EXCEPT ![s] = a] => Becomes(s, a)
    BY <1>6, <1>11 DEF Becomes
  <1>. QED BY <1>1, <1>7, <1>9, <1>10, <1>11, <1>12, <1>13, <1>14

(* A crash puts every running job back.                                    *)
LEMMA CrashIs ==
  ASSUME BasicInv, StateOK', Grows, listed' = listed, empty' = empty, Crash
  PROVE  /\ JobsOK'
         /\ \A r \in Slots :
              \/ jobs'[r] = jobs[r]
              \/ Running(r) /\ jobs[r].type # "none" /\ Again(jobs'[r], jobs[r])
PROOF
  <1>0. jobs' = [s \in Slots |-> IF Running(s) THEN Requeued(jobs[s]) ELSE jobs[s]]
    BY DEF Crash
  <1>00. Lent' = Lent + 1
    BY DEF Crash, Event, Lent, Grows
  <1>1. ASSUME NEW r \in Slots, ~Running(r)
        PROVE  jobs'[r] = jobs[r] /\ jobs'[r] \in JobType /\ JobOK(jobs[r])'
    <2>1. PICK y \in JobType : y = jobs[r] /\ JobOK(y) /\ jobs'[r] = y
      BY <1>0, <1>1, JobAt
    <2>2. JobOK(y)'
      BY <2>1, JobsOn DEF BasicInv
    <2>. QED BY <2>1, <2>2
  <1>2. ASSUME NEW r \in Slots, Running(r)
        PROVE  /\ jobs[r].type # "none" /\ Again(jobs'[r], jobs[r])
               /\ jobs'[r] \in JobType /\ JobOK(jobs[r])'
    <2>1. PICK y \in JobType : y = jobs[r] /\ JobOK(y) /\ y.pc \notin {"none", "queued", "dead"}
      BY <1>2, JobAt DEF Running
    <2>2. y.type # "none"
      BY <2>1, NoJobOK DEF JobOK, BasicInv
    <2>3. PICK q : q = Requeued(y) /\ jobs'[r] = q
      BY <1>0, <1>2, <2>1
    <2>4. /\ q \in JobType /\ q.type = y.type /\ q.pc = "queued" /\ q.tries = y.tries
          /\ q.full = y.full /\ q.page = y.page
          /\ q.since = IF y.type = "fetch" THEN y.since ELSE 0
          /\ q.pinned = IF y.page = 1 THEN Nothing ELSE y.pinned
          /\ q.docs = Nothing /\ q.live = Items /\ q.started = 0 /\ ~q.more /\ ~q.repos
      BY <2>3, RequeuedFields DEF BasicInv
    <2>5. PICK d : d = [q EXCEPT !.pc = "dead"]
      OBVIOUS
    <2>6. /\ d \in JobType /\ d.type = q.type /\ d.pc = "dead" /\ d.tries = q.tries
          /\ d.full = q.full /\ d.page = q.page /\ d.since = q.since /\ d.pinned = q.pinned
          /\ d.docs = q.docs /\ d.live = q.live /\ d.started = q.started /\ d.more = q.more
          /\ d.repos = q.repos
      BY <2>4, <2>5 DEF JobType
    <2>7. y.tries <= MaxAttempts + Lent
      BY <2>1 DEF JobOK
    <2>8. JobOK(d) /\ Again(d, y)
      BY <2>1, <2>2, <2>4, <2>6, <2>7, AgainOK DEF BasicInv
    <2>9. JobOK(d)'
      BY <2>6, <2>8, JobsOn DEF BasicInv
    <2>10. q.tries < MaxAttempts + Lent'
      BY <1>00, <2>1, <2>4, <2>7, Bounds DEF JobType, BasicInv
    <2>11. JobOK(q)'
      BY <2>2, <2>4, <2>6, <2>9, <2>10 DEF JobOK
    <2>12. Again(q, y)
      BY <2>4, <2>6, <2>8 DEF Again
    <2>. QED BY <2>1, <2>2, <2>3, <2>4, <2>11, <2>12
  <1>3. jobs' \in [Slots -> JobType]
    BY <1>0, <1>1, <1>2
  <1>. QED BY <1>1, <1>2, <1>3 DEF JobsOK

-----------------------------------------------------------------------------
(* The steps of jobs: what they leave alone.                               *)
World == <<kind, queue, now, updated, listed, empty, newest, stayed, shifted>>

LEMMA Steady ==
  ASSUME BasicInv, UNCHANGED World, indexed' \in Versions, watermark' \in 0..now,
         \A i \in Items : indexed'[i] <= newest[i] /\ (kind = "readme" /\ i # 1 => indexed'[i] = 0),
         settled' \in BOOLEAN, late' \in BOOLEAN, runs' \in Nat, events' \in Nat, events <= events'
  PROVE  StateOK' /\ Grows /\ VersionsOK' /\ (stayed \subseteq Belonging(updated, listed \/ empty))'
PROOF
  <1>1. \A i \in Items : newest[i] \in Nat
    BY Bounds DEF BasicInv
  <1>2. now \in Nat
    BY Bounds DEF BasicInv
  <1>3. Grows
    BY <1>1, <1>2 DEF World, Grows
  <1>4. StateOK'
    BY DEF World, BasicInv, StateOK
  <1>5. VersionsOK'
    BY DEF World, BasicInv, VersionsOK
  <1>6. (stayed \subseteq Belonging(updated, listed \/ empty))'
    BY DEF World, BasicInv, Belonging, Existing
  <1>. QED BY <1>3, <1>4, <1>5, <1>6

LEMMA SameIndex ==
  ASSUME BasicInv
  PROVE  /\ indexed \in Versions /\ watermark \in 0..now
         /\ settled \in BOOLEAN /\ late \in BOOLEAN /\ runs \in Nat /\ events \in Nat
         /\ events + 1 \in Nat /\ events <= events + 1 /\ runs + 1 \in Nat
         /\ \A i \in Items : indexed[i] <= newest[i] /\ (kind = "readme" /\ i # 1 => indexed[i] = 0)
  BY DEF BasicInv, StateOK, VersionsOK

LEMMA OneStep ==
  ASSUME BasicInv, UNCHANGED World, indexed' \in Versions, watermark' \in 0..now,
         \A i \in Items : indexed'[i] <= newest[i] /\ (kind = "readme" /\ i # 1 => indexed'[i] = 0),
         settled' \in BOOLEAN, late' \in BOOLEAN, runs' \in Nat, events' \in Nat, events <= events',
         NEW s \in Slots, \E x : Becomes(s, x)
  PROVE  BasicInv'
PROOF
  <1>1. PICK x \in JobType : JobOK(x) /\ jobs' = [jobs EXCEPT ![s] = x]
    BY DEF Becomes
  <1>2. StateOK' /\ Grows /\ VersionsOK' /\ (stayed \subseteq Belonging(updated, listed \/ empty))'
    BY Steady
  <1>3. JobsOK'
    BY <1>1, <1>2, OneJob DEF World
  <1>. QED BY <1>2, <1>3 DEF BasicInv

LEMMA TwoStep ==
  ASSUME BasicInv, UNCHANGED World, UNCHANGED <<indexed, watermark, settled, late, runs>>,
         events' \in Nat, events <= events',
         NEW s \in Slots, \E x, t, z : Become(s, x, t, z)
  PROVE  BasicInv'
PROOF
  <1>1. PICK x \in JobType, t \in Slots, z \in JobType :
          JobOK(x) /\ JobOK(z) /\ jobs' = [jobs EXCEPT ![s] = x, ![t] = z]
    BY DEF Become
  <1>2. StateOK' /\ Grows /\ VersionsOK' /\ (stayed \subseteq Belonging(updated, listed \/ empty))'
    BY SameIndex, Steady
  <1>3. JobsOK'
    BY <1>1, <1>2, TwoJobs DEF World
  <1>. QED BY <1>2, <1>3 DEF BasicInv

(* An item gets another version, or none.                                  *)
LEMMA EditIs ==
  ASSUME BasicInv, NEW i \in Items, Edit(i)
  PROVE  /\ BasicInv' /\ jobs' = jobs /\ indexed' = indexed /\ watermark' = watermark
         /\ kind' = kind /\ listed' = listed /\ late' = late /\ ~settled' /\ now' = now
         /\ failed' = failed
         /\ shifted' \in BOOLEAN /\ (shifted => shifted') /\ queue' = queue
         /\ \A j \in Items : j # i => updated'[j] = updated[j] /\ newest'[j] = newest[j]
         /\ kind \in Dated /\ updated'[i] # 0 => updated'[i] > newest[i] /\ updated'[i] > updated[i]
         /\ updated'[i] # 0 => updated'[i] >= Back(now)
         /\ kind \in Dated /\ updated'[i] = 0 /\ (\E s \in Slots : jobs[s].type = "fetch") => shifted'
PROOF
  <1>1. PICK t \in {0} \cup (now - Overlap)..now :
          /\ t # updated[i]
          /\ kind \in Dated => t = 0 \/ t > newest[i]
          /\ updated' = [updated EXCEPT ![i] = t]
          /\ newest' = [newest EXCEPT ![i] = IF t > newest[i] THEN t ELSE newest[i]]
          /\ stayed' = stayed \cap Belonging(updated', listed \/ empty)
          /\ shifted' = (shifted \/ (t = 0 /\ kind \in Dated /\ Paging))
    BY DEF Edit
  <1>2. /\ jobs' = jobs /\ indexed' = indexed /\ watermark' = watermark /\ events' = events + 1
        /\ kind' = kind /\ listed' = listed /\ late' = late /\ ~settled' /\ now' = now
        /\ empty' = empty /\ failed' = failed
        /\ queue' = queue /\ runs' = runs /\ (kind = "readme" => i = 1) /\ settled' = FALSE
    BY DEF Edit, Event
  <1>3. t \in Times /\ t \in Nat
    <2>1. now \in (1 + Overlap)..MaxTime /\ Overlap \in Nat /\ MaxTime \in Nat
      BY IngestionAssumption DEF BasicInv, StateOK
    <2>2. t = 0 \/ t \in (now - Overlap)..now
      BY <1>1
    <2>. QED BY <2>1, <2>2 DEF Times
  <1>4. /\ updated \in Versions /\ newest \in Versions
        /\ \A j \in Items : updated[j] \in Nat /\ newest[j] \in Nat /\ newest[j] \in Times
                         /\ updated[j] <= newest[j]
    BY DEF BasicInv, StateOK, VersionsOK, Versions, Times
  <1>5. /\ updated' \in Versions /\ newest' \in Versions /\ updated'[i] = t
        /\ newest'[i] = (IF t > newest[i] THEN t ELSE newest[i])
        /\ \A j \in Items : j # i => updated'[j] = updated[j] /\ newest'[j] = newest[j]
    BY <1>1, <1>3, <1>4 DEF Versions
  <1>6. /\ shifted' \in BOOLEAN /\ (shifted => shifted') /\ stayed' \subseteq stayed
        /\ kind \in Dated /\ t = 0 /\ Paging => shifted'
    BY <1>1 DEF BasicInv, StateOK
  <1>7. \A j \in Items : newest[j] <= newest'[j] /\ updated'[j] <= newest'[j]
    BY <1>3, <1>4, <1>5
  <1>8. Grows
    BY <1>2, <1>6, <1>7, Bounds, SameIndex DEF Grows, BasicInv
  <1>9. StateOK'
    BY <1>2, <1>5, <1>6, SameIndex DEF BasicInv, StateOK
  <1>10. VersionsOK'
    <2>1. ASSUME NEW j \in Items
          PROVE  /\ indexed[j] <= newest'[j]
                 /\ kind \in Dated /\ updated'[j] # 0 => updated'[j] = newest'[j]
                 /\ kind = "readme" /\ j # 1 => updated'[j] = 0 /\ indexed[j] = 0
      <3>1. indexed[j] \in Nat /\ indexed[j] <= newest[j]
        BY SameIndex DEF Versions, Times
      <3>2. indexed[j] <= newest'[j]
        BY <1>4, <1>5, <1>7, <3>1 DEF Versions, Times
      <3>3. kind \in Dated /\ updated'[j] # 0 => updated'[j] = newest'[j]
        BY <1>1, <1>5 DEF BasicInv, VersionsOK
      <3>4. kind = "readme" /\ j # 1 => updated'[j] = 0 /\ indexed[j] = 0
        BY <1>2, <1>5 DEF BasicInv, VersionsOK
      <3>. QED BY <3>2, <3>3, <3>4
    <2>. QED BY <1>2, <1>7, <2>1 DEF VersionsOK
  <1>11. JobsOK'
    <2>1. ASSUME NEW r \in Slots PROVE jobs'[r] \in JobType /\ JobOK(jobs[r])'
      <3>1. PICK y \in JobType : y = jobs[r] /\ JobOK(y) /\ jobs'[r] = y
        BY <1>2, JobAt
      <3>2. JobOK(y)'
        BY <1>2, <1>8, <1>9, <3>1, JobsOn DEF BasicInv
      <3>. QED BY <3>1, <3>2
    <2>. QED BY <1>2, <2>1 DEF JobsOK, BasicInv
  <1>12. (stayed \subseteq Belonging(updated, listed \/ empty))'
    BY <1>1, <1>2
  <1>13. t # 0 => t >= Back(now)
    BY <1>1, Bounds DEF Back, BasicInv, StateOK
  <1>. QED BY <1>1, <1>2, <1>3, <1>4, <1>5, <1>6, <1>9, <1>10, <1>11, <1>12, <1>13 DEF BasicInv, Paging

LEMMA ListedOrEmpty ==
  ASSUME NEW a \in Allowlists PROVE a[1] \in BOOLEAN /\ a[2] \in BOOLEAN /\ ~(a[1] /\ a[2])
PROOF
  <1>1. PICK p \in BOOLEAN, q \in BOOLEAN : a = <<p, q>>
    BY DEF Allowlists
  <1>2. a[1] = p /\ a[2] = q
    BY <1>1
  <1>3. ~(p = TRUE /\ q = TRUE)
    BY <1>1 DEF Allowlists
  <1>4. ~(p /\ q)
    BY <1>3, Zenon
  <1>. QED BY <1>2, <1>4

(* The allowlist changes, while nothing is at work.                        *)
LEMMA RelistIs ==
  ASSUME BasicInv, Relist
  PROVE  /\ BasicInv' /\ jobs' = jobs /\ indexed' = indexed /\ watermark' = watermark
         /\ kind' = kind /\ ~settled' /\ now' = now /\ updated' = updated
         /\ newest' = newest /\ shifted' = shifted
         /\ kind \in Dated /\ listed' /\ (watermark # 0 \/ ~Quiet) => late'
PROOF
  <1>1. /\ jobs' = jobs /\ indexed' = indexed /\ watermark' = watermark /\ events' = events + 1
        /\ kind' = kind /\ settled' = FALSE /\ now' = now
        /\ listed' \in BOOLEAN /\ empty' \in BOOLEAN /\ ~(listed' /\ empty')
        /\ queue' = queue /\ runs' = runs /\ updated' = updated /\ newest' = newest
        /\ shifted' = shifted /\ stayed' = stayed \cap Belonging(updated', listed' \/ empty')
        /\ late' = (late \/ (listed' /\ kind \in Dated /\ (watermark # 0 \/ ~Quiet)))
        /\ \A s \in Slots : ~Running(s)
    <2>1. PICK a \in Allowlists : listed' = a[1] /\ empty' = a[2]
      BY DEF Relist
    <2>2. a[1] \in BOOLEAN /\ a[2] \in BOOLEAN /\ ~(a[1] /\ a[2])
      BY ListedOrEmpty
    <2>3. listed' \in BOOLEAN /\ empty' \in BOOLEAN /\ ~(listed' /\ empty')
      BY <2>1, <2>2, Zenon
    <2>. QED BY <2>3 DEF Relist, Event
  <1>2. Grows
    BY <1>1, Bounds, SameIndex DEF Grows, BasicInv
  <1>3. StateOK'
    BY <1>1, SameIndex DEF BasicInv, StateOK
  <1>4. VersionsOK'
    BY <1>1 DEF BasicInv, VersionsOK
  <1>5. JobsOK'
    <2>1. ASSUME NEW r \in Slots PROVE jobs'[r] \in JobType /\ JobOK(jobs[r])'
      <3>1. PICK y \in JobType : y = jobs[r] /\ JobOK(y) /\ jobs'[r] = y
        BY <1>1, JobAt
      <3>2. y.pc \in {"none", "queued", "dead"}
        BY <1>1, <3>1 DEF Running
      <3>3. JobOK(y)'
        BY <1>2, <1>3, <3>1, <3>2, JobsOn DEF BasicInv
      <3>. QED BY <3>1, <3>3
    <2>. QED BY <1>1, <2>1 DEF JobsOK, BasicInv
  <1>6. (stayed \subseteq Belonging(updated, listed \/ empty))'
    BY <1>1
  <1>. QED BY <1>1, <1>3, <1>4, <1>5, <1>6 DEF BasicInv

(* The jobs of a discovery.                                                *)
LEMMA DiscoveryStep ==
  ASSUME BasicInv, NEW s \in Slots, Discovery(s)
  PROVE  BasicInv'
PROOF
  <1>. USE DEF World, source, history, count
  <1>1. CASE Discover(s)
    <2>1. /\ UNCHANGED World /\ UNCHANGED <<indexed, watermark, settled, late, events>>
          /\ runs' = runs + 1
      BY <1>1 DEF Discover
    <2>2. \E x : Becomes(s, x)
      BY <1>1, DiscoverIs
    <2>. QED BY <2>1, <2>2, SameIndex, OneStep
  <1>2. CASE Begin(s)
    <2>1. /\ UNCHANGED World /\ UNCHANGED <<indexed, watermark, runs, events>>
          /\ settled' \in BOOLEAN /\ late' \in BOOLEAN
      BY <1>2 DEF Begin, BasicInv, StateOK
    <2>2. \E x : Becomes(s, x)
      BY <1>2, BeginIs, BeginsNothing
    <2>. QED BY <2>1, <2>2, SameIndex, OneStep
  <1>3. CASE QueueJobs(s)
    <2>1. /\ UNCHANGED World /\ UNCHANGED <<indexed, watermark, settled, late, runs>>
          /\ events' = events
      BY <1>3 DEF QueueJobs
    <2>2. (\E x : Becomes(s, x)) \/ \E x, t, z : Become(s, x, t, z)
      BY <1>3, QueueJobsIs
    <2>. QED BY <2>1, <2>2, SameIndex, OneStep, TwoStep
  <1>4. CASE SaveWatermark(s)
    <2>1. UNCHANGED World /\ UNCHANGED <<indexed, settled, late, runs, events>>
      BY <1>4 DEF SaveWatermark
    <2>2. watermark' \in 0..now /\ \E x : Becomes(s, x)
      BY <1>4, SaveWatermarkIs
    <2>. QED BY <2>1, <2>2, SameIndex, OneStep
  <1>5. CASE Purge(s)
    <2>1. UNCHANGED World /\ UNCHANGED <<watermark, settled, late, runs, events>>
      BY <1>5 DEF Purge
    <2>2. (indexed' = indexed \/ indexed' = Nothing) /\ \E x : Becomes(s, x)
      BY <1>5, PurgeIs
    <2>3. /\ Nothing \in Versions
          /\ \A i \in Items : Nothing[i] = 0 /\ Nothing[i] <= newest[i]
      BY Bounds DEF BasicInv
    <2>4. /\ indexed' \in Versions
          /\ \A i \in Items : indexed'[i] <= newest[i] /\ (kind = "readme" /\ i # 1 => indexed'[i] = 0)
      BY <2>2, <2>3, SameIndex
    <2>. QED BY <2>1, <2>2, <2>4, SameIndex, OneStep
  <1>. QED BY <1>1, <1>2, <1>3, <1>4, <1>5 DEF Discovery

(* The jobs of pages.                                                      *)
LEMMA WorkerStep ==
  ASSUME BasicInv, NEW s \in Slots, Worker(s)
  PROVE  BasicInv'
PROOF
  <1>. USE DEF World, source, history, count
  <1>1. CASE Fetch(s)
    <2>1. UNCHANGED World /\ UNCHANGED <<indexed, watermark, late>>
      BY <1>1 DEF Fetch
    <2>2. /\ settled' \in BOOLEAN /\ events' \in Nat /\ events <= events' /\ runs' = runs
          /\ \E x : Becomes(s, x)
      BY <1>1, FetchIs
    <2>. QED BY <2>1, <2>2, SameIndex, OneStep
  <1>2. CASE Index(s)
    <2>1. UNCHANGED World /\ UNCHANGED <<watermark, settled, late, runs, events>>
      BY <1>2 DEF Index
    <2>0. PICK i \in Items : \E x : Becomes(s, x) /\ Indexes(x, jobs[s], i)
      BY <1>2, IndexIs
    <2>2. PICK x : Becomes(s, x) /\ Indexes(x, jobs[s], i)
      BY <2>0
    <2>3. PICK y \in JobType : y = jobs[s] /\ JobOK(y)
      BY JobAt
    <2>4. PICK v \in Times : v = IF kind # "readme" /\ indexed[i] > y.docs[i] THEN indexed[i]
                                                                              ELSE y.docs[i]
      BY <2>2, <2>3, SameIndex DEF Indexes, Versions
    <2>5. indexed' = [indexed EXCEPT ![i] = v]
      BY <2>2, <2>3, <2>4 DEF Indexes
    <2>6. v <= newest[i] /\ (kind = "readme" => i = 1)
      BY <2>2, <2>3, <2>4, SameIndex DEF JobOK, Indexes
    <2>7. /\ indexed' \in Versions
          /\ \A j \in Items : indexed'[j] <= newest[j] /\ (kind = "readme" /\ j # 1 => indexed'[j] = 0)
      BY <2>5, <2>6, SameIndex DEF Versions
    <2>. QED BY <2>1, <2>2, <2>7, SameIndex, OneStep
  <1>3. CASE Reconcile(s)
    <2>1. UNCHANGED World /\ UNCHANGED <<watermark, settled, late, runs, events>>
      BY <1>3 DEF Reconcile
    <2>2. indexed' = Read(jobs[s].live, indexed) /\ \E x : Becomes(s, x)
      BY <1>3, ReconcileIs
    <2>3. PICK live : indexed' = Read(live, indexed)
      BY <2>2
    <2>4. /\ indexed' \in Versions
          /\ \A i \in Items : indexed'[i] \in {0, indexed[i]}
      BY <2>3, SameIndex, ReadIs
    <2>5. \A i \in Items : newest[i] \in Nat
      BY Bounds DEF BasicInv
    <2>6. \A i \in Items : indexed'[i] <= newest[i] /\ (kind = "readme" /\ i # 1 => indexed'[i] = 0)
      BY <2>4, <2>5, SameIndex
    <2>. QED BY <2>1, <2>2, <2>4, <2>6, SameIndex, OneStep
  <1>4. CASE Follow(s)
    <2>1. /\ UNCHANGED World /\ UNCHANGED <<indexed, watermark, settled, late, runs>>
          /\ events' = events
      BY <1>4 DEF Follow
    <2>2. (\E x : Becomes(s, x)) \/ \E x, t, z : Become(s, x, t, z)
      BY <1>4, FollowIs
    <2>. QED BY <2>1, <2>2, SameIndex, OneStep, TwoStep
  <1>5. CASE Complete(s)
    <2>1. UNCHANGED World /\ UNCHANGED <<indexed, watermark, settled, late, runs, events>>
      BY <1>5 DEF Complete
    <2>2. \E x : Becomes(s, x)
      BY <1>5, CompleteIs
    <2>. QED BY <2>1, <2>2, SameIndex, OneStep
  <1>6. CASE GiveUp(s)
    <2>1. UNCHANGED World /\ UNCHANGED <<indexed, watermark, settled, late, runs>>
          /\ events' = events + 1
      BY <1>6 DEF GiveUp, Event
    <2>2. \E x : Becomes(s, x)
      BY <1>6, GiveUpIs
    <2>. QED BY <2>1, <2>2, SameIndex, OneStep
  <1>. QED BY <1>1, <1>2, <1>3, <1>4, <1>5, <1>6 DEF Worker

LEMMA TroubleStep ==
  ASSUME BasicInv, NEW s \in Slots, Trouble(s)
  PROVE  BasicInv'
PROOF
  <1>. USE DEF World, source, history, count
  <1>1. CASE Fails(s)
    <2>1. /\ UNCHANGED World /\ UNCHANGED <<indexed, watermark, settled, late, runs>>
          /\ events' = events + 1
      BY <1>1 DEF Fails, Event
    <2>2. \E x : Becomes(s, x)
      BY <1>1, FailsIs
    <2>. QED BY <2>1, <2>2, SameIndex, OneStep
  <1>2. CASE RateLimited(s)
    <2>1. /\ UNCHANGED World /\ UNCHANGED <<indexed, watermark, settled, late, runs>>
          /\ events' = events + 1
      BY <1>2 DEF RateLimited, Event
    <2>2. (\E x : Becomes(s, x)) \/ \E x, t, z : Become(s, x, t, z)
      BY <1>2, RateLimitedIs
    <2>. QED BY <2>1, <2>2, SameIndex, OneStep, TwoStep
  <1>3. CASE Revive(s)
    <2>1. UNCHANGED World /\ UNCHANGED <<indexed, watermark, settled, late, runs, events>>
      BY <1>3 DEF Revive
    <2>2. \E x : Becomes(s, x)
      BY <1>3, ReviveIs
    <2>. QED BY <2>1, <2>2, SameIndex, OneStep
  <1>4. ASSUME NEW t \in Slots, Duplicate(s, t) PROVE BasicInv'
    <2>1. /\ UNCHANGED World /\ UNCHANGED <<indexed, watermark, settled, late, runs>>
          /\ events' = events + 1
      BY <1>4 DEF Duplicate, Event
    <2>2. \E x : Becomes(t, x)
      BY <1>4, DuplicateIs
    <2>. QED BY <2>1, <2>2, SameIndex, OneStep
  <1>. QED BY <1>1, <1>2, <1>3, <1>4 DEF Trouble

LEMMA BasicInit ==
  ASSUME Init
  PROVE  BasicInv
PROOF
  <1>1. /\ kind \in {"issue", "pr", "file", "readme"} /\ queue \in {"node", "sqs"}
        /\ now = 1 + Overlap /\ updated \in [Items -> 0..1]
        /\ kind = "readme" => \A i \in Items \ {1} : updated[i] = 0
        /\ listed \in BOOLEAN /\ empty \in BOOLEAN /\ ~(listed /\ empty)
        /\ indexed = Nothing /\ watermark = 0
        /\ jobs = [s \in Slots |-> NoJob] /\ runs = 0 /\ events = 0 /\ newest = updated
        /\ settled = FALSE /\ late = FALSE /\ shifted = FALSE
        /\ stayed = Belonging(updated, listed \/ empty)
    <2>1. PICK a \in Allowlists : listed = a[1] /\ empty = a[2]
      BY DEF Init
    <2>2. a[1] \in BOOLEAN /\ a[2] \in BOOLEAN /\ ~(a[1] /\ a[2])
      BY ListedOrEmpty
    <2>3. listed \in BOOLEAN /\ empty \in BOOLEAN /\ ~(listed /\ empty)
      BY <2>1, <2>2, Zenon
    <2>. QED BY <2>3, IngestionAssumption DEF Init
  <1>2. Overlap \in Nat /\ MaxTime \in Nat /\ Overlap < MaxTime
    BY IngestionAssumption
  <1>3. updated \in Versions /\ \A i \in Items : updated[i] \in 0..1
    BY <1>1, <1>2 DEF Versions, Times
  <1>4. Nothing \in Versions /\ \A i \in Items : Nothing[i] = 0
    BY <1>2 DEF Nothing, Versions, Times
  <1>5. Belonging(updated, listed \/ empty) \subseteq Items
    BY DEF Belonging, Existing
  <1>6. now \in (1 + Overlap)..MaxTime /\ watermark \in 0..now
    BY <1>1, <1>2
  <1>7. StateOK
    BY <1>1, <1>3, <1>4, <1>5, <1>6 DEF StateOK
  <1>8. JobsOK
    BY <1>1, <1>7, NoJobOK DEF JobsOK
  <1>9. VersionsOK
    BY <1>1, <1>3, <1>4 DEF VersionsOK
  <1>. QED BY <1>1, <1>7, <1>8, <1>9 DEF BasicInv

LEMMA BasicStep ==
  ASSUME BasicInv, [Next]_vars
  PROVE  BasicInv'
PROOF
  <1>1. CASE UNCHANGED vars
    BY <1>1 DEF vars, BasicInv, StateOK, JobsOK, JobOK, VersionsOK, Lent, Free, NoJob, Nothing,
                Belonging, Existing
  <1>2. CASE Tick
    <2>1. /\ UNCHANGED <<kind, queue, updated, listed, empty, indexed, watermark, jobs>>
          /\ UNCHANGED <<newest, settled, late, stayed, shifted, runs, events>>
          /\ now' = now + 1 /\ now < MaxTime
      BY <1>2 DEF Tick, count, history
    <2>2. MaxTime \in Nat /\ Overlap \in Nat
      BY IngestionAssumption
    <2>3. StateOK'
      BY <2>1, <2>2 DEF BasicInv, StateOK
    <2>4. Grows
      BY <2>1, Bounds, SameIndex DEF Grows, BasicInv
    <2>5. ASSUME NEW r \in Slots PROVE jobs'[r] \in JobType /\ JobOK(jobs[r])'
      <3>1. PICK y \in JobType : y = jobs[r] /\ JobOK(y) /\ jobs'[r] = y
        BY <2>1, JobAt
      <3>2. JobOK(y)'
        BY <2>1, <2>3, <2>4, <3>1, JobsOn DEF BasicInv
      <3>. QED BY <3>1, <3>2
    <2>6. JobsOK'
      BY <2>1, <2>5 DEF JobsOK, BasicInv
    <2>7. VersionsOK' /\ (stayed \subseteq Belonging(updated, listed \/ empty))'
      BY <2>1 DEF BasicInv, VersionsOK, Belonging, Existing
    <2>. QED BY <2>3, <2>6, <2>7 DEF BasicInv
  <1>3. CASE Relist
    BY <1>3, RelistIs
  <1>4. CASE Crash
    <2>1. /\ UNCHANGED World /\ UNCHANGED <<indexed, watermark, settled, late, runs>>
          /\ events' = events + 1
      BY <1>4 DEF Crash, Event, World, source, history
    <2>2. StateOK' /\ Grows /\ VersionsOK' /\ (stayed \subseteq Belonging(updated, listed \/ empty))'
      BY <2>1, SameIndex, Steady
    <2>3. JobsOK'
      BY <1>4, <2>1, <2>2, CrashIs DEF World
    <2>. QED BY <2>2, <2>3 DEF BasicInv
  <1>5. ASSUME NEW i \in Items, Edit(i) PROVE BasicInv'
    BY <1>5, EditIs
  <1>6. ASSUME NEW s \in Slots, Discovery(s) \/ Worker(s) \/ Trouble(s) PROVE BasicInv'
    BY <1>6, DiscoveryStep, WorkerStep, TroubleStep
  <1>. QED BY <1>1, <1>2, <1>3, <1>4, <1>5, <1>6 DEF Next

THEOREM BasicHolds == Spec => []BasicInv
PROOF
  <1>. QED BY BasicInit, BasicStep, PTL DEF Spec

-----------------------------------------------------------------------------
(* The state is well typed, and no job is handed out more often than its   *)
(* budget but for crashes of the node, nor waits for a rate limit more     *)
(* often than allowed: fail, claim, run_page_job.                          *)
THEOREM TypeCorrect == Spec => []TypeOK
PROOF
  <1>1. ASSUME BasicInv PROVE TypeOK
    <2>1. /\ updated \in Versions /\ indexed \in Versions /\ watermark \in 0..now
      BY <1>1 DEF BasicInv, StateOK
    <2>2. ASSUME NEW s \in Slots
          PROVE  /\ jobs[s].tries \in 0..(MaxAttempts + IF queue = "node" THEN events ELSE 0)
                 /\ jobs[s].limited \in 0..MaxRequeues
                 /\ jobs[s].since <= now /\ jobs[s].docs \in Versions
      <3>1. PICK y \in JobType : y = jobs[s] /\ JobOK(y)
        BY <1>1, JobAt
      <3>2. y.tries \in Nat /\ y.tries <= MaxAttempts + Lent /\ MaxAttempts + Lent \in Nat
        BY <1>1, <3>1, Bounds DEF JobOK, JobType, BasicInv
      <3>3. y.tries \in 0..(MaxAttempts + Lent)
        BY <3>2
      <3>4. Back(now) <= now /\ now \in Nat /\ Back(now) \in Nat
        BY <1>1, Bounds DEF Back, BasicInv
      <3>5. y.since <= now
        BY <3>1, <3>4 DEF JobOK, JobType
      <3>. QED BY <3>1, <3>3, <3>5 DEF JobType, Lent
    <2>. QED BY <2>1, <2>2 DEF TypeOK
  <1>. QED BY <1>1, BasicHolds, PTL

(* Who changes what is indexed.                                            *)
LEMMA IndexedBy ==
  ASSUME [Next]_vars, BasicInv
  PROVE  \/ indexed' = indexed
         \/ \E s \in Slots : Purge(s) \/ Index(s) \/ Reconcile(s)
PROOF
  <1>1. CASE UNCHANGED vars
    BY <1>1 DEF vars
  <1>2. CASE Tick \/ Relist \/ Crash
    BY <1>2 DEF Tick, Relist, Crash
  <1>3. ASSUME NEW i \in Items, Edit(i) PROVE indexed' = indexed
    BY <1>3 DEF Edit
  <1>4. ASSUME NEW s \in Slots, Discovery(s)
        PROVE  indexed' = indexed \/ Purge(s)
    BY <1>4 DEF Discovery, Discover, Begin, QueueJobs, SaveWatermark
  <1>5. ASSUME NEW s \in Slots, Worker(s)
        PROVE  indexed' = indexed \/ Index(s) \/ Reconcile(s)
    BY <1>5 DEF Worker, Fetch, GiveUp, Follow, Complete
  <1>6. ASSUME NEW s \in Slots, Trouble(s)
        PROVE  indexed' = indexed
    BY <1>6 DEF Trouble, Fails, RateLimited, Revive, Duplicate
  <1>. QED BY <1>1, <1>2, <1>3, <1>4, <1>5, <1>6 DEF Next

(* A document the source has had all along stays, whatever listings are    *)
(* cut short, whichever pages are late: Live, reconcile, purge.            *)
THEOREM StayedStays == Spec => DeletesOnlyGone
PROOF
  <1>1. ASSUME BasicInv, [Next]_vars, NEW i \in stayed, indexed[i] # 0
        PROVE  indexed'[i] # 0
    <2>0. /\ i \in Items /\ (listed \/ empty) /\ indexed \in Versions
      BY <1>1 DEF BasicInv, StateOK, Belonging
    <2>1. ASSUME NEW s \in Slots, Purge(s) PROVE indexed'[i] # 0
      BY <1>1, <2>0, <2>1, PurgeIs
    <2>2. ASSUME NEW s \in Slots, Index(s) PROVE indexed'[i] # 0
      <3>1. PICK j \in Items : \E x : Becomes(s, x) /\ Indexes(x, jobs[s], j)
        BY <1>1, <2>2, IndexIs
      <3>2. /\ jobs[s].docs[j] # 0
            /\ indexed' = [indexed EXCEPT ![j] =
                 IF kind # "readme" /\ indexed[j] > jobs[s].docs[j] THEN indexed[j]
                                                                    ELSE jobs[s].docs[j]]
        BY <3>1 DEF Indexes
      <3>3. CASE i = j
        BY <1>1, <2>0, <3>2, <3>3 DEF Versions
      <3>4. CASE i # j
        BY <1>1, <2>0, <3>2, <3>4 DEF Versions
      <3>. QED BY <3>3, <3>4
    <2>3. ASSUME NEW s \in Slots, Reconcile(s) PROVE indexed'[i] # 0
      <3>1. indexed' = Read(jobs[s].live, indexed) /\ stayed \subseteq jobs[s].live
        BY <1>1, <2>3, ReconcileIs, JobAt DEF JobOK
      <3>2. PICK live : indexed' = Read(live, indexed) /\ i \in live
        BY <1>1, <3>1
      <3>. QED BY <1>1, <2>0, <3>2, ReadIs
    <2>. QED BY <1>1, <2>1, <2>2, <2>3, IndexedBy
  <1>2. BasicInv /\ [Next]_vars => [\A i \in stayed : indexed[i] # 0 => indexed'[i] # 0]_vars
    BY <1>1
  <1>. QED BY <1>2, BasicHolds, PTL DEF Spec, DeletesOnlyGone

-----------------------------------------------------------------------------
(* What will still reach the index.  A discovery carries every item that   *)
(* it will list, a page those that it holds, that it deletes, or that come *)
(* after it in its list; an item of Dated that nothing carries is so new   *)
(* that the discovery at work, and the next, will list it; but for what    *)
(* has failed for good as it is.                                           *)
Rank(i) == Cardinality(Before(Existing(updated), i))

Ahead(job, i) ==
  job.page = 1 \/ (updated[i] # 0 /\ Rank(i) >= (job.page - 1) * PageSize)

Carries(job, i) ==
  \/ /\ job.type = "discover" /\ job.pc \in {"queued", "dead", "queueing"}
     /\ kind \in Dated => job.full
  \/ /\ job.type = "fetch" /\ job.since <= updated[i] /\ Ahead(job, i)
     /\ \/ job.pc \in {"queued", "dead"}
        \/ job.pc = "indexing" /\ i \notin job.live
        \/ job.pc = "indexing" /\ updated[i] # 0 /\ job.docs[i] = updated[i]
        \/ /\ job.pc \in {"indexing", "following"} /\ job.more
           /\ updated[i] # 0 /\ Rank(i) >= job.page * PageSize

Got(i) == indexed[i] = updated[i] \/ GivenUp(i)

Kept(i) == Got(i) \/ \E s \in Slots : Carries(jobs[s], i)

ToCome(job, i) ==
  /\ job.type = "discover" /\ job.pc = "queueing" => job.since <= updated[i]
  /\ job.type = "discover" /\ job.pc = "saving" => Back(job.started) <= updated[i]

Later(i) ==
  kind \in Dated /\ Back(watermark) <= updated[i] /\ \A s \in Slots : ToCome(jobs[s], i)

Wanted(i) ==
  IF kind \in Dated THEN updated[i] # 0 ELSE kind = "readme" \/ updated[i] \in {0, newest[i]}

Promised == listed /\ IF kind \in Dated THEN ~late /\ ~shifted ELSE settled

KeptInv == Promised => \A i \in Items : Wanted(i) => Kept(i) \/ Later(i)

(* Pages of a run that began alone are of the source as it is.             *)
FreshJob(job) ==
  /\ kind = "file" /\ (job.page # 1 \/ job.pc \in {"indexing", "following"}) =>
       job.pinned = updated
  /\ kind = "readme" => job.page = 1 /\ ~job.more
  /\ Existing(updated) \subseteq job.live
  /\ \A i \in Items : job.docs[i] \in {0, updated[i]}

FreshInv ==
  kind \notin Dated /\ settled /\ listed =>
    \A s \in Slots : jobs[s].type = "fetch" => FreshJob(jobs[s])

(* Nothing is left of a repository that is not listed, if any is.          *)
GoneInv ==
  settled /\ ~listed /\ ~empty =>
    /\ \A s \in Slots : jobs[s].type # "fetch"
    /\ \/ indexed = Nothing
       \/ \E s \in Slots : jobs[s].type = "discover" /\ jobs[s].pc # "done"

LEMMA RankIs ==
  ASSUME BasicInv, NEW i \in Existing(updated)
  PROVE  /\ i \in Items /\ Rank(i) \in Nat /\ Cardinality(Existing(updated)) \in Nat
         /\ Rank(i) < Cardinality(Existing(updated)) /\ updated[i] \in Nat \ {0}
PROOF
  <1>1. updated \in Versions /\ Existing(updated) \in SUBSET Items
    BY DEF BasicInv, StateOK, Existing
  <1>. QED BY <1>1, RankBound DEF Rank, Existing, Versions, Times

LEMMA SameRank ==
  ASSUME kind' = kind, updated' = updated, NEW i \in Items, NEW job
  PROVE  Rank(i)' = Rank(i) /\ Ahead(job, i)' = Ahead(job, i) /\ Carries(job, i)' = Carries(job, i)
PROOF
  <1>1. Existing(updated)' = Existing(updated)
    BY DEF Existing
  <1>2. Before(Existing(updated), i)' = Before(Existing(updated), i)
    BY <1>1 DEF Before, Precedes, NewestFirst
  <1>3. Rank(i)' = Rank(i)
    BY <1>2 DEF Rank
  <1>4. Ahead(job, i)' = Ahead(job, i)
    BY <1>3 DEF Ahead
  <1>5. Carries(job, i)' = Carries(job, i)
    BY <1>3, <1>4 DEF Carries
  <1>. QED BY <1>3, <1>4, <1>5

(* The server leaves out items that are older than since, and so after i.  *)
LEMMA SinceRank ==
  ASSUME BasicInv, kind \in Dated, NEW i \in Existing(updated), NEW since \in Nat,
         since <= updated[i]
  PROVE  LET listing == {j \in Existing(updated) : updated[j] >= since} IN
         i \in listing /\ Cardinality(Before(listing, i)) = Rank(i)
PROOF
  <1> DEFINE listing == {j \in Existing(updated) : updated[j] >= since}
  <1>1. i \in Items /\ \A j \in Items : updated[j] \in Nat
    BY DEF BasicInv, StateOK, Existing, Versions, Times
  <1>2. ASSUME NEW j \in Existing(updated), Precedes(j, i) PROVE j \in listing
    BY <1>1, <1>2 DEF Precedes, NewestFirst, Existing
  <1>3. Before(listing, i) = Before(Existing(updated), i)
    BY <1>2 DEF Before
  <1>4. i \in listing
    BY <1>1
  <1>. HIDE DEF listing
  <1>5. i \in listing /\ Cardinality(Before(listing, i)) = Rank(i)
    BY <1>3, <1>4 DEF Rank
  <1>. QED BY <1>5 DEF listing

(* Where an item is from a page on.                                        *)
LEMMA Placed ==
  ASSUME NEW n \in Nat \ {0}, NEW r \in Nat, n = 1 \/ r >= (n - 1) * PageSize
  PROVE  r \in ((n - 1) * PageSize)..(n * PageSize - 1) \/ r >= n * PageSize
PROOF
  <1> DEFINE a == (n - 1) * PageSize
             b == n * PageSize
  <1>1. a \in Int /\ b \in Int /\ (n = 1 => a = 0) /\ PageSize \in Nat
    BY IngestionAssumption
  <1>2. n = 1 \/ r >= a
    OBVIOUS
  <1>. HIDE DEF a, b
  <1>3. r \in a..(b - 1) \/ r >= b
    BY <1>1, <1>2
  <1>. QED BY <1>3 DEF a, b

(* An item that a queued page would reach is on the page, or after it, and *)
(* then the page has a successor.                                          *)
LEMMA ReadIssue ==
  ASSUME BasicInv, kind = "issue", NEW y \in JobType, NEW x, PageOf(x, y),
         NEW i \in Existing(updated), y.since <= updated[i], Ahead(y, i)
  PROVE  x.docs[i] = updated[i] \/ (x.more /\ Rank(i) >= y.page * PageSize)
PROOF
  <1> DEFINE listing == {j \in Existing(updated) : updated[j] >= y.since}
             page == Page(listing, y.page)
  <1>1. y.page \in Nat \ {0} /\ y.since \in Nat
    BY DEF JobType
  <1>2. updated \in Versions /\ listing \in SUBSET Items
    BY DEF BasicInv, StateOK, Existing
  <1>3. i \in listing /\ Cardinality(Before(listing, i)) = Rank(i)
    BY <1>1, SinceRank DEF Dated
  <1>4. i \in Items /\ Rank(i) \in Nat
    BY RankIs
  <1>5. x.docs = Read(page, updated) /\ x.more = (Cardinality(page) = PageSize)
    BY DEF PageOf
  <1>6. i \in listing /\ (Rank(i) \in ((y.page - 1) * PageSize)..(y.page * PageSize - 1) => i \in page)
    <2>. HIDE DEF listing
    <2>. QED BY <1>3 DEF Page
  <1>7. Rank(i) >= y.page * PageSize => Cardinality(page) = PageSize
    <2>. HIDE DEF listing
    <2>. QED BY <1>1, <1>2, <1>3, PageFull
  <1>. HIDE DEF listing, page
  <1>8. i \in page => x.docs[i] = updated[i]
    BY <1>2, <1>4, <1>5, ReadIs
  <1>9. Rank(i) \in ((y.page - 1) * PageSize)..(y.page * PageSize - 1) \/ Rank(i) >= y.page * PageSize
    BY <1>1, <1>4, Placed DEF Ahead
  <1>. QED BY <1>5, <1>6, <1>7, <1>8, <1>9

LEMMA ReadPulls ==
  ASSUME BasicInv, kind = "pr", NEW y \in JobType, NEW x, PageOf(x, y),
         NEW i \in Existing(updated), y.since <= updated[i], Ahead(y, i)
  PROVE  x.docs[i] = updated[i] \/ (x.more /\ Rank(i) >= y.page * PageSize)
PROOF
  <1> DEFINE listing == Existing(updated)
             page == Page(listing, y.page)
             fresh == {j \in page : updated[j] >= y.since}
  <1>1. y.page \in Nat \ {0} /\ y.since \in Nat
    BY DEF JobType
  <1>2. /\ updated \in Versions /\ listing \in SUBSET Items
        /\ \A j \in listing : updated[j] \in Nat
    BY DEF BasicInv, StateOK, Existing, Versions, Times
  <1>3. i \in listing /\ \A j \in listing : Cardinality(Before(listing, j)) = Rank(j)
    BY DEF Rank
  <1>4. i \in Items /\ \A j \in listing : Rank(j) \in Nat
    BY RankIs
  <1>5. x.docs = Read(fresh, updated) /\ x.more = (Cardinality(page) = PageSize /\ fresh = page)
    BY DEF PageOf
  <1>. HIDE DEF listing
  <1>6. Rank(i) \in ((y.page - 1) * PageSize)..(y.page * PageSize - 1) => i \in page
    BY <1>3 DEF Page
  <1>7. Rank(i) >= y.page * PageSize => Cardinality(page) = PageSize
    BY <1>1, <1>2, <1>3, PageFull
  <1>8. page \subseteq listing /\ \A j \in page : Rank(j) <= y.page * PageSize - 1
    BY <1>1, <1>3, <1>4, IngestionAssumption DEF Page
  <1>9. ASSUME Rank(i) >= y.page * PageSize PROVE fresh = page
    <2>1. ASSUME NEW j \in page PROVE updated[j] >= y.since
      <3>1. PICK b \in Int : b = y.page * PageSize
        BY <1>1, IngestionAssumption
      <3>0. Rank(j) \in Nat /\ Rank(i) \in Nat /\ Rank(j) <= b - 1 /\ Rank(i) >= b
        BY <1>3, <1>4, <1>8, <1>9, <2>1, <3>1
      <3>2. Rank(j) < Rank(i)
        BY <3>0
      <3>3. j \in listing /\ j # i /\ ~(Rank(i) < Rank(j))
        BY <1>3, <1>4, <1>8, <2>1, <3>2
      <3>4. ~Precedes(i, j)
        BY <1>2, <1>3, <3>3, RanksRise
      <3>5. Precedes(j, i)
        BY <1>2, <1>3, <3>3, <3>4, Ordered
      <3>6. updated[j] >= updated[i]
        BY <1>2, <1>3, <3>3, <3>5 DEF Precedes, NewestFirst, Dated
      <3>. QED BY <1>1, <1>2, <1>3, <3>3, <3>6
    <2>. QED BY <2>1
  <1>10. i \in page => i \in fresh
    OBVIOUS
  <1>. HIDE DEF page, fresh
  <1>11. i \in fresh => x.docs[i] = updated[i]
    BY <1>2, <1>4, <1>5, ReadIs
  <1>12. Rank(i) \in ((y.page - 1) * PageSize)..(y.page * PageSize - 1) \/ Rank(i) >= y.page * PageSize
    BY <1>1, <1>3, <1>4, Placed DEF Ahead
  <1>. QED BY <1>5, <1>6, <1>7, <1>9, <1>10, <1>11, <1>12

LEMMA ReadFiles ==
  ASSUME BasicInv, kind = "file", settled', NEW y \in JobType, FreshJob(y), NEW x, PageOf(x, y),
         NEW i \in Items, Ahead(y, i)
  PROVE  \/ i \notin x.live
         \/ updated[i] # 0 /\ x.docs[i] = updated[i]
         \/ x.more /\ updated[i] # 0 /\ Rank(i) >= y.page * PageSize
         \/ indexed[i] = updated[i]
PROOF
  <1> DEFINE listing == Existing(updated)
             page == Page(listing, y.page)
             fresh == {j \in page : indexed[j] # updated[j]}
             N == Cardinality(listing)
  <1>1. y.page \in Nat \ {0}
    BY DEF JobType
  <1>2. updated = IF y.page = 1 THEN updated ELSE y.pinned
    BY DEF FreshJob
  <1>3. /\ x.live = IF y.page = 1 THEN listing ELSE Items
        /\ x.docs = Read(fresh, updated)
        /\ x.more = (y.page * PageSize < N)
    <2>1. PICK tree : tree = IF y.page = 1 THEN updated ELSE y.pinned
      OBVIOUS
    <2>2. tree = updated
      BY <1>2, <2>1
    <2>. QED BY <2>1, <2>2 DEF PageOf
  <1>4. updated \in Versions
    BY DEF BasicInv, StateOK
  <1>5. CASE updated[i] = 0
    <2>1. y.page = 1 /\ i \notin listing
      BY <1>5 DEF Ahead, Existing
    <2>. QED BY <1>3, <2>1
  <1>6. CASE updated[i] # 0
    <2>1. i \in listing /\ Cardinality(Before(listing, i)) = Rank(i)
      BY <1>6 DEF Existing, Rank
    <2>2. Rank(i) \in Nat /\ N \in Nat /\ Rank(i) < N
      BY <2>1, RankIs
    <2>3. Rank(i) \in ((y.page - 1) * PageSize)..(y.page * PageSize - 1) \/ Rank(i) >= y.page * PageSize
      BY <1>1, <1>6, <2>2, Placed DEF Ahead
    <2>. HIDE DEF listing, N
    <2>4. Rank(i) \in ((y.page - 1) * PageSize)..(y.page * PageSize - 1) => i \in page
      BY <2>1 DEF Page
    <2>5. i \in page => i \in fresh \/ indexed[i] = updated[i]
      OBVIOUS
    <2>. HIDE DEF page, fresh
    <2>6. i \in fresh => x.docs[i] = updated[i]
      BY <1>3, <1>4, ReadIs
    <2>7. Rank(i) >= y.page * PageSize => x.more
      <3>1. PICK b \in Int : b = y.page * PageSize
        BY <1>1, IngestionAssumption
      <3>2. Rank(i) >= b => b < N
        BY <2>2
      <3>3. x.more = (b < N)
        BY <1>3, <3>1
      <3>. QED BY <3>1, <3>2, <3>3
    <2>. QED BY <1>6, <2>3, <2>4, <2>5, <2>6, <2>7
  <1>. QED BY <1>5, <1>6

LEMMA ReadReadme ==
  ASSUME BasicInv, kind = "readme", NEW y, NEW x, PageOf(x, y), NEW i \in Items
  PROVE  \/ i \notin x.live
         \/ updated[i] # 0 /\ x.docs[i] = updated[i]
         \/ indexed[i] = updated[i]
PROOF
  <1>1. x.docs = updated /\ x.live = (IF Existing(updated) = {} THEN {} ELSE Items)
    BY DEF PageOf
  <1>2. CASE Existing(updated) = {}
    BY <1>1, <1>2
  <1>3. CASE Existing(updated) # {}
    <2>1. \A j \in Items : j # 1 => updated[j] = 0 /\ indexed[j] = 0
      BY DEF BasicInv, VersionsOK
    <2>2. updated[1] # 0
      BY <1>3, <2>1 DEF Existing
    <2>. QED BY <1>1, <2>1, <2>2
  <1>. QED BY <1>2, <1>3

LEMMA Reads ==
  ASSUME BasicInv, NEW y \in JobType, JobOK(y), y.type = "fetch", y.pc = "queued",
         NEW x \in JobType, JobOK(x), PageOf(x, y), NEW i \in Items, Carries(y, i), Wanted(i),
         kind \notin Dated => settled' /\ FreshJob(y)
  PROVE  Carries(x, i) \/ indexed[i] = updated[i]
PROOF
  <1>1. /\ y.since <= updated[i] /\ Ahead(y, i) /\ x.type = "fetch" /\ x.pc = "indexing"
        /\ x.page = y.page /\ x.since = y.since
    BY DEF Carries, PageOf
  <1>2. Ahead(x, i)
    BY <1>1 DEF Ahead
  <1>3. CASE kind \in Dated
    <2>1. updated[i] # 0 /\ i \in Existing(updated)
      BY <1>3 DEF Wanted, Existing
    <2>2. x.docs[i] = updated[i] \/ (x.more /\ Rank(i) >= y.page * PageSize)
      BY <1>1, <1>3, <2>1, ReadIssue, ReadPulls DEF Dated
    <2>. QED BY <1>1, <1>2, <2>1, <2>2 DEF Carries
  <1>4. CASE kind = "file"
    BY <1>1, <1>2, <1>4, ReadFiles DEF Carries, Dated
  <1>5. CASE kind = "readme"
    BY <1>1, <1>2, <1>5, ReadReadme DEF Carries
  <1>. QED BY <1>3, <1>4, <1>5 DEF BasicInv, StateOK, Dated

-----------------------------------------------------------------------------
(* What is carried stays carried.                                          *)
LEMMA GotStays ==
  ASSUME updated' = updated, indexed' = indexed, failed' = failed, NEW i
  PROVE  Got(i) => Got(i)'
  BY DEF Got, GivenUp

LEMMA KeptOn ==
  ASSUME kind' = kind, updated' = updated, NEW i \in Items, Kept(i),
         Got(i) => Got(i)',
         \A r \in Slots : Carries(jobs[r], i) =>
           Got(i)' \/ \E q \in Slots : Carries(jobs'[q], i)
  PROVE  Kept(i)'
PROOF
  <1>1. CASE Got(i)'
    BY <1>1 DEF Kept
  <1>2. CASE ~Got(i)'
    <2>1. PICK q \in Slots : Carries(jobs'[q], i)
      BY <1>2 DEF Kept
    <2>2. PICK y : y = jobs'[q]
      OBVIOUS
    <2>3. Carries(y, i)'
      BY <2>1, <2>2, SameRank
    <2>4. Carries(jobs[q], i)'
      BY <2>2, <2>3
    <2>. QED BY <2>4 DEF Kept
  <1>. QED BY <1>1, <1>2

LEMMA LaterOn ==
  ASSUME kind' = kind, updated' = updated, NEW i \in Items, Later(i),
         Back(watermark') <= updated[i], \A r \in Slots : ToCome(jobs'[r], i)
  PROVE  Later(i)'
PROOF
  <1>1. ASSUME NEW r \in Slots PROVE ToCome(jobs[r], i)'
    BY DEF ToCome, Back
  <1>2. Back(watermark)' = Back(watermark')
    BY DEF Back
  <1>. QED BY <1>1, <1>2 DEF Later

LEMMA FreeIs ==
  ASSUME BasicInv, NEW t \in Slots, Free(t), NEW i
  PROVE  ~Carries(jobs[t], i) /\ ToCome(jobs[t], i) /\ jobs[t].type = "none"
PROOF
  <1>1. PICK y : y = jobs[t] /\ y.type = "none"
    BY NoJobOK DEF Free, BasicInv
  <1>2. ~Carries(y, i) /\ ToCome(y, i)
    BY <1>1 DEF Carries, ToCome
  <1>. QED BY <1>1, <1>2

LEMMA OneKept ==
  ASSUME BasicInv, kind' = kind, updated' = updated, NEW s \in Slots, NEW x, Becomes(s, x),
         NEW i \in Items, Kept(i) \/ Later(i),
         Got(i) => Got(i)',
         Carries(jobs[s], i) => Carries(x, i) \/ Got(i)',
         Later(i) => Carries(x, i) \/ (Back(watermark') <= updated[i] /\ ToCome(x, i))
  PROVE  Kept(i)' \/ Later(i)'
PROOF
  <1>1. jobs'[s] = x /\ \A r \in Slots : r # s => jobs'[r] = jobs[r]
    BY DEF Becomes, BasicInv, JobsOK
  <1>2. CASE Kept(i)
    <2>1. ASSUME NEW r \in Slots, Carries(jobs[r], i)
          PROVE  Got(i)' \/ \E q \in Slots : Carries(jobs'[q], i)
      <3>1. CASE r = s
        BY <1>1, <2>1, <3>1
      <3>2. CASE r # s
        <4>1. jobs'[r] = jobs[r]
          BY <1>1, <3>2
        <4>. QED BY <2>1, <4>1
      <3>. QED BY <3>1, <3>2
    <2>. QED BY <1>2, <2>1, KeptOn
  <1>3. CASE Later(i) /\ ~Kept(i)
    <2>1. CASE Carries(x, i)
      <3>1. Carries(x, i)'
        BY <2>1, SameRank
      <3>2. Carries(jobs[s], i)'
        BY <1>1, <3>1
      <3>. QED BY <3>2 DEF Kept
    <2>2. CASE Back(watermark') <= updated[i] /\ ToCome(x, i)
      <3>1. ASSUME NEW r \in Slots PROVE ToCome(jobs'[r], i)
        <4>1. CASE r = s
          BY <1>1, <2>2, <4>1
        <4>2. CASE r # s
          <5>1. jobs'[r] = jobs[r]
            BY <1>1, <4>2
          <5>. QED BY <1>3, <5>1 DEF Later
        <4>. QED BY <4>1, <4>2
      <3>. QED BY <1>3, <2>2, <3>1, LaterOn
    <2>. QED BY <1>3, <2>1, <2>2
  <1>. QED BY <1>2, <1>3

LEMMA TwoKept ==
  ASSUME BasicInv, kind' = kind, updated' = updated, NEW s \in Slots, NEW x, NEW t, NEW z,
         Become(s, x, t, z), NEW i \in Items, Kept(i) \/ Later(i),
         indexed' = indexed, failed' = failed, watermark' = watermark,
         Carries(jobs[s], i) => Carries(z, i),
         Later(i) => Carries(z, i) \/ (ToCome(x, i) /\ ToCome(z, i))
  PROVE  Kept(i)' \/ Later(i)'
PROOF
  <1>1. /\ jobs'[s] = x /\ jobs'[t] = z /\ t \in Slots /\ t # s /\ Free(t)
        /\ \A r \in Slots : r # s /\ r # t => jobs'[r] = jobs[r]
    BY DEF Become, BasicInv, JobsOK
  <1>2. CASE Carries(z, i)
    <2>1. Carries(z, i)'
      BY <1>2, SameRank
    <2>2. Carries(jobs[t], i)'
      BY <1>1, <2>1
    <2>. QED BY <1>1, <2>2 DEF Kept
  <1>3. CASE ~Carries(z, i) /\ Kept(i)
    <2>1. ASSUME NEW r \in Slots, Carries(jobs[r], i)
          PROVE  Got(i)' \/ \E q \in Slots : Carries(jobs'[q], i)
      <3>1. r # s /\ r # t
        BY <1>1, <1>3, <2>1, FreeIs
      <3>2. jobs'[r] = jobs[r]
        BY <1>1, <3>1
      <3>. QED BY <2>1, <3>2
    <2>. QED BY <1>3, <2>1, KeptOn, GotStays
  <1>4. CASE ~Carries(z, i) /\ Later(i)
    <2>1. ASSUME NEW r \in Slots PROVE ToCome(jobs'[r], i)
      <3>1. CASE r = s
        BY <1>1, <1>4, <3>1
      <3>2. CASE r = t
        BY <1>1, <1>4, <3>2
      <3>3. CASE r # s /\ r # t
        <4>1. jobs'[r] = jobs[r]
          BY <1>1, <3>3
        <4>. QED BY <1>4, <4>1 DEF Later
      <3>. QED BY <3>1, <3>2, <3>3
    <2>. QED BY <1>4, <2>1, LaterOn DEF Later, Back
  <1>. QED BY <1>2, <1>3, <1>4

(* A job that is in the queue again carries what it carried.               *)
LEMMA AgainCarries ==
  ASSUME NEW x, NEW y, Again(x, y), NEW i
  PROVE  (Carries(y, i) => Carries(x, i)) /\ ToCome(x, i)
PROOF
  <1>1. y.type = "fetch" /\ Ahead(y, i) => Ahead(x, i)
    BY DEF Again, Ahead
  <1>. QED BY <1>1 DEF Again, Carries, ToCome

LEMMA BeginKept ==
  ASSUME BasicInv, KeptInv, NEW s \in Slots, Begin(s), Promised', NEW i \in Items, Wanted(i)
  PROVE  Kept(i)' \/ Later(i)'
PROOF
  <1>0. ~empty
    BY DEF Begin, Promised, source, BasicInv, StateOK
  <1>1. PICK y : y = jobs[s] /\ y \in JobType /\ JobOK(y) /\ y.type = "discover" /\ y.pc = "queued"
    BY <1>0, BeginIs, JobAt
  <1>2. PICK x : /\ Becomes(s, x) /\ x.type = "discover" /\ x.pc = "queueing" /\ x.full = y.full
                 /\ x.since = IF y.full THEN 0 ELSE Back(watermark)
    BY <1>0, <1>1, BeginIs
  <1>3. /\ kind' = kind /\ updated' = updated /\ indexed' = indexed /\ watermark' = watermark
        /\ listed' = listed /\ shifted' = shifted /\ failed' = failed
        /\ late' = (late /\ ~(y.full /\ Others(s) = {}))
    BY <1>0, <1>1 DEF Begin, source
  <1>4. CASE Carries(x, i)
    <2>1. Carries(x, i)'
      BY <1>3, <1>4, SameRank
    <2>2. jobs'[s] = x
      BY <1>2 DEF Becomes, BasicInv, JobsOK
    <2>3. Carries(jobs[s], i)'
      BY <2>1, <2>2
    <2>. QED BY <2>3 DEF Kept
  <1>5. CASE ~Carries(x, i)
    <2>1. kind \in Dated /\ ~y.full
      BY <1>2, <1>5 DEF Carries
    <2>2. Promised
      BY <1>3, <2>1 DEF Promised, BasicInv, StateOK
    <2>3. Kept(i) \/ Later(i)
      BY <2>2 DEF KeptInv
    <2>4. ~Carries(y, i)
      BY <1>1, <2>1 DEF Carries
    <2>5. Later(i) => Back(watermark') <= updated[i] /\ ToCome(x, i)
      BY <1>2, <1>3, <2>1 DEF Later, ToCome
    <2>. QED BY <1>1, <1>2, <1>3, <2>3, <2>4, <2>5, OneKept, GotStays
  <1>. QED BY <1>4, <1>5

LEMMA DiscoveryKept ==
  ASSUME BasicInv, NEW s \in Slots, Discovery(s), ~Begin(s), listed,
         NEW i \in Items, Kept(i) \/ Later(i)
  PROVE  Kept(i)' \/ Later(i)'
PROOF
  <1>. USE DEF source, history
  <1>0. PICK y : y = jobs[s] /\ y \in JobType /\ JobOK(y)
    BY JobAt
  <1>00. Later(i) => Back(watermark) <= updated[i] /\ ToCome(y, i)
    BY <1>0 DEF Later
  <1>1. CASE Discover(s)
    <2>1. kind' = kind /\ updated' = updated /\ indexed' = indexed /\ watermark' = watermark
          /\ failed' = failed
      BY <1>1 DEF Discover
    <2>2. PICK x : Becomes(s, x) /\ x.type = "discover" /\ x.pc = "queued"
      BY <1>1, DiscoverIs
    <2>3. ~Carries(y, i) /\ ToCome(x, i)
      BY <1>0, <1>1, <2>2, DiscoverIs, FreeIs DEF ToCome
    <2>. QED BY <1>0, <1>00, <2>1, <2>2, <2>3, OneKept, GotStays
  <1>2. CASE QueueJobs(s)
    <2>1. kind' = kind /\ updated' = updated /\ indexed' = indexed /\ watermark' = watermark
          /\ failed' = failed
      BY <1>2 DEF QueueJobs
    <2>2. y.type = "discover" /\ y.pc = "queueing"
      BY <1>0, <1>2, QueueJobsIs
    <2>0. PICK x : /\ x.type = "discover" /\ x.pc = "saving" /\ x.started = jobs[s].started
                   /\ \/ ~listed /\ Becomes(s, x)
                      \/ \E t, z : /\ listed /\ Become(s, x, t, z)
                                   /\ z.type = "fetch" /\ z.pc = "queued" /\ z.page = 1 /\ ~z.more
                                   /\ z.since = IF kind \in Dated THEN jobs[s].since ELSE 0
                                   /\ z.live = Items /\ z.docs = Nothing
      BY <1>2, QueueJobsIs
    <2>3. PICK t, z : /\ Become(s, x, t, z)
                      /\ z.type = "fetch" /\ z.pc = "queued" /\ z.page = 1
                      /\ z.since = IF kind \in Dated THEN y.since ELSE 0
      BY <1>0, <2>0
    <2>4. updated[i] \in Nat
      BY DEF BasicInv, StateOK, Versions, Times
    <2>5. Carries(y, i) \/ Later(i) => z.since <= updated[i]
      BY <1>0, <1>00, <2>2, <2>3, <2>4 DEF Carries, Later, ToCome, JobOK
    <2>6. Carries(y, i) \/ Later(i) => Carries(z, i)
      BY <2>3, <2>5 DEF Carries, Ahead
    <2>. QED BY <1>0, <2>1, <2>3, <2>6, TwoKept
  <1>3. CASE SaveWatermark(s)
    <2>1. kind' = kind /\ updated' = updated /\ indexed' = indexed /\ failed' = failed
      BY <1>3 DEF SaveWatermark
    <2>2. y.type = "discover" /\ y.pc = "saving" /\ watermark' = y.started
      BY <1>0, <1>3, SaveWatermarkIs
    <2>3. PICK x : Becomes(s, x) /\ x.type = "discover" /\ x.pc = "purging"
      BY <1>3, SaveWatermarkIs
    <2>4. ~Carries(y, i) /\ ToCome(x, i)
      BY <2>2, <2>3 DEF Carries, ToCome
    <2>5. Later(i) => Back(watermark') <= updated[i]
      BY <1>00, <2>2 DEF ToCome
    <2>. QED BY <1>0, <2>1, <2>3, <2>4, <2>5, OneKept, GotStays
  <1>4. CASE Purge(s)
    <2>1. kind' = kind /\ updated' = updated /\ watermark' = watermark /\ failed' = failed
      BY <1>4 DEF Purge
    <2>2. y.type = "discover" /\ y.pc = "purging" /\ indexed' = indexed
      BY <1>0, <1>4, PurgeIs
    <2>3. PICK x : Becomes(s, x) /\ x.type = "discover" /\ x.pc = "done"
      BY <1>4, PurgeIs
    <2>4. ~Carries(y, i) /\ ToCome(x, i)
      BY <2>2, <2>3 DEF Carries, ToCome
    <2>. QED BY <1>0, <1>00, <2>1, <2>2, <2>3, <2>4, OneKept, GotStays
  <1>. QED BY <1>1, <1>2, <1>3, <1>4 DEF Discovery

LEMMA WorkerKept ==
  ASSUME BasicInv, FreshInv, NEW s \in Slots, Worker(s), Promised', NEW i \in Items, Wanted(i),
         Kept(i) \/ Later(i)
  PROVE  Kept(i)' \/ Later(i)'
PROOF
  <1>. USE DEF source, history
  <1>0. PICK y : y = jobs[s] /\ y \in JobType /\ JobOK(y)
    BY JobAt
  <1>1. /\ kind' = kind /\ updated' = updated /\ watermark' = watermark /\ listed' = listed
        /\ listed
    BY DEF Worker, Fetch, Index, GiveUp, Reconcile, Follow, Complete, Promised
  <1>2. settled' => settled
    BY FetchIs DEF Worker, Index, GiveUp, Reconcile, Follow, Complete
  <1>3. Later(i) => kind \in Dated /\ Back(watermark') <= updated[i]
    BY <1>1 DEF Later
  <1>4. kind \notin Dated /\ y.type = "fetch" => settled' /\ FreshJob(y)
    BY <1>0, <1>1, <1>2 DEF Promised, FreshInv
  <1>5. ASSUME NEW x, x.type = "fetch" PROVE ToCome(x, i)
    BY <1>5 DEF ToCome
  <1>6. CASE Fetch(s)
    <2>1. indexed' = indexed /\ failed' = failed /\ y.type = "fetch" /\ y.pc = "queued"
      BY <1>0, <1>6, FetchIs DEF Fetch
    <2>2. PICK x : Becomes(s, x) /\ PageOf(x, y)
      BY <1>0, <1>6, FetchIs
    <2>3. x \in JobType /\ JobOK(x) /\ x.type = "fetch"
      BY <2>2 DEF Becomes, PageOf
    <2>4. Carries(y, i) => Carries(x, i) \/ Got(i)'
      BY <1>0, <1>1, <1>4, <2>1, <2>2, <2>3, Reads DEF Got
    <2>. QED BY <1>0, <1>1, <1>3, <1>5, <2>1, <2>2, <2>3, <2>4, OneKept, GotStays
  <1>7. CASE Index(s)
    <2>1. y.type = "fetch" /\ y.pc = "indexing"
      BY <1>0, <1>7, IndexIs
    <2>2. PICK j \in Items : \E x : Becomes(s, x) /\ Indexes(x, y, j)
      BY <1>0, <1>7, IndexIs
    <2>3. PICK x : Becomes(s, x) /\ Indexes(x, y, j)
      BY <2>2
    <2>4. CASE i # j
      <3>1. x.docs[i] = y.docs[i] /\ indexed'[i] = indexed[i]
        BY <2>3, <2>4, SameIndex DEF Indexes, Versions
      <3>2. Carries(y, i) => Carries(x, i)
        BY <2>1, <2>3, <3>1 DEF Indexes, Carries, Ahead
      <3>3. Got(i) => Got(i)'
        BY <1>1, <2>3, <2>4, <3>1 DEF Indexes, Got, GivenUp
      <3>. QED BY <1>0, <1>1, <1>3, <1>5, <2>3, <3>2, <3>3, OneKept DEF Indexes
    <2>5. CASE i = j
      <3>1. indexed'[i] = IF kind # "readme" /\ indexed[i] > y.docs[i] THEN indexed[i] ELSE y.docs[i]
        BY <2>3, <2>5, SameIndex DEF Indexes, Versions
      <3>2. /\ indexed[i] \in Nat /\ updated[i] \in Nat /\ newest[i] \in Nat /\ y.docs[i] \in Nat
            /\ indexed[i] <= newest[i] /\ y.docs[i] <= newest[i] /\ y.docs[i] # 0
        BY <1>0, <2>3, <2>5, SameIndex
          DEF BasicInv, StateOK, Versions, Times, JobOK, Indexes
      <3>3. kind \in Dated => updated[i] = newest[i]
        BY DEF Wanted, BasicInv, VersionsOK
      <3>4. kind \notin Dated => y.docs[i] = updated[i] /\ (kind = "readme" \/ updated[i] = newest[i])
        BY <1>4, <2>1, <3>2 DEF FreshJob, Wanted
      <3>5. /\ kind \notin Dated => indexed'[i] = updated[i]
            /\ y.docs[i] = updated[i] => indexed'[i] = updated[i]
            /\ indexed[i] = updated[i] => indexed'[i] = updated[i]
        <4>. HIDE DEF Wanted
        <4>1. CASE kind \in Dated
          BY <3>1, <3>2, <3>3, <4>1 DEF Dated
        <4>2. CASE kind \notin Dated
          BY <3>1, <3>2, <3>4, <4>2
        <4>. QED BY <4>1, <4>2
      <3>6. /\ x.type = "fetch" /\ x.pc = "indexing" /\ x.since = y.since /\ x.page = y.page
            /\ x.live = y.live /\ x.more = y.more
        BY <2>3 DEF Indexes
      <3>7. Carries(y, i) => Carries(x, i) \/ indexed'[i] = updated[i]
        BY <2>1, <3>5, <3>6 DEF Carries, Ahead
      <3>8. Got(i) => Got(i)'
        BY <1>1, <2>3, <2>5, <3>5 DEF Indexes, Got, GivenUp
      <3>9. Carries(y, i) => Carries(x, i) \/ Got(i)'
        BY <1>1, <3>7 DEF Got
      <3>. QED BY <1>0, <1>1, <1>3, <1>5, <2>3, <3>6, <3>8, <3>9, OneKept
    <2>. QED BY <2>4, <2>5
  <1>8. CASE Reconcile(s)
    <2>1. /\ y.type = "fetch" /\ y.pc = "indexing" /\ y.docs[i] = 0
          /\ indexed' = Read(y.live, indexed)
      BY <1>0, <1>8, ReconcileIs
    <2>2. PICK x : /\ Becomes(s, x) /\ x.type = "fetch" /\ x.pc = "following"
                   /\ x.since = y.since /\ x.page = y.page /\ x.more = y.more
      BY <1>0, <1>8, ReconcileIs
    <2>3. indexed'[i] = IF i \in y.live THEN indexed[i] ELSE 0
      BY <2>1, SameIndex, ReadIs
    <2>4. i \notin y.live => updated[i] = 0
      BY <1>0, <1>4, <2>1 DEF FreshJob, JobOK, Existing
    <2>5. Carries(y, i) => Carries(x, i) \/ indexed'[i] = updated[i]
      BY <2>1, <2>2, <2>3, <2>4 DEF Carries, Ahead
    <2>6. indexed[i] = updated[i] => indexed'[i] = updated[i]
      BY <2>3, <2>4
    <2>7. failed' = failed
      BY <1>8 DEF Reconcile
    <2>8. (Got(i) => Got(i)') /\ (Carries(y, i) => Carries(x, i) \/ Got(i)')
      BY <1>1, <2>5, <2>6, <2>7 DEF Got, GivenUp
    <2>. QED BY <1>0, <1>1, <1>3, <1>5, <2>2, <2>8, OneKept
  <1>9. CASE Follow(s)
    <2>1. /\ y.type = "fetch" /\ y.pc = "following" /\ y.page \in Nat \ {0}
          /\ indexed' = indexed /\ failed' = failed
      BY <1>0, <1>9, FollowIs DEF Follow, JobType
    <2>2. PICK x : /\ Moves(x, y, "done")
                   /\ \/ ~y.more /\ Becomes(s, x)
                      \/ \E t, z : /\ y.more /\ Become(s, x, t, z)
                                   /\ z.type = "fetch" /\ z.pc = "queued"
                                   /\ z.page = y.page + 1 /\ z.page # 1
                                   /\ z.since = y.since /\ z.pinned = y.pinned
                                   /\ z.docs = Nothing /\ z.live = Items /\ ~z.more
      BY <1>0, <1>9, FollowIs
    <2>3. x.type = "fetch"
      BY <2>1, <2>2 DEF Moves
    <2>4. CASE ~y.more /\ Becomes(s, x)
      <3>1. ~Carries(y, i)
        BY <2>1, <2>4 DEF Carries
      <3>. QED BY <1>0, <1>1, <1>3, <1>5, <2>1, <2>3, <2>4, <3>1, OneKept, GotStays
    <2>5. ASSUME NEW t, NEW z, Become(s, x, t, z), z.type = "fetch", z.pc = "queued",
                 z.page = y.page + 1, z.since = y.since
          PROVE  Kept(i)' \/ Later(i)'
      <3>1. z.page - 1 = y.page
        BY <2>1, <2>5
      <3>2. Carries(y, i) => Carries(z, i)
        BY <2>1, <2>5, <3>1 DEF Carries, Ahead
      <3>. QED BY <1>0, <1>1, <1>5, <2>1, <2>3, <2>5, <3>2, TwoKept
    <2>. QED BY <2>2, <2>4, <2>5
  <1>10. CASE Complete(s)
    <2>1. y.pc = "done" /\ indexed' = indexed /\ failed' = failed /\ Becomes(s, NoJob)
      BY <1>0, <1>10, CompleteIs DEF Complete
    <2>2. ~Carries(y, i)
      BY <2>1 DEF Carries
    <2>3. ToCome(NoJob, i)
      BY NoJobOK DEF ToCome, BasicInv
    <2>. QED BY <1>0, <1>1, <1>3, <2>1, <2>2, <2>3, OneKept, GotStays
  <1>11. CASE GiveUp(s)
    <2>1. y.type = "fetch" /\ y.pc = "indexing" /\ indexed' = indexed
      BY <1>0, <1>11, GiveUpIs
    <2>2. PICK j \in Items : \E x : Becomes(s, x) /\ Drops(x, y, j)
      BY <1>0, <1>11, GiveUpIs
    <2>3. PICK x : Becomes(s, x) /\ Drops(x, y, j)
      BY <2>2
    <2>4. /\ x.type = "fetch" /\ x.pc = "indexing" /\ x.since = y.since /\ x.page = y.page
          /\ x.live = y.live /\ x.more = y.more /\ (i # j => x.docs[i] = y.docs[i])
          /\ failed' = failed \cup {<<j, y.docs[j]>>}
      BY <2>3 DEF Drops
    <2>5. Got(i) => Got(i)'
      BY <1>1, <2>1, <2>4 DEF Got, GivenUp
    <2>6. i = j /\ updated[i] # 0 /\ y.docs[i] = updated[i] => Got(i)'
      BY <1>1, <2>4 DEF Got, GivenUp
    <2>7. Carries(y, i) => Carries(x, i) \/ Got(i)'
      BY <2>1, <2>4, <2>6 DEF Carries, Ahead
    <2>. QED BY <1>0, <1>1, <1>3, <1>5, <2>3, <2>4, <2>5, <2>7, OneKept
  <1>. QED BY <1>6, <1>7, <1>8, <1>9, <1>10, <1>11 DEF Worker

LEMMA TroubleKept ==
  ASSUME BasicInv, NEW s \in Slots, Trouble(s), NEW i \in Items, Kept(i) \/ Later(i)
  PROVE  Kept(i)' \/ Later(i)'
PROOF
  <1>0. PICK y : y = jobs[s]
    OBVIOUS
  <1>1. /\ kind' = kind /\ updated' = updated /\ watermark' = watermark /\ indexed' = indexed
        /\ failed' = failed
    BY DEF Trouble, Fails, RateLimited, Revive, Duplicate, source, history
  <1>2. Later(i) => Back(watermark') <= updated[i]
    BY <1>1 DEF Later
  <1>3. ASSUME \E x : Becomes(s, x) /\ Again(x, y) PROVE Kept(i)' \/ Later(i)'
    <2>1. PICK x : Becomes(s, x) /\ Again(x, y)
      BY <1>3
    <2>2. (Carries(y, i) => Carries(x, i)) /\ ToCome(x, i)
      BY <2>1, AgainCarries
    <2>. QED BY <1>0, <1>1, <1>2, <2>1, <2>2, OneKept, GotStays
  <1>4. CASE Fails(s)
    BY <1>0, <1>3, <1>4, FailsIs
  <1>5. CASE Revive(s)
    BY <1>0, <1>3, <1>5, ReviveIs
  <1>6. CASE RateLimited(s)
    <2>1. ASSUME NEW x, NEW t, NEW z, Become(s, x, t, z), Moves(x, y, "done"), Again(z, y)
          PROVE  Kept(i)' \/ Later(i)'
      <3>1. (Carries(y, i) => Carries(z, i)) /\ ToCome(z, i) /\ ToCome(x, i)
        BY <2>1, AgainCarries DEF Moves, ToCome
      <3>. QED BY <1>0, <1>1, <2>1, <3>1, TwoKept
    <2>2. PICK x : \/ Becomes(s, x) /\ Again(x, y)
                   \/ \E t, z : /\ Become(s, x, t, z) /\ Moves(x, y, "done")
                                /\ Again(z, y) /\ z.pc = "queued"
      BY <1>0, <1>6, RateLimitedIs
    <2>. QED BY <1>3, <2>1, <2>2
  <1>7. ASSUME NEW t \in Slots, Duplicate(s, t) PROVE Kept(i)' \/ Later(i)'
    <2>1. Free(t) /\ y.pc = "queued" /\ Becomes(t, y)
      BY <1>0, <1>7, DuplicateIs
    <2>2. ~Carries(jobs[t], i) /\ ToCome(y, i)
      BY <2>1, FreeIs DEF ToCome
    <2>. QED BY <1>1, <1>2, <2>1, <2>2, OneKept, GotStays
  <1>. QED BY <1>4, <1>5, <1>6, <1>7 DEF Trouble

LEMMA CrashKept ==
  ASSUME BasicInv, BasicInv', Crash, NEW i \in Items, Kept(i) \/ Later(i)
  PROVE  Kept(i)' \/ Later(i)'
PROOF
  <1>1. /\ kind' = kind /\ updated' = updated /\ watermark' = watermark /\ indexed' = indexed
        /\ failed' = failed
        /\ UNCHANGED World /\ UNCHANGED <<settled, late, runs>> /\ events' = events + 1
    BY DEF Crash, source, history, Event, World
  <1>2. StateOK' /\ Grows
    BY <1>1, SameIndex, Steady
  <1>3. \A r \in Slots : jobs'[r] = jobs[r] \/ Again(jobs'[r], jobs[r])
    BY <1>1, <1>2, CrashIs DEF World
  <1>4. ASSUME NEW r \in Slots
        PROVE  /\ Carries(jobs[r], i) => Carries(jobs'[r], i)
               /\ ToCome(jobs[r], i) => ToCome(jobs'[r], i)
    <2>1. PICK x, y : x = jobs'[r] /\ y = jobs[r] /\ (x = y \/ Again(x, y))
      BY <1>3
    <2>2. (Carries(y, i) => Carries(x, i)) /\ (ToCome(y, i) => ToCome(x, i))
      BY <2>1, AgainCarries
    <2>. QED BY <2>1, <2>2
  <1>5. CASE Kept(i)
    BY <1>1, <1>4, <1>5, KeptOn, GotStays
  <1>6. CASE Later(i)
    BY <1>1, <1>4, <1>6, LaterOn DEF Later
  <1>. QED BY <1>5, <1>6

(* A change of one item: the others do not move towards pages that have    *)
(* been read.                                                              *)
LEMMA RankGrows ==
  ASSUME BasicInv, NEW i \in Items, Edit(i), kind \in Dated, updated'[i] # 0,
         NEW j \in Existing(updated), j # i
  PROVE  Rank(j) \in Nat /\ Rank(j)' \in Nat /\ Rank(j) <= Rank(j)'
PROOF
  <1>1. /\ kind' = kind /\ updated'[i] > updated[i] /\ BasicInv'
        /\ \A k \in Items : k # i => updated'[k] = updated[k]
    BY EditIs
  <1>2. /\ \A k \in Items : updated[k] \in Nat /\ updated'[k] \in Nat
        /\ Items \subseteq Nat /\ j \in Items
    BY <1>1, IngestionAssumption DEF BasicInv, StateOK, Versions, Times, Existing
  <1>3. Existing(updated) \subseteq Existing(updated)'
    BY <1>1 DEF Existing
  <1>4. ASSUME NEW k \in Existing(updated), Precedes(k, j) PROVE Precedes(k, j)'
    <2>1. k \in Items /\ (updated[k] > updated[j] \/ (updated[k] = updated[j] /\ k > j))
      BY <1>4 DEF Existing, Precedes, NewestFirst
    <2>2. updated'[j] = updated[j] /\ updated'[k] >= updated[k] /\ (k # i => updated'[k] = updated[k])
      BY <1>1, <1>2, <2>1
    <2>3. updated'[k] > updated'[j] \/ (updated'[k] = updated'[j] /\ k > j)
      BY <1>1, <1>2, <2>1, <2>2
    <2>. QED BY <1>1, <2>3 DEF Precedes, NewestFirst
  <1>5. Before(Existing(updated), j) \subseteq Before(Existing(updated), j)'
    BY <1>3, <1>4 DEF Before
  <1>6. PICK S, T : S = Before(Existing(updated), j) /\ T = Before(Existing(updated), j)'
    OBVIOUS
  <1>7. IsFiniteSet(T) /\ S \in SUBSET T
    <2>1. T \subseteq Items
      BY <1>6 DEF Before, Existing
    <2>. QED BY <1>5, <1>6, <2>1, IngestionAssumption, FS_Subset
  <1>8. IsFiniteSet(S) /\ Cardinality(S) <= Cardinality(T)
    BY <1>7, FS_Subset
  <1>9. Cardinality(S) \in Nat /\ Cardinality(T) \in Nat
    BY <1>7, <1>8, FS_CardinalityType
  <1>. QED BY <1>6, <1>8, <1>9 DEF Rank

LEMMA EditKept ==
  ASSUME BasicInv, KeptInv, NEW i \in Items, Edit(i), Promised', NEW j \in Items, Wanted(j)'
  PROVE  Kept(j)' \/ Later(j)'
PROOF
  <1>1. /\ BasicInv' /\ jobs' = jobs /\ indexed' = indexed /\ watermark' = watermark
        /\ kind' = kind /\ listed' = listed /\ late' = late /\ ~settled' /\ (shifted => shifted')
        /\ failed' = failed
        /\ \A k \in Items : k # i => updated'[k] = updated[k] /\ newest'[k] = newest[k]
    BY EditIs
  <1>2. kind \in Dated /\ Promised /\ updated'[j] # 0
    BY <1>1 DEF Promised, Wanted
  <1>3. CASE j = i
    <2>1. updated'[i] >= Back(now) /\ updated'[i] \in Nat
      BY <1>1, <1>2, <1>3, EditIs DEF BasicInv, StateOK, Versions, Times
    <2>2. Back(watermark') <= updated'[i]
      BY <1>1, <2>1, Bounds DEF BasicInv
    <2>3. ASSUME NEW r \in Slots PROVE ToCome(jobs[r], i)'
      <3>1. PICK y \in JobType : y = jobs[r] /\ JobOK(y) /\ jobs'[r] = y
        BY <1>1, JobAt
      <3>2. y.since <= Back(now) /\ y.since \in Nat /\ y.started \in Nat /\ y.started <= now
        BY <3>1 DEF JobOK, JobType
      <3>3. Back(y.started) <= Back(now) /\ Back(y.started) \in Nat /\ Back(now) \in Nat
        BY <3>2, Bounds, BackRises DEF BasicInv
      <3>4. y.since <= updated'[i] /\ Back(y.started) <= updated'[i]
        BY <2>1, <3>2, <3>3
      <3>. QED BY <3>1, <3>4 DEF ToCome, Back
    <2>4. Back(watermark)' = Back(watermark')
      BY DEF Back
    <2>5. Later(i)'
      BY <1>1, <1>2, <2>2, <2>3, <2>4 DEF Later
    <2>. QED BY <1>3, <2>5
  <1>4. CASE j # i
    <2>1. updated'[j] = updated[j] /\ Wanted(j) /\ updated[j] # 0 /\ j \in Existing(updated)
      BY <1>1, <1>2, <1>4 DEF Wanted, Existing
    <2>2. CASE Later(j)
      <3>1. ASSUME NEW r \in Slots PROVE ToCome(jobs[r], j)'
        BY <1>1, <2>1, <2>2 DEF Later, ToCome, Back
      <3>2. Back(watermark)' = Back(watermark)
        BY <1>1 DEF Back
      <3>. QED BY <1>1, <2>1, <2>2, <3>1, <3>2 DEF Later
    <2>3. CASE Got(j)
      BY <1>1, <2>1, <2>3 DEF Kept, Got, GivenUp
    <2>4. ASSUME NEW r \in Slots, Carries(jobs[r], j) PROVE Kept(j)'
      <3>1. PICK y \in JobType : y = jobs[r] /\ jobs'[r] = y
        BY <1>1, JobAt
      <3>2. CASE y.type # "fetch"
        <4>1. Carries(y, j)'
          BY <1>1, <2>4, <3>1, <3>2 DEF Carries
        <4>2. Carries(jobs[r], j)'
          BY <3>1, <4>1
        <4>. QED BY <4>2 DEF Kept
      <3>3. CASE y.type = "fetch"
        <4>1. updated'[i] # 0
          BY <1>2, <3>1, <3>3, <1>1, EditIs DEF Promised
        <4>2. Rank(j) \in Nat /\ Rank(j)' \in Nat /\ Rank(j) <= Rank(j)'
          BY <1>2, <1>4, <2>1, <4>1, RankGrows
        <4>3. \A n \in Int : Rank(j) >= n => Rank(j)' >= n
          BY <4>2
        <4>4. y.page * PageSize \in Int /\ (y.page - 1) * PageSize \in Int
          BY IngestionAssumption DEF JobType
        <4>5. Ahead(y, j) => Ahead(y, j)'
          BY <2>1, <4>3, <4>4 DEF Ahead
        <4>6. Rank(j) >= y.page * PageSize => Rank(j)' >= y.page * PageSize
          BY <4>3, <4>4
        <4>7. Carries(y, j)'
          BY <2>1, <2>4, <3>1, <3>3, <4>5, <4>6 DEF Carries
        <4>8. Carries(jobs[r], j)'
          BY <3>1, <4>7
        <4>. QED BY <4>8 DEF Kept
      <3>. QED BY <3>2, <3>3
    <2>. QED BY <1>2, <2>1, <2>2, <2>3, <2>4 DEF KeptInv, Kept
  <1>. QED BY <1>3, <1>4

LEMMA KeptStep ==
  ASSUME BasicInv, BasicInv', FreshInv, KeptInv, [Next]_vars
  PROVE  KeptInv'
PROOF
  <1>. SUFFICES ASSUME Promised', NEW i \in Items, Wanted(i)'
               PROVE  Kept(i)' \/ Later(i)'
    BY DEF KeptInv
  <1>1. CASE UNCHANGED vars
    <2>1. Promised /\ Wanted(i)
      BY <1>1 DEF vars, Promised, Wanted
    <2>2. /\ kind' = kind /\ updated' = updated /\ watermark' = watermark /\ indexed' = indexed
          /\ jobs' = jobs /\ failed' = failed
      BY <1>1 DEF vars
    <2>3. Kept(i) \/ Later(i)
      BY <2>1 DEF KeptInv
    <2>. QED BY <2>2, <2>3, KeptOn, LaterOn, GotStays DEF Later
  <1>2. CASE Tick
    <2>1. /\ kind' = kind /\ updated' = updated /\ watermark' = watermark /\ indexed' = indexed
          /\ jobs' = jobs /\ listed' = listed /\ failed' = failed /\ UNCHANGED history
      BY <1>2 DEF Tick, history
    <2>2. Promised /\ Wanted(i)
      BY <2>1 DEF history, Promised, Wanted
    <2>3. Kept(i) \/ Later(i)
      BY <2>2 DEF KeptInv
    <2>. QED BY <2>1, <2>3, KeptOn, LaterOn, GotStays DEF Later
  <1>3. CASE Relist
    <2>1. /\ jobs' = jobs /\ indexed' = indexed /\ watermark' = watermark /\ kind' = kind
          /\ ~settled' /\ updated' = updated
          /\ kind \in Dated /\ listed' /\ (watermark # 0 \/ ~Quiet) => late'
      BY <1>3, RelistIs
    <2>2. kind \in Dated /\ watermark = 0 /\ Quiet
      BY <2>1 DEF Promised
    <2>3. ASSUME NEW r \in Slots PROVE ToCome(jobs[r], i)'
      <3>1. PICK y : y = jobs[r] /\ y.type = "none" /\ jobs'[r] = y
        BY <2>1, <2>2, FreeIs DEF Quiet
      <3>. QED BY <3>1 DEF ToCome
    <2>4. Back(watermark)' = 0 /\ updated'[i] \in Nat
      BY <2>1, <2>2, IngestionAssumption DEF Back, BasicInv, StateOK, Versions, Times
    <2>. QED BY <2>1, <2>2, <2>3, <2>4 DEF Later
  <1>4. CASE Crash
    <2>1. kind' = kind /\ updated' = updated /\ listed' = listed /\ UNCHANGED history
      BY <1>4 DEF Crash, source
    <2>2. Promised /\ Wanted(i)
      BY <2>1 DEF history, Promised, Wanted
    <2>. QED BY <1>4, <2>2, CrashKept DEF KeptInv
  <1>5. ASSUME NEW j \in Items, Edit(j) PROVE Kept(i)' \/ Later(i)'
    BY <1>5, EditKept
  <1>6. ASSUME NEW s \in Slots, Discovery(s) PROVE Kept(i)' \/ Later(i)'
    <2>1. kind' = kind /\ updated' = updated /\ listed' = listed /\ newest' = newest
          /\ shifted' = shifted
      BY <1>6 DEF Discovery, Discover, Begin, QueueJobs, SaveWatermark, Purge, source, history
    <2>2. Wanted(i)
      BY <2>1 DEF Wanted
    <2>3. CASE Begin(s)
      BY <2>2, <2>3, BeginKept
    <2>4. CASE ~Begin(s)
      <3>1. late' = late /\ settled' = settled
        BY <1>6, <2>4 DEF Discovery, Discover, QueueJobs, SaveWatermark, Purge, history
      <3>2. Promised
        BY <2>1, <3>1 DEF Promised
      <3>3. listed /\ (Kept(i) \/ Later(i))
        BY <2>2, <3>2 DEF KeptInv, Promised
      <3>. QED BY <1>6, <2>4, <3>3, DiscoveryKept
    <2>. QED BY <2>3, <2>4
  <1>7. ASSUME NEW s \in Slots, Worker(s) PROVE Kept(i)' \/ Later(i)'
    <2>1. kind' = kind /\ updated' = updated /\ listed' = listed /\ newest' = newest
          /\ shifted' = shifted /\ late' = late
      BY <1>7 DEF Worker, Fetch, Index, GiveUp, Reconcile, Follow, Complete, source, history
    <2>2. settled' => settled
      BY <1>7, FetchIs DEF Worker, Index, GiveUp, Reconcile, Follow, Complete, history
    <2>3. Wanted(i) /\ Promised
      BY <2>1, <2>2 DEF Wanted, Promised
    <2>. QED BY <1>7, <2>3, WorkerKept DEF KeptInv
  <1>8. ASSUME NEW s \in Slots, Trouble(s) PROVE Kept(i)' \/ Later(i)'
    <2>1. kind' = kind /\ updated' = updated /\ listed' = listed /\ UNCHANGED history
      BY <1>8 DEF Trouble, Fails, RateLimited, Revive, Duplicate, source
    <2>2. Wanted(i) /\ Promised
      BY <2>1 DEF Wanted, Promised, history
    <2>. QED BY <1>8, <2>2, TroubleKept DEF KeptInv
  <1>. QED BY <1>1, <1>2, <1>3, <1>4, <1>5, <1>6, <1>7, <1>8 DEF Next

-----------------------------------------------------------------------------
(* Pages of the source as it is.                                           *)
LEMMA SameFresh ==
  ASSUME kind' = kind, updated' = updated, NEW job, FreshJob(job)
  PROVE  FreshJob(job)'
  BY DEF FreshJob, Existing

LEMMA OneFresh ==
  ASSUME BasicInv, kind' = kind, updated' = updated, NEW s \in Slots, NEW x, Becomes(s, x),
         \A r \in Slots : jobs[r].type = "fetch" => FreshJob(jobs[r]),
         x.type = "fetch" => FreshJob(x), NEW r \in Slots, jobs'[r].type = "fetch"
  PROVE  FreshJob(jobs[r])'
PROOF
  <1>1. jobs'[s] = x /\ \A q \in Slots : q # s => jobs'[q] = jobs[q]
    BY DEF Becomes, BasicInv, JobsOK
  <1>2. PICK y : y = jobs'[r]
    OBVIOUS
  <1>3. FreshJob(y)
    BY <1>1, <1>2
  <1>4. FreshJob(y)'
    BY <1>3, SameFresh
  <1>. QED BY <1>2, <1>4

LEMMA TwoFresh ==
  ASSUME BasicInv, kind' = kind, updated' = updated, NEW s \in Slots, NEW x, NEW t, NEW z,
         Become(s, x, t, z),
         \A r \in Slots : jobs[r].type = "fetch" => FreshJob(jobs[r]),
         x.type = "fetch" => FreshJob(x), z.type = "fetch" => FreshJob(z),
         NEW r \in Slots, jobs'[r].type = "fetch"
  PROVE  FreshJob(jobs[r])'
PROOF
  <1>1. /\ jobs'[s] = x /\ jobs'[t] = z
        /\ \A q \in Slots : q # s /\ q # t => jobs'[q] = jobs[q]
    BY DEF Become, BasicInv, JobsOK
  <1>2. PICK y : y = jobs'[r]
    OBVIOUS
  <1>3. FreshJob(y)
    BY <1>1, <1>2
  <1>4. FreshJob(y)'
    BY <1>3, SameFresh
  <1>. QED BY <1>2, <1>4

LEMMA AgainFresh ==
  ASSUME StateOK, NEW x, NEW y, Again(x, y), FreshJob(y)
  PROVE  FreshJob(x)
PROOF
  <1>1. \A i \in Items : Nothing[i] = 0
    BY Bounds
  <1>2. x.docs = Nothing \/ x.docs = y.docs
    BY DEF Again
  <1>3. \A i \in Items : x.docs[i] \in {0, updated[i]}
    BY <1>1, <1>2 DEF FreshJob
  <1>4. Existing(updated) \subseteq x.live
    BY DEF Again, FreshJob, Existing
  <1>5. kind = "file" /\ (x.page # 1 \/ x.pc \in {"indexing", "following"}) => x.pinned = updated
    BY DEF Again, FreshJob
  <1>6. kind = "readme" => x.page = 1 /\ ~x.more
    BY DEF Again, FreshJob
  <1>. QED BY <1>3, <1>4, <1>5, <1>6 DEF FreshJob

LEMMA FetchFresh ==
  ASSUME BasicInv, kind \notin Dated, settled', NEW y, FreshJob(y), NEW x, PageOf(x, y)
  PROVE  FreshJob(x)
PROOF
  <1>1. updated \in Versions /\ Existing(updated) \subseteq Items
    BY DEF BasicInv, StateOK, Existing
  <1>2. CASE kind = "file"
    <2>1. PICK tree : tree = IF y.page = 1 THEN updated ELSE y.pinned
      OBVIOUS
    <2>2. tree = updated
      BY <1>2, <2>1 DEF FreshJob
    <2>3. /\ x.pinned = updated
          /\ x.live = IF y.page = 1 THEN Existing(updated) ELSE Items
          /\ \E S : x.docs = Read(S, updated)
      BY <1>2, <2>1, <2>2 DEF PageOf
    <2>4. \A i \in Items : x.docs[i] \in {0, updated[i]}
      BY <1>1, <2>3, ReadIs
    <2>. QED BY <1>1, <1>2, <2>3, <2>4 DEF FreshJob
  <1>3. CASE kind = "readme"
    <2>1. /\ x.docs = updated /\ x.live = (IF Existing(updated) = {} THEN {} ELSE Items)
          /\ x.more = y.more /\ x.page = y.page
      BY <1>3 DEF PageOf
    <2>2. Existing(updated) \subseteq x.live
      BY <1>1, <2>1
    <2>3. \A i \in Items : x.docs[i] \in {0, updated[i]}
      BY <2>1
    <2>. QED BY <1>3, <2>1, <2>2, <2>3 DEF FreshJob
  <1>. QED BY <1>2, <1>3 DEF BasicInv, StateOK, Dated

LEMMA FreshStep ==
  ASSUME BasicInv, FreshInv, [Next]_vars
  PROVE  FreshInv'
PROOF
  <1>. SUFFICES ASSUME kind' \notin Dated, settled', listed', NEW r \in Slots,
                      jobs'[r].type = "fetch"
               PROVE  FreshJob(jobs[r])'
    BY DEF FreshInv, Dated
  <1>. USE DEF source, history
  <1>1. CASE UNCHANGED vars \/ Tick
    <2>1. /\ kind' = kind /\ updated' = updated /\ settled' = settled /\ listed' = listed
          /\ jobs' = jobs
      BY <1>1 DEF vars, Tick
    <2>2. PICK y : y = jobs[r] /\ jobs'[r] = y
      BY <2>1
    <2>3. FreshJob(y)'
      BY <2>1, <2>2, SameFresh DEF FreshInv
    <2>. QED BY <2>2, <2>3
  <1>2. CASE Relist \/ \E i \in Items : Edit(i)
    BY <1>2 DEF Relist, Edit
  <1>3. CASE Crash
    <2>1. /\ kind' = kind /\ updated' = updated /\ settled' = settled /\ listed' = listed
          /\ empty' = empty
          /\ UNCHANGED World /\ UNCHANGED <<indexed, watermark, late, runs>> /\ events' = events + 1
      BY <1>3 DEF Crash, World, Event
    <2>2. StateOK' /\ Grows
      BY <2>1, SameIndex, Steady
    <2>3. PICK x, y : x = jobs'[r] /\ y = jobs[r] /\ (x = y \/ Again(x, y))
      BY <1>3, <2>1, <2>2, CrashIs
    <2>4. y.type = "fetch"
      BY <2>3 DEF Again
    <2>5. FreshJob(x)
      BY <2>1, <2>3, <2>4, AgainFresh DEF FreshInv, BasicInv
    <2>6. FreshJob(x)'
      BY <2>1, <2>5, SameFresh
    <2>. QED BY <2>3, <2>6
  <1>4. ASSUME NEW s \in Slots, Begin(s) PROVE FreshJob(jobs[r])'
    <2>0. ~empty
      BY <1>4 DEF Begin, BasicInv, StateOK
    <2>1. /\ kind' = kind /\ updated' = updated /\ listed' = listed
          /\ settled' = (settled \/ Others(s) = {})
      BY <1>4, <2>0 DEF Begin
    <2>2. PICK x : Becomes(s, x) /\ x.type = "discover"
      BY <1>4, <2>0, BeginIs
    <2>3. CASE settled
      BY <2>1, <2>2, <2>3, OneFresh DEF FreshInv
    <2>4. CASE Others(s) = {}
      <3>1. r # s /\ jobs'[r] = jobs[r]
        BY <2>2 DEF Becomes, BasicInv, JobsOK
      <3>2. Free(r)
        BY <2>4, <3>1 DEF Others
      <3>. QED BY <3>1, <3>2, FreeIs
    <2>. QED BY <2>1, <2>3, <2>4
  <1>5. ASSUME NEW s \in Slots, Discovery(s), ~Begin(s) PROVE FreshJob(jobs[r])'
    <2>1. kind' = kind /\ updated' = updated /\ listed' = listed /\ settled' = settled
      BY <1>5 DEF Discovery, Discover, QueueJobs, SaveWatermark, Purge
    <2>2. \A q \in Slots : jobs[q].type = "fetch" => FreshJob(jobs[q])
      BY <2>1 DEF FreshInv
    <2>3. ASSUME NEW x, Becomes(s, x), x.type = "discover" PROVE FreshJob(jobs[r])'
      BY <2>1, <2>2, <2>3, OneFresh
    <2>4. ASSUME NEW x, NEW t, NEW z, Become(s, x, t, z), x.type = "discover",
                 z.type = "fetch", z.pc = "queued", z.page = 1, ~z.more, z.live = Items,
                 z.docs = Nothing
          PROVE  FreshJob(jobs[r])'
      <3>1. FreshJob(z)
        BY <2>4, Bounds DEF FreshJob, Existing, BasicInv
      <3>. QED BY <2>1, <2>2, <2>4, <3>1, TwoFresh
    <2>5. CASE QueueJobs(s)
      <3>1. PICK x : /\ x.type = "discover" /\ x.pc = "saving" /\ x.started = jobs[s].started
                     /\ \/ ~listed /\ Becomes(s, x)
                        \/ \E t, z : /\ listed /\ Become(s, x, t, z)
                                     /\ z.type = "fetch" /\ z.pc = "queued" /\ z.page = 1 /\ ~z.more
                                     /\ z.since = IF kind \in Dated THEN jobs[s].since ELSE 0
                                     /\ z.live = Items /\ z.docs = Nothing
        BY <2>5, QueueJobsIs
      <3>. QED BY <2>3, <2>4, <3>1
    <2>6. CASE Discover(s) \/ SaveWatermark(s) \/ Purge(s)
      <3>1. \E x : Becomes(s, x) /\ x.type = "discover"
        BY <2>6, DiscoverIs, SaveWatermarkIs, PurgeIs
      <3>. QED BY <2>3, <3>1
    <2>. QED BY <1>5, <2>5, <2>6 DEF Discovery
  <1>6. ASSUME NEW s \in Slots, Worker(s) PROVE FreshJob(jobs[r])'
    <2>1. /\ kind' = kind /\ updated' = updated /\ listed' = listed
          /\ settled' => settled
      BY <1>6, FetchIs DEF Worker, Fetch, Index, GiveUp, Reconcile, Follow, Complete
    <2>2. \A q \in Slots : jobs[q].type = "fetch" => FreshJob(jobs[q])
      BY <2>1 DEF FreshInv
    <2>3. PICK y : y = jobs[s]
      OBVIOUS
    <2>4. ASSUME NEW x, Becomes(s, x), x.type = "fetch" => FreshJob(x) PROVE FreshJob(jobs[r])'
      BY <2>1, <2>2, <2>4, OneFresh
    <2>5. CASE Fetch(s)
      BY <2>1, <2>2, <2>3, <2>4, <2>5, FetchIs, FetchFresh
    <2>6. CASE Index(s)
      <3>1. PICK i \in Items : \E x : Becomes(s, x) /\ Indexes(x, y, i)
        BY <2>3, <2>6, IndexIs
      <3>2. PICK x : Becomes(s, x) /\ Indexes(x, y, i)
        BY <3>1
      <3>3. FreshJob(y) /\ y.type = "fetch" /\ y.pc = "indexing"
        BY <2>2, <2>3, <2>6, IndexIs
      <3>4. \A j \in Items : x.docs[j] = 0 \/ x.docs[j] = y.docs[j]
        BY <3>2 DEF Indexes
      <3>5. FreshJob(x)
        BY <3>2, <3>3, <3>4 DEF FreshJob, Indexes
      <3>. QED BY <2>4, <3>2, <3>5
    <2>7. CASE Reconcile(s)
      <3>1. PICK x : /\ Becomes(s, x) /\ x.type = "fetch" /\ x.pc = "following"
                     /\ x.since = y.since /\ x.page = y.page
                     /\ x.pinned = y.pinned /\ x.docs = y.docs
                     /\ x.live = Items /\ x.more = y.more
        BY <2>3, <2>7, ReconcileIs
      <3>2. FreshJob(y) /\ y.pc = "indexing"
        BY <2>2, <2>3, <2>7, ReconcileIs
      <3>3. FreshJob(x)
        BY <3>1, <3>2 DEF FreshJob, Existing
      <3>. QED BY <2>4, <3>1, <3>3
    <2>8. CASE Follow(s)
      <3>1. PICK x : /\ Moves(x, y, "done")
                     /\ \/ ~y.more /\ Becomes(s, x)
                        \/ \E t, z : /\ y.more /\ Become(s, x, t, z)
                                     /\ z.type = "fetch" /\ z.pc = "queued"
                                     /\ z.page = y.page + 1 /\ z.page # 1
                                     /\ z.since = y.since /\ z.pinned = y.pinned
                                     /\ z.docs = Nothing /\ z.live = Items /\ ~z.more
        BY <2>3, <2>8, FollowIs
      <3>2. FreshJob(y) /\ y.pc = "following"
        BY <2>2, <2>3, <2>8, FollowIs
      <3>3. FreshJob(x)
        BY <3>1, <3>2 DEF FreshJob, Moves
      <3>4. ASSUME NEW t, NEW z, y.more, Become(s, x, t, z), z.pinned = y.pinned,
                   z.docs = Nothing, z.live = Items, ~z.more
            PROVE  FreshJob(jobs[r])'
        <4>1. FreshJob(z)
          BY <3>2, <3>4, Bounds DEF FreshJob, Existing, BasicInv
        <4>. QED BY <2>1, <2>2, <3>3, <3>4, <4>1, TwoFresh
      <3>. QED BY <2>4, <3>1, <3>3, <3>4
    <2>9. CASE Complete(s)
      <3>1. Becomes(s, NoJob) /\ NoJob.type = "none"
        BY <2>9, CompleteIs, NoJobOK DEF BasicInv
      <3>. QED BY <2>4, <3>1
    <2>10. CASE GiveUp(s)
      <3>1. PICK i \in Items : \E x : Becomes(s, x) /\ Drops(x, y, i)
        BY <2>3, <2>10, GiveUpIs
      <3>2. PICK x : Becomes(s, x) /\ Drops(x, y, i)
        BY <3>1
      <3>3. FreshJob(y) /\ y.type = "fetch" /\ y.pc = "indexing"
        BY <2>2, <2>3, <2>10, GiveUpIs
      <3>4. \A j \in Items : x.docs[j] = 0 \/ x.docs[j] = y.docs[j]
        BY <3>2 DEF Drops
      <3>5. FreshJob(x)
        BY <3>2, <3>3, <3>4 DEF FreshJob, Drops
      <3>. QED BY <2>4, <3>2, <3>5
    <2>. QED BY <1>6, <2>5, <2>6, <2>7, <2>8, <2>9, <2>10 DEF Worker
  <1>7. ASSUME NEW s \in Slots, Trouble(s) PROVE FreshJob(jobs[r])'
    <2>1. kind' = kind /\ updated' = updated /\ listed' = listed /\ settled' = settled
      BY <1>7 DEF Trouble, Fails, RateLimited, Revive, Duplicate
    <2>2. \A q \in Slots : jobs[q].type = "fetch" => FreshJob(jobs[q])
      BY <2>1 DEF FreshInv
    <2>3. PICK y : y = jobs[s] /\ (y.type = "fetch" => FreshJob(y))
      BY <2>2
    <2>4. ASSUME NEW x, Again(x, y), x.type = "fetch" PROVE FreshJob(x)
      BY <2>3, <2>4, AgainFresh DEF Again, BasicInv
    <2>5. ASSUME NEW x, Becomes(s, x), Again(x, y) PROVE FreshJob(jobs[r])'
      BY <2>1, <2>2, <2>4, <2>5, OneFresh
    <2>6. ASSUME NEW x, NEW t, NEW z, Become(s, x, t, z), Moves(x, y, "done"), Again(z, y)
          PROVE  FreshJob(jobs[r])'
      <3>1. x.type = "fetch" => FreshJob(x)
        BY <2>3, <2>6 DEF Moves, FreshJob
      <3>. QED BY <2>1, <2>2, <2>4, <2>6, <3>1, TwoFresh
    <2>7. CASE Fails(s) \/ Revive(s)
      BY <2>3, <2>5, <2>7, FailsIs, ReviveIs
    <2>8. CASE RateLimited(s)
      BY <2>3, <2>5, <2>6, <2>8, RateLimitedIs
    <2>9. ASSUME NEW t \in Slots, Duplicate(s, t) PROVE FreshJob(jobs[r])'
      BY <2>1, <2>2, <2>3, <2>9, DuplicateIs, OneFresh
    <2>. QED BY <1>7, <2>7, <2>8, <2>9 DEF Trouble
  <1>. QED BY <1>1, <1>2, <1>3, <1>4, <1>5, <1>6, <1>7 DEF Next

-----------------------------------------------------------------------------
(* Nothing of a repository that is not listed is fetched, once a run has   *)
(* begun alone; and the run deletes what there is.                         *)
LEMMA GoneStep ==
  ASSUME BasicInv, GoneInv, [Next]_vars
  PROVE  GoneInv'
PROOF
  <1>. SUFFICES ASSUME settled', ~listed', ~empty'
               PROVE  /\ \A r \in Slots : jobs'[r].type # "fetch"
                      /\ \/ indexed' = Nothing
                         \/ \E r \in Slots : jobs'[r].type = "discover" /\ jobs'[r].pc # "done"
    BY DEF GoneInv, Nothing
  <1> DEFINE Over == \/ indexed' = Nothing
                     \/ \E r \in Slots : jobs'[r].type = "discover" /\ jobs'[r].pc # "done"
             Calm == settled /\ ~listed /\ ~empty
  <1>. USE DEF source, history
  <1>0. Calm => /\ \A r \in Slots : jobs[r].type # "fetch"
                /\ \/ indexed = Nothing
                   \/ \E r \in Slots : jobs[r].type = "discover" /\ jobs[r].pc # "done"
    BY DEF GoneInv
  <1>1. CASE UNCHANGED vars \/ Tick
    <2>1. /\ settled' = settled /\ listed' = listed /\ empty' = empty
          /\ indexed' = indexed /\ jobs' = jobs
      BY <1>1 DEF vars, Tick
    <2>2. Calm
      BY <2>1
    <2>. QED BY <1>0, <2>1, <2>2
  <1>2. CASE Relist \/ \E i \in Items : Edit(i)
    BY <1>2 DEF Relist, Edit
  <1>3. CASE Crash
    <2>1. /\ kind' = kind /\ settled' = settled /\ listed' = listed /\ indexed' = indexed
          /\ empty' = empty
          /\ UNCHANGED World /\ UNCHANGED <<watermark, late, runs>> /\ events' = events + 1
      BY <1>3 DEF Crash, World, Event
    <2>2. StateOK' /\ Grows
      BY <2>1, SameIndex, Steady
    <2>3. ASSUME NEW r \in Slots
          PROVE  /\ jobs'[r].type = jobs[r].type
                 /\ jobs'[r].pc = "done" => jobs[r].pc = "done"
      <3>1. PICK x, y : x = jobs'[r] /\ y = jobs[r] /\ (x = y \/ Again(x, y))
        BY <1>3, <2>1, <2>2, CrashIs
      <3>2. x.type = y.type /\ (x.pc = "done" => y.pc = "done")
        BY <3>1 DEF Again
      <3>. QED BY <3>1, <3>2
    <2>. QED BY <1>0, <2>1, <2>3
  <1>4. ASSUME NEW s \in Slots, NEW x, Becomes(s, x), x.type # "fetch", Calm,
               \/ indexed' = Nothing
               \/ /\ indexed' = indexed
                  /\ \/ x.type = "discover" /\ x.pc # "done"
                     \/ jobs[s].type # "discover" \/ jobs[s].pc = "done"
        PROVE  (\A r \in Slots : jobs'[r].type # "fetch") /\ Over
    <2>1. jobs'[s] = x /\ \A r \in Slots : r # s => jobs'[r] = jobs[r]
      BY <1>4 DEF Becomes, BasicInv, JobsOK
    <2>2. \A r \in Slots : jobs'[r].type # "fetch"
      BY <1>0, <1>4, <2>1
    <2>3. CASE indexed' = Nothing
      BY <2>2, <2>3
    <2>4. CASE indexed' = indexed /\ x.type = "discover" /\ x.pc # "done"
      BY <2>1, <2>2, <2>4
    <2>5. CASE indexed' = indexed /\ (jobs[s].type # "discover" \/ jobs[s].pc = "done")
      <3>1. CASE indexed = Nothing
        BY <2>2, <2>5, <3>1
      <3>2. ASSUME NEW r \in Slots, jobs[r].type = "discover", jobs[r].pc # "done"
            PROVE  Over
        <4>1. r # s
          BY <2>5, <3>2
        <4>2. jobs'[r] = jobs[r]
          BY <2>1, <4>1
        <4>. QED BY <3>2, <4>2
      <3>. QED BY <1>0, <1>4, <2>2, <3>1, <3>2
    <2>. QED BY <1>4, <2>3, <2>4, <2>5
  <1>5. ASSUME NEW s \in Slots, Begin(s)
        PROVE  (\A r \in Slots : jobs'[r].type # "fetch") /\ Over
    <2>0. ~empty /\ empty' = empty
      BY <1>5 DEF Begin
    <2>1. listed' = listed /\ settled' = (settled \/ Others(s) = {}) /\ indexed' = indexed
      BY <1>5, <2>0 DEF Begin
    <2>2. PICK x : Becomes(s, x) /\ x.type = "discover" /\ x.pc = "queueing"
      BY <1>5, <2>0, BeginIs
    <2>3. CASE settled
      BY <1>4, <2>0, <2>1, <2>2, <2>3
    <2>4. CASE Others(s) = {}
      <3>1. jobs'[s] = x /\ \A r \in Slots : r # s => jobs'[r] = jobs[r]
        BY <2>2 DEF Becomes, BasicInv, JobsOK
      <3>2. \A r \in Slots : r # s => jobs[r].type = "none"
        BY <2>4, FreeIs DEF Others
      <3>3. \A r \in Slots : jobs'[r].type # "fetch"
        BY <2>2, <3>1, <3>2
      <3>. QED BY <2>2, <3>1, <3>3
    <2>. QED BY <2>1, <2>3, <2>4
  <1>6. ASSUME NEW s \in Slots, Discovery(s), ~Begin(s)
        PROVE  (\A r \in Slots : jobs'[r].type # "fetch") /\ Over
    <2>0. settled' = settled /\ listed' = listed /\ empty' = empty
      BY <1>6 DEF Discovery, Discover, QueueJobs, SaveWatermark, Purge
    <2>1. Calm
      BY <2>0
    <2>2. CASE Discover(s)
      <3>1. indexed' = indexed /\ \E x : Becomes(s, x) /\ x.type = "discover" /\ x.pc = "queued"
        BY <2>2, DiscoverIs DEF Discover
      <3>. QED BY <1>4, <2>1, <3>1
    <2>3. CASE QueueJobs(s)
      <3>1. PICK x : /\ x.type = "discover" /\ x.pc = "saving" /\ x.started = jobs[s].started
                     /\ \/ ~listed /\ Becomes(s, x)
                        \/ \E t, z : /\ listed /\ Become(s, x, t, z)
                                     /\ z.type = "fetch" /\ z.pc = "queued" /\ z.page = 1 /\ ~z.more
                                     /\ z.since = IF kind \in Dated THEN jobs[s].since ELSE 0
                                     /\ z.live = Items /\ z.docs = Nothing
        BY <2>3, QueueJobsIs
      <3>2. indexed' = indexed /\ Becomes(s, x)
        BY <2>1, <2>3, <3>1 DEF QueueJobs
      <3>. QED BY <1>4, <2>1, <3>1, <3>2
    <2>4. CASE SaveWatermark(s)
      <3>1. indexed' = indexed /\ \E x : Becomes(s, x) /\ x.type = "discover" /\ x.pc = "purging"
        BY <2>4, SaveWatermarkIs DEF SaveWatermark
      <3>. QED BY <1>4, <2>1, <3>1
    <2>5. CASE Purge(s)
      <3>1. indexed' = Nothing /\ \E x : Becomes(s, x) /\ x.type = "discover"
        BY <2>1, <2>5, PurgeIs
      <3>. QED BY <1>4, <2>1, <3>1
    <2>. QED BY <1>6, <2>2, <2>3, <2>4, <2>5 DEF Discovery
  <1>7. ASSUME NEW s \in Slots, Worker(s)
        PROVE  (\A r \in Slots : jobs'[r].type # "fetch") /\ Over
    <2>0. (settled' => settled) /\ listed' = listed /\ empty' = empty
      BY <1>7, FetchIs DEF Worker, Fetch, Index, GiveUp, Reconcile, Follow, Complete
    <2>1. Calm
      BY <2>0
    <2>2. ~Fetch(s) /\ ~Index(s) /\ ~GiveUp(s) /\ ~Reconcile(s) /\ ~Follow(s)
      BY <1>0, <2>1, FetchIs, IndexIs, GiveUpIs, ReconcileIs, FollowIs
    <2>3. Complete(s)
      BY <1>7, <2>2 DEF Worker
    <2>4. indexed' = indexed /\ jobs[s].pc = "done" /\ Becomes(s, NoJob) /\ NoJob.type = "none"
      BY <2>3, CompleteIs, NoJobOK DEF Complete, BasicInv
    <2>. QED BY <1>4, <2>1, <2>4
  <1>8. ASSUME NEW s \in Slots, Trouble(s)
        PROVE  (\A r \in Slots : jobs'[r].type # "fetch") /\ Over
    <2>0. settled' = settled /\ listed' = listed /\ empty' = empty /\ indexed' = indexed
      BY <1>8 DEF Trouble, Fails, RateLimited, Revive, Duplicate
    <2>1. Calm /\ indexed' = indexed
      BY <2>0
    <2>2. ~RateLimited(s)
      BY <1>0, <2>1, RateLimitedIs
    <2>3. PICK y \in JobType : y = jobs[s] /\ JobOK(y) /\ y.type # "fetch"
      BY <1>0, <2>1, JobAt
    <2>4. ASSUME NEW x, Becomes(s, x), Again(x, y)
          PROVE  (\A r \in Slots : jobs'[r].type # "fetch") /\ Over
      <3>1. x.type = y.type /\ x.pc # "done"
        BY <2>4 DEF Again
      <3>2. x.type # "fetch" /\ ((x.type = "discover" /\ x.pc # "done") \/ y.type # "discover")
        BY <2>3, <3>1
      <3>. QED BY <1>4, <2>1, <2>3, <2>4, <3>2
    <2>5. CASE Fails(s) \/ Revive(s)
      BY <2>3, <2>4, <2>5, FailsIs, ReviveIs
    <2>6. ASSUME NEW t \in Slots, Duplicate(s, t)
          PROVE  (\A r \in Slots : jobs'[r].type # "fetch") /\ Over
      <3>1. Free(t) /\ Becomes(t, y)
        BY <2>3, <2>6, DuplicateIs
      <3>2. jobs[t].type = "none"
        BY <3>1, FreeIs
      <3>. QED BY <1>4, <2>1, <2>3, <3>1, <3>2
    <2>. QED BY <1>8, <2>2, <2>5, <2>6 DEF Trouble
  <1>. QED BY <1>1, <1>2, <1>3, <1>5, <1>6, <1>7, <1>8 DEF Next

-----------------------------------------------------------------------------
IInv == BasicInv /\ FreshInv /\ KeptInv /\ GoneInv

(* Whatever the connector, the pipeline and the queue do (github.py,       *)
(* pipeline.py, queue.py, aws.py), somebody will still bring each item.    *)
THEOREM Invariance == Spec => []IInv
PROOF
  <1>1. Init => IInv
    <2>1. ASSUME Init PROVE BasicInv
      BY <2>1, BasicInit
    <2>2. ASSUME Init PROVE FreshInv /\ GoneInv
      BY <2>2 DEF Init, FreshInv, GoneInv
    <2>3. ASSUME Init, NEW i \in Items, Promised PROVE Later(i)
      <3>1. kind \in Dated /\ watermark = 0 /\ \A s \in Slots : jobs[s] = NoJob
        BY <2>3 DEF Init, Promised
      <3>2. \A s \in Slots : ToCome(jobs[s], i)
        BY <2>1, <2>3, <3>1, FreeIs DEF Free
      <3>3. Back(watermark) = 0 /\ updated[i] \in Nat
        BY <2>1, <2>3, <3>1, IngestionAssumption DEF Back, BasicInv, StateOK, Versions, Times
      <3>. QED BY <3>1, <3>2, <3>3 DEF Later
    <2>. QED BY <2>1, <2>2, <2>3 DEF IInv, KeptInv
  <1>2. IInv /\ [Next]_vars => IInv'
    BY BasicStep, FreshStep, KeptStep, GoneStep DEF IInv
  <1>. QED BY <1>1, <1>2, PTL DEF Spec

LEMMA QuietIs ==
  ASSUME BasicInv, Quiet, NEW i
  PROVE  Kept(i) => Got(i)
  BY FreeIs DEF Quiet, Kept

(* With all jobs done, an issue or a pull request is indexed as it is, or  *)
(* so new that the next run will list it, or has failed for good as it is: *)
(* run_discovery, iter_pages, run_job, and whatever fails, repeats, forks  *)
(* or moves meanwhile.                                                     *)
THEOREM NothingIsMissed == Spec => []NothingMissed
PROOF
  <1>1. ASSUME IInv, Quiet, kind \in Dated, listed, ~late, ~shifted, NEW i \in Existing(updated)
        PROVE  indexed[i] = updated[i] \/ updated[i] >= Since(FALSE) \/ GivenUp(i)
    <2>1. i \in Items /\ updated[i] # 0
      BY DEF Existing
    <2>2. Kept(i) \/ Later(i)
      BY <1>1, <2>1 DEF IInv, KeptInv, Promised, Wanted
    <2>3. Later(i) => updated[i] >= Back(watermark)
      BY <1>1, <2>1, Bounds DEF Later, IInv, BasicInv, StateOK, Versions, Times
    <2>4. Since(FALSE) = Back(watermark)
      BY <1>1, SinceIs DEF IInv, BasicInv
    <2>. QED BY <1>1, <2>2, <2>3, <2>4, QuietIs DEF IInv, Got
  <1>2. IInv => NothingMissed
    BY <1>1 DEF NothingMissed
  <1>. QED BY <1>2, Invariance, PTL

(* Once the jobs of a run that began alone are done, and nothing has       *)
(* changed since, the index is the source, but for what has failed for     *)
(* good as it is; of a repository that is not listed nothing is left,      *)
(* unless nothing is listed: fetch_with_reconciliation, run_job,           *)
(* reconcile, purge_unlisted_repos.                                        *)
THEOREM SourceCovered == Spec => []CoversSource
PROOF
  <1>1. ASSUME IInv, Quiet, settled, Current, ~listed, ~empty PROVE indexed = Nothing
    <2>1. \A s \in Slots : jobs[s].type = "none"
      BY <1>1, FreeIs DEF Quiet, IInv
    <2>. QED BY <1>1, <2>1 DEF IInv, GoneInv
  <1>2. ASSUME IInv, Quiet, settled, Current, listed, kind \notin Dated, NEW i \in Items
        PROVE  indexed[i] = updated[i] \/ GivenUp(i)
    <2>1. Wanted(i)
      BY <1>2 DEF Wanted, Current, Existing, IInv, BasicInv, StateOK, Dated
    <2>2. Kept(i)
      BY <1>2, <2>1 DEF IInv, KeptInv, Promised, Later
    <2>. QED BY <1>2, <2>2, QuietIs DEF IInv, Got
  <1>3. IInv => CoversSource
    BY <1>1, <1>2 DEF CoversSource
  <1>. QED BY <1>3, Invariance, PTL
=============================================================================
