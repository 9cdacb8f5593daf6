--------------------------- MODULE SourceSyncProofs ---------------------------
(***************************************************************************)
(* For any settings - streams, items, workers, runs, commands, changes and *)
(* crashes: the types, that a page is in one worker's hands, that a plan   *)
(* which can check an item deletes none that its source has kept, that the *)
(* outcome of a run is final unless the server dies, that no run is left   *)
(* running once nothing is queued or at work, that a run which succeeds    *)
(* undisturbed leaves the items of its source in the index, and that one   *)
(* which lists by key deletes none that its source has kept either, as     *)
(* long as its pages do not outlive it.                                    *)
(***************************************************************************)
EXTENDS SourceSync, FiniteSetTheorems, WellFoundedInduction, TLAPS

PagePcs == {"page", "fetch", "index", "mark", "next", "reconcile", "delete", "done"}

Started(r) == r \in RunIds /\ runs[r].status # "none"

(* The budget of attempts, and the runs that pages are of.                 *)
JobsOK ==
  \A j \in Slots :
    /\ jobs[j].status = "pending" => jobs[j].attempts < MaxAttempts + bounds.crashes
    /\ jobs[j].status = "running" => jobs[j].attempts >= 1
    /\ jobs[j].status # "free" /\ jobs[j].stream # NoStream => Started(jobs[j].run)

(* What a worker that is busy has: a running job, which no other has, and  *)
(* a run.                                                                  *)
Has(w) ==
  LET j == worker[w].slot IN
    /\ j \in Slots /\ jobs[j].status = "running"
    /\ \A v \in Workers : v # w /\ worker[v].pc # "idle" => worker[v].slot # j
    /\ worker[w].pc \notin {"sync", "ended"} => Started(worker[w].run)
    /\ worker[w].pc \in PagePcs => /\ jobs[j].stream \in Streams
                                   /\ jobs[j].run = worker[w].run
    /\ worker[w].pc = "delete" /\ Checker =>
         worker[w].doomed \subseteq away[worker[w].run][jobs[j].stream]
WorkersOK == \A w \in Workers : worker[w].pc # "idle" => Has(w)

(* What the source lacks, it has lacked at some time since a run began.    *)
AwayOK == \A r \in RunIds : runs[r].status # "none" =>
            \A s \in Streams : Items \ live[s] \subseteq away[r][s]

SyncInv == setting \in Settings /\ TypeOK /\ JobsOK /\ WorkersOK /\ AwayOK

-----------------------------------------------------------------------------
LEMMA SettingType ==
  ASSUME NEW g \in Settings
  PROVE  /\ NoStream \notin g.streams
         /\ g.items \in Nat /\ g.minMissing \in Nat /\ g.runs \in Nat /\ g.slots \in Nat
         /\ g.commands \subseteq {"pause", "enable", "remove"} /\ g.limits \in Limits
         /\ g.byOffset \in BOOLEAN /\ g.checker \in BOOLEAN
  BY SyncAssumption

LEMMA SameSetting ==
  ASSUME setting' = setting
  PROVE  /\ Streams' = Streams /\ Checker' = Checker /\ RunIds' = RunIds /\ Items' = Items
         /\ Slots' = Slots /\ Run' = Run /\ Local' = Local /\ Limits' = Limits
         /\ NoRun' = NoRun
         /\ bounds' = bounds => Job' = Job
  BY DEF Streams, Checker, RunIds, Items, Slots, Run, Local, Job, NoRun, Limits

LEMMA IdleType == SyncInv => Idle \in Local /\ FreeSlot \in Job /\ NoRow \in Source
PROOF
  <1> SUFFICES ASSUME SyncInv PROVE Idle \in Local /\ FreeSlot \in Job /\ NoRow \in Source
    OBVIOUS
  <1>1. NoRow \in Source
    BY DEF NoRow, Source, SourceStates
  <1>2. Idle \in Local
    BY <1>1 DEF Idle, Local, SourceStates, Outcomes
  <1>3. 0 \in 0..setting.items /\ 0 \in 0..(MaxAttempts + bounds.crashes)
    BY SettingType, SyncAssumption DEF SyncInv, TypeOK, Limits
  <1>4. FreeSlot \in Job
    BY <1>3 DEF FreeSlot, Job
  <1>. QED BY <1>1, <1>2, <1>4

(* What a step leaves true of everything but jobs and workers.             *)
RestType ==
  /\ source \in Source
  /\ runs \in [RunIds -> Run]
  /\ seen \in [RunIds -> [Streams -> SUBSET Items]]
  /\ cli \in [pc: {"idle", "read", "purged"}, command: {"pause", "enable", "remove"},
              row: Source]
  /\ index \in [Streams -> SUBSET Items] /\ live \in [Streams -> SUBSET Items]
  /\ away \in [RunIds -> [Streams -> SUBSET Items]]
  /\ exact \subseteq RunIds
  /\ told \in {"pause", "enable", "remove"}
  /\ bounds \in Limits /\ \A k \in DOMAIN bounds : bounds[k] <= setting.limits[k]

(* Jobs are queued but not touched.                                        *)
JobsGrow ==
  /\ jobs' \in [Slots -> Job]
  /\ \A j \in Slots : jobs'[j] = jobs[j]
       \/ /\ jobs[j].status = "free" /\ jobs'[j].status = "pending" /\ jobs'[j].attempts = 0
          /\ jobs'[j].stream # NoStream => Started(jobs'[j].run)

(* Runs that have started stay started and forget nothing of away.         *)
RunsGoOn ==
  \A r \in RunIds :
    /\ Started(r) => /\ runs'[r].status # "none"
                     /\ \A s \in Streams : away[r][s] \subseteq away'[r][s]
    /\ runs'[r].status # "none" => \A s \in Streams : Items \ live'[s] \subseteq away'[r][s]

(* A busy worker goes on with the job it has.                              *)
GoesOn(w, f) ==
  /\ worker[w].pc # "idle" /\ f.pc # "idle" /\ f.slot = worker[w].slot
  /\ f.pc \notin {"sync", "ended"} => f.run \in RunIds /\ runs'[f.run].status # "none"
  /\ f.pc \in PagePcs => worker[w].pc \in PagePcs /\ f.run = worker[w].run
  /\ f.pc = "delete" /\ Checker =>
       f.doomed \subseteq away[worker[w].run][jobs[worker[w].slot].stream]

(* Another's step does not disturb what a worker has.                      *)
LEMMA Kept ==
  ASSUME SyncInv, setting' = setting, RunsGoOn, NEW v \in Workers,
         worker[v].pc # "idle", worker'[v] = worker[v],
         jobs'[worker[v].slot] = jobs[worker[v].slot],
         \A u \in Workers : u # v /\ worker'[u].pc # "idle" => worker'[u].slot # worker[v].slot
  PROVE  Has(v)'
PROOF
  <1>1. /\ Streams' = Streams /\ Checker' = Checker /\ RunIds' = RunIds /\ Slots' = Slots
    BY SameSetting
  <1>2. Has(v)
    BY DEF SyncInv, WorkersOK
  <1>3. worker[v].pc = "delete" /\ Checker =>
          worker[v].doomed \subseteq away'[worker[v].run][jobs[worker[v].slot].stream]
    BY <1>2 DEF Has, Started, PagePcs, RunsGoOn
  <1>. QED BY <1>1, <1>2, <1>3 DEF Has, Started, RunsGoOn

(* Steps that queue jobs and in which busy workers go on.                  *)
LEMMA Frame ==
  ASSUME SyncInv, RestType', setting' = setting, bounds'.crashes = bounds.crashes,
         JobsGrow, RunsGoOn, worker' \in [Workers -> Local],
         \A v \in Workers : worker'[v] = worker[v] \/ GoesOn(v, worker'[v])
  PROVE  SyncInv'
PROOF
  <1>1. /\ Streams' = Streams /\ Checker' = Checker /\ RunIds' = RunIds /\ Items' = Items
        /\ Slots' = Slots /\ Local' = Local
    BY SameSetting
  <1>2. Job' = Job
    BY <1>1 DEF Job
  <1>3. TypeOK'
    BY <1>1, <1>2 DEF TypeOK, RestType, JobsGrow
  <1>4. JobsOK'
    <2>1. ASSUME NEW j \in Slots
          PROVE  /\ jobs'[j].status = "pending" => jobs'[j].attempts < MaxAttempts + bounds.crashes
                 /\ jobs'[j].status = "running" => jobs'[j].attempts >= 1
                 /\ jobs'[j].status # "free" /\ jobs'[j].stream # NoStream =>
                      jobs'[j].run \in RunIds /\ runs'[jobs'[j].run].status # "none"
      <3>1. bounds.crashes \in Nat /\ MaxAttempts \in Nat \ {0}
        BY SyncAssumption DEF SyncInv, TypeOK, Limits
      <3>2. CASE jobs'[j] = jobs[j]
        BY <3>2 DEF SyncInv, JobsOK, Started, RunsGoOn
      <3>3. CASE jobs'[j] # jobs[j]
        BY <3>1, <3>3 DEF JobsGrow, Started, RunsGoOn
      <3>. QED BY <3>2, <3>3
    <2>. QED BY <1>1, <2>1 DEF JobsOK, Started
  <1>5. AwayOK'
    BY <1>1 DEF AwayOK, RunsGoOn
  <1>6. ASSUME NEW v \in Workers, worker[v].pc # "idle"
        PROVE  jobs'[worker[v].slot] = jobs[worker[v].slot]
    BY <1>6 DEF SyncInv, WorkersOK, Has, JobsGrow
  <1>7. ASSUME NEW v \in Workers, worker'[v].pc # "idle"
        PROVE  worker[v].pc # "idle" /\ worker'[v].slot = worker[v].slot
    BY <1>7 DEF GoesOn
  <1>8. ASSUME NEW v \in Workers, NEW u \in Workers, u # v,
               worker'[u].pc # "idle", worker'[v].pc # "idle"
        PROVE  worker'[u].slot # worker'[v].slot
    BY <1>7, <1>8 DEF SyncInv, WorkersOK, Has
  <1>9. ASSUME NEW v \in Workers, worker'[v].pc # "idle" PROVE Has(v)'
    <2>1. worker[v].pc # "idle" /\ worker'[v].slot = worker[v].slot
      BY <1>7, <1>9
    <2>2. CASE worker'[v] = worker[v]
      BY <1>6, <1>8, <1>9, <2>1, <2>2, Kept
    <2>3. CASE GoesOn(v, worker'[v])
      <3>1. Has(v)
        BY <2>1 DEF SyncInv, WorkersOK
      <3>2. jobs'[worker'[v].slot] = jobs[worker[v].slot]
        BY <1>6, <2>1
      <3>3. worker'[v].pc = "delete" /\ Checker =>
              worker'[v].doomed \subseteq away'[worker'[v].run][jobs[worker[v].slot].stream]
        BY <2>3, <3>1 DEF GoesOn, Has, Started, PagePcs, RunsGoOn
      <3>. QED BY <1>1, <1>8, <1>9, <2>1, <2>3, <3>1, <3>2, <3>3 DEF GoesOn, Has, Started
    <2>. QED BY <2>2, <2>3
  <1>10. WorkersOK'
    BY <1>9 DEF WorkersOK
  <1>. QED BY <1>3, <1>4, <1>5, <1>10 DEF SyncInv

(* A worker's step that queues nothing.                                    *)
LEMMA Works ==
  ASSUME SyncInv, NEW w \in Workers, NEW f \in Local, Step(w, f), GoesOn(w, f),
         UNCHANGED <<jobs, live, away, cli, told, bounds, setting>>,
         source' \in Source, runs' \in [RunIds -> Run],
         \A r \in RunIds : runs'[r].status = "none" <=> runs[r].status = "none",
         seen' \in [RunIds -> [Streams -> SUBSET Items]],
         index' \in [Streams -> SUBSET Items], exact' \subseteq RunIds
  PROVE  SyncInv'
PROOF
  <1>1. RestType'
    BY SameSetting DEF RestType, SyncInv, TypeOK
  <1>2. JobsGrow
    BY DEF JobsGrow, SyncInv, TypeOK
  <1>3. RunsGoOn
    BY DEF RunsGoOn, Started, SyncInv, AwayOK
  <1>4. /\ worker' \in [Workers -> Local]
        /\ \A v \in Workers : worker'[v] = worker[v] \/ GoesOn(v, worker'[v])
    BY DEF Step, SyncInv, TypeOK
  <1>. QED BY <1>1, <1>2, <1>3, <1>4, Frame

(* What a worker that is busy may rely on.                                 *)
LEMMA Busy ==
  ASSUME SyncInv, NEW w \in Workers, worker[w].pc # "idle"
  PROVE  /\ worker[w] \in Local /\ Has(w)
         /\ worker[w].slot \in Slots /\ jobs[worker[w].slot] \in Job
         /\ worker[w].pc \notin {"sync", "ended"} =>
              worker[w].run \in RunIds /\ runs[worker[w].run].status # "none"
         /\ worker[w].pc \in PagePcs => StreamOf(w) \in Streams
  BY DEF SyncInv, TypeOK, WorkersOK, Has, Started, StreamOf

(* note_stream leaves the run's own status alone.                          *)
LEMMA Noted ==
  ASSUME SyncInv, NEW r \in RunIds, NEW S, NEW outcome \in {"running", "done", "failed"},
         NoteAll(r, S, outcome)
  PROVE  /\ runs' \in [RunIds -> Run]
         /\ \A q \in RunIds : runs'[q].status = runs[q].status
PROOF
  <1>1. runs \in [RunIds -> Run]
    BY DEF SyncInv, TypeOK
  <1>2. CASE runs[r].status = "deleted"
    BY <1>1, <1>2 DEF NoteAll
  <1>3. CASE runs[r].status # "deleted"
    <2> DEFINE new == [s \in Streams |-> IF s \in S THEN outcome ELSE runs[r].streams[s]]
    <2>1. runs' = [runs EXCEPT ![r].streams = new]
      BY <1>3 DEF NoteAll
    <2>2. runs[r] \in Run
      BY <1>1
    <2>3. new \in [Streams -> {"none", "running", "done", "failed"}]
      BY <2>2 DEF Run
    <2>. HIDE DEF new
    <2>. QED BY <1>1, <2>1, <2>2, <2>3 DEF Run
  <1>. QED BY <1>2, <1>3

LEMMA Fits == ASSUME SyncInv, NEW w \in Workers, ToolsFit(w) PROVE SyncInv'
PROOF
  <1> DEFINE f == [worker[w] EXCEPT !.pc = "fanout", !.todo = Streams]
  <1>. worker[w] \in Local /\ worker[w].pc # "idle"
    BY DEF SyncInv, TypeOK, ToolsFit
  <1>1. f \in Local
    BY DEF Local
  <1>2. GoesOn(w, f)
    BY Busy DEF ToolsFit, GoesOn, PagePcs, Local
  <1>3. Step(w, f)
    BY DEF ToolsFit
  <1>. HIDE DEF f
  <1>. QED BY <1>1, <1>2, <1>3, Works DEF ToolsFit, SyncInv, TypeOK

(* A run's status changes, but not to none.                                *)
LEMMA StatusSet ==
  ASSUME SyncInv, NEW r \in RunIds,
         NEW x \in {"running", "succeeded", "partial", "failed", "deleted"},
         runs' = [runs EXCEPT ![r].status = x], runs[r].status # "none"
  PROVE  /\ runs' \in [RunIds -> Run]
         /\ \A q \in RunIds : runs'[q].status = "none" <=> runs[q].status = "none"
PROOF
  <1> DEFINE new == [runs[r] EXCEPT !.status = x]
  <1>1. runs \in [RunIds -> Run] /\ runs[r] \in Run
    BY DEF SyncInv, TypeOK
  <1>2. new \in Run /\ new.status = x
    BY <1>1 DEF Run
  <1>3. runs' = [runs EXCEPT ![r] = new]
    OBVIOUS
  <1>. HIDE DEF new
  <1>. QED BY <1>1, <1>2, <1>3

LEMMA Fails ==
  ASSUME SyncInv, NEW w \in Workers, NEW fail \in setting.failures, ToolsFail(w, fail)
  PROVE  SyncInv'
PROOF
  <1>. worker[w] \in Local /\ worker[w].pc # "idle" /\ worker[w].pc = "tools"
    BY DEF SyncInv, TypeOK, ToolsFail
  <1>0. worker[w].run \in RunIds
    BY Busy
  <1>1. CASE fail = "unauthorized"
    <2> DEFINE f == [worker[w] EXCEPT !.pc = "state", !.to = "needs_reauth"]
    <2>1. f \in Local /\ GoesOn(w, f) /\ Step(w, f)
      BY <1>1, Busy DEF ToolsFail, Local, SourceStates, GoesOn, PagePcs
    <2>. HIDE DEF f
    <2>. QED BY <1>1, <2>1, Works DEF ToolsFail, SyncInv, TypeOK
  <1>2. CASE fail # "unauthorized"
    <2> DEFINE f == IF fail = "refused" THEN [worker[w] EXCEPT !.pc = "state", !.to = "error"]
                    ELSE Ended(w, FALSE)
    <2>1. /\ runs' \in [RunIds -> Run]
          /\ \A r \in RunIds : runs'[r].status = "none" <=> runs[r].status = "none"
      <3> DEFINE x == IF runs[worker[w].run].status = "deleted" THEN "deleted" ELSE "failed"
      <3>1. runs' = [runs EXCEPT ![worker[w].run].status = x]
        BY <1>2 DEF ToolsFail
      <3>2. runs[worker[w].run].status # "none" /\ x \in {"failed", "deleted"}
        BY Busy
      <3>. HIDE DEF x
      <3>. QED BY <1>0, <3>1, <3>2, StatusSet
    <2>2. seen' \in [RunIds -> [Streams -> SUBSET Items]]
      BY <1>0, <1>2 DEF ToolsFail, SyncInv, TypeOK
    <2>3. f \in Local /\ GoesOn(w, f) /\ Step(w, f)
      BY <1>2, <2>1, Busy DEF ToolsFail, Local, SourceStates, GoesOn, PagePcs, Ended
    <2>. HIDE DEF f
    <2>. QED BY <1>2, <2>1, <2>2, <2>3, Works DEF ToolsFail, SyncInv, TypeOK
  <1>. QED BY <1>1, <1>2

LEMMA AfterStateFits ==
  ASSUME SyncInv, NEW w \in Workers, worker[w].pc \in {"state", "outcome", "save"}
  PROVE  AfterState(w) \in Local
         /\ ((\A r \in RunIds : runs'[r].status = "none" <=> runs[r].status = "none")
               => GoesOn(w, AfterState(w)))
PROOF
  <1>. worker[w] \in Local /\ worker[w].pc # "idle" /\ NoRow \in Source
    BY IdleType DEF SyncInv, TypeOK
  <1>1. Idle.row = NoRow
    BY DEF Idle
  <1>2. AfterState(w) \in Local
    BY <1>1 DEF AfterState, Local
  <1>. QED BY <1>2, Busy DEF AfterState, Local, GoesOn, PagePcs

LEMMA Reads == ASSUME SyncInv, NEW w \in Workers, GetSource(w) PROVE SyncInv'
PROOF
  <1> DEFINE f == [worker[w] EXCEPT !.pc = "save", !.row = source]
  <1>. worker[w] \in Local /\ worker[w].pc # "idle" /\ source \in Source
       /\ worker[w].pc \in {"state", "outcome"}
    BY DEF SyncInv, TypeOK, GetSource
  <1>. runs' = runs
    BY DEF GetSource
  <1>1. f \in Local /\ GoesOn(w, f)
    BY Busy DEF Local, GoesOn, PagePcs
  <1>2. AfterState(w) \in Local /\ GoesOn(w, AfterState(w))
    BY AfterStateFits
  <1>3. Step(w, f) \/ Step(w, AfterState(w))
    BY DEF GetSource
  <1>. HIDE DEF f
  <1>. QED BY <1>1, <1>2, <1>3, Works DEF GetSource, SyncInv, TypeOK

LEMMA Saves == ASSUME SyncInv, NEW w \in Workers, SaveSource(w) PROVE SyncInv'
PROOF
  <1>. worker[w] \in Local /\ worker[w].pc = "save" /\ runs' = runs
    BY DEF SyncInv, TypeOK, SaveSource
  <1>1. AfterState(w) \in Local /\ GoesOn(w, AfterState(w))
    BY AfterStateFits
  <1>2. source' \in Source
    BY DEF SaveSource, Local, Source
  <1>. QED BY <1>1, <1>2, Works DEF SaveSource, SyncInv, TypeOK

LEMMA DenyChecks ==
  ASSUME SyncInv, NEW w \in Workers, NEW s \in Streams, DenyCheck(w, s) PROVE SyncInv'
PROOF
  <1> DEFINE f == [worker[w] EXCEPT !.todo = @ \ {s},
                    !.failing = IF runs[worker[w].run].streams[s] \in {"done", "failed"}
                                THEN {} ELSE {s}]
  <1>. worker[w] \in Local /\ worker[w].pc = "deny" /\ runs' = runs
    BY DEF SyncInv, TypeOK, DenyCheck
  <1>1. f \in Local /\ GoesOn(w, f)
    BY Busy DEF Local, GoesOn, PagePcs
  <1>2. Step(w, f)
    BY DEF DenyCheck
  <1>. HIDE DEF f
  <1>. QED BY <1>1, <1>2, Works DEF DenyCheck, SyncInv, TypeOK

LEMMA DenyNotes == ASSUME SyncInv, NEW w \in Workers, DenyNote(w) PROVE SyncInv'
PROOF
  <1> DEFINE f == [worker[w] EXCEPT !.failing = {}]
  <1>. worker[w] \in Local /\ worker[w].pc = "deny"
    BY DEF SyncInv, TypeOK, DenyNote
  <1>1. /\ runs' \in [RunIds -> Run]
        /\ \A q \in RunIds : runs'[q].status = runs[q].status
    BY Busy, Noted DEF DenyNote
  <1>2. f \in Local /\ GoesOn(w, f)
    BY <1>1, Busy DEF Local, GoesOn, PagePcs
  <1>3. Step(w, f)
    BY DEF DenyNote
  <1>. HIDE DEF f
  <1>. QED BY <1>1, <1>2, <1>3, Works DEF DenyNote, SyncInv, TypeOK

LEMMA OutcomeType == ASSUME NEW r PROVE Outcome(r) \in Outcomes
  BY DEF Outcome, Outcomes

LEMMA ReadsRun == ASSUME SyncInv, NEW w \in Workers, ReadRun(w) PROVE SyncInv'
PROOF
  <1> DEFINE r == worker[w].run
             f == [worker[w] EXCEPT !.pc = "close", !.outcome = Outcome(r)]
             g == [worker[w] EXCEPT !.pc = "ended"]
  <1>. worker[w] \in Local /\ worker[w].pc \in {"finish", "deny"}
    BY DEF SyncInv, TypeOK, ReadRun, AllDenied
  <1>1. runs' = runs /\ r \in RunIds /\ runs[r].status # "none"
    BY Busy DEF ReadRun
  <1>2. f \in Local /\ GoesOn(w, f)
    BY <1>1, OutcomeType DEF Local, GoesOn, PagePcs
  <1>3. g \in Local /\ GoesOn(w, g)
    BY <1>1 DEF Local, GoesOn, PagePcs
  <1>4. Step(w, f) \/ Step(w, g)
    BY DEF ReadRun
  <1>. HIDE DEF f, g
  <1>. QED BY <1>1, <1>2, <1>3, <1>4, Works DEF ReadRun, SyncInv, TypeOK

LEMMA FinishesRun == ASSUME SyncInv, NEW w \in Workers, FinishRun(w) PROVE SyncInv'
PROOF
  <1> DEFINE r == worker[w].run
             f == [worker[w] EXCEPT !.pc = "outcome", !.outcome = Idle.outcome,
                      !.to = IF worker[w].outcome = "failed" THEN "error" ELSE "active"]
             o == IF runs[r].status = "deleted" THEN "deleted" ELSE worker[w].outcome
  <1>. worker[w] \in Local /\ worker[w].pc = "close"
    BY DEF SyncInv, TypeOK, FinishRun
  <1>0. r \in RunIds /\ runs[r].status # "none"
    BY Busy
  <1>1. o \in {"succeeded", "partial", "failed", "deleted"}
    BY DEF Local, Outcomes
  <1>2. runs' = [runs EXCEPT ![r].status = o]
    BY DEF FinishRun
  <1>. HIDE DEF o
  <1>3. /\ runs' \in [RunIds -> Run]
        /\ \A q \in RunIds : runs'[q].status = "none" <=> runs[q].status = "none"
    BY <1>0, <1>1, <1>2, StatusSet
  <1>4. seen' \in [RunIds -> [Streams -> SUBSET Items]]
    BY <1>0 DEF FinishRun, SyncInv, TypeOK
  <1>5. Idle.outcome \in Outcomes
    BY DEF Idle, Outcomes
  <1>6. f \in Local /\ GoesOn(w, f)
    BY <1>0, <1>3, <1>5 DEF Local, SourceStates, GoesOn, PagePcs
  <1>7. Step(w, f)
    BY DEF FinishRun
  <1>. HIDE DEF f
  <1>. QED BY <1>3, <1>4, <1>6, <1>7, Works DEF FinishRun, SyncInv, TypeOK

LEMMA Begins == ASSUME SyncInv, NEW w \in Workers, BeginPage(w) PROVE SyncInv'
PROOF
  <1> DEFINE f == [worker[w] EXCEPT !.pc = "fetch"]
  <1>. worker[w] \in Local /\ worker[w].pc = "page" /\ worker[w].run \in RunIds
    BY Busy DEF SyncInv, TypeOK, BeginPage
  <1>1. /\ runs' \in [RunIds -> Run]
        /\ \A r \in RunIds : runs'[r].status = "none" <=> runs[r].status = "none"
    BY Noted DEF BeginPage, Note, SyncInv, TypeOK
  <1>2. f \in Local /\ GoesOn(w, f)
    BY <1>1, Busy DEF Local, GoesOn, PagePcs
  <1>3. Ended(w, TRUE) \in Local /\ GoesOn(w, Ended(w, TRUE))
    BY DEF Ended, Local, GoesOn, PagePcs
  <1>4. Step(w, f) \/ Step(w, Ended(w, TRUE))
    BY DEF BeginPage
  <1>. HIDE DEF f
  <1>. QED BY <1>1, <1>2, <1>3, <1>4, Works DEF BeginPage, SyncInv, TypeOK

(* What a list tool answers: items, and a cursor within bounds.            *)
LEMMA Answers ==
  ASSUME SyncInv, NEW s \in Streams, NEW c \in 0..setting.items
  PROVE  Page(s, c) \in SUBSET Items /\ NextCursor(s, c) \in SUBSET (0..setting.items)
PROOF
  <1>1. setting.items \in Nat /\ live[s] \subseteq Items
    BY SettingType DEF SyncInv, TypeOK
  <1>2. After(s, c) \subseteq Items
    BY <1>1 DEF After
  <1>3. Page(s, c) \subseteq Items
    BY <1>2 DEF Page
  <1>4. ASSUME setting.byOffset, NEW i \in After(s, c) PROVE c + 1 \in 0..setting.items
    <2> DEFINE K == {k \in live[s] : k <= i}
    <2>1. Cardinality(K) > c
      BY <1>4 DEF After
    <2>2. IsFiniteSet(1..setting.items) /\ Cardinality(1..setting.items) = setting.items
      <3>1. 1 \in Int /\ setting.items \in Int
        BY <1>1
      <3>2. /\ IsFiniteSet(1..setting.items)
            /\ Cardinality(1..setting.items) =
                 IF 1 <= setting.items THEN setting.items - 1 + 1 ELSE 0
        BY <3>1, FS_Interval
      <3>. QED BY <1>1, <3>2
    <2>3. K \subseteq 1..setting.items
      BY <1>1 DEF Items
    <2>4. Cardinality(K) <= setting.items /\ Cardinality(K) \in Nat
      BY <2>2, <2>3, FS_Subset, FS_CardinalityType
    <2>. HIDE DEF K
    <2>. QED BY <1>1, <2>1, <2>4
  <1>5. NextCursor(s, c) \subseteq 0..setting.items
    BY <1>1, <1>3, <1>4 DEF NextCursor, Items
  <1>. QED BY <1>3, <1>5

LEMMA Fetches ==
  ASSUME SyncInv, NEW w \in Workers, NEW early \in BOOLEAN, Fetch(w, early) PROVE SyncInv'
PROOF
  <1> DEFINE s == StreamOf(w)  c == CursorOf(w)
             next == IF early THEN {} ELSE NextCursor(s, c)
             whole == NextCursor(s, c) = {} /\ ~early
             f == [worker[w] EXCEPT !.pc = "index", !.page = Page(s, c), !.next = next,
                                    !.whole = whole]
  <1>. worker[w] \in Local /\ worker[w].pc = "fetch" /\ runs' = runs
    BY DEF SyncInv, TypeOK, Fetch
  <1>1. s \in Streams /\ c \in 0..setting.items
    BY Busy DEF StreamOf, CursorOf, Job, PagePcs
  <1>2. Step(w, f) /\ exact' \subseteq RunIds
    BY DEF Fetch, SyncInv, TypeOK
  <1>3. /\ Page(s, c) \in SUBSET Items /\ next \in SUBSET (0..setting.items)
        /\ whole \in BOOLEAN
    BY <1>1, Answers
  <1>. HIDE DEF s, c, next, whole
  <1>4. f \in Local /\ GoesOn(w, f)
    BY <1>3, Busy DEF Local, GoesOn, PagePcs
  <1>. HIDE DEF f
  <1>. QED BY <1>2, <1>4, Works DEF Fetch, SyncInv, TypeOK

LEMMA Indexes == ASSUME SyncInv, NEW w \in Workers, IndexPage(w) PROVE SyncInv'
PROOF
  <1> DEFINE f == [worker[w] EXCEPT !.pc = "mark"]
  <1>. worker[w] \in Local /\ worker[w].pc = "index" /\ runs' = runs
    BY DEF SyncInv, TypeOK, IndexPage
  <1>1. f \in Local /\ Step(w, f)
    BY DEF Local, IndexPage
  <1>4. GoesOn(w, f)
    BY Busy DEF Local, GoesOn, PagePcs
  <1>2. worker[w].page \subseteq Items /\ StreamOf(w) \in Streams
    BY Busy DEF Local, PagePcs
  <1>3. index' \in [Streams -> SUBSET Items]
    BY <1>2 DEF IndexPage, SyncInv, TypeOK
  <1>. HIDE DEF f
  <1>. QED BY <1>1, <1>3, <1>4, Works DEF IndexPage, SyncInv, TypeOK

LEMMA Marks == ASSUME SyncInv, NEW w \in Workers, MarkSeen(w) PROVE SyncInv'
PROOF
  <1> DEFINE f == [worker[w] EXCEPT !.page = {}, !.whole = FALSE,
                    !.pc = IF worker[w].next # {} THEN "next"
                           ELSE IF worker[w].whole THEN "reconcile" ELSE "done"]
  <1>. worker[w] \in Local /\ worker[w].pc = "mark" /\ runs' = runs
    BY DEF SyncInv, TypeOK, MarkSeen
  <1>1. f \in Local /\ Step(w, f)
    BY DEF Local, MarkSeen
  <1>5. f.pc \in {"next", "reconcile", "done"} /\ f.slot = worker[w].slot /\ f.run = worker[w].run
    BY DEF Local
  <1>6. GoesOn(w, f)
    BY <1>5, Busy DEF GoesOn, PagePcs
  <1>2. worker[w].page \subseteq Items /\ StreamOf(w) \in Streams /\ worker[w].run \in RunIds
    BY Busy DEF Local, PagePcs
  <1>3. Marked(w) \subseteq Items
    BY <1>2 DEF Marked, SyncInv, TypeOK
  <1>4. seen' \in [RunIds -> [Streams -> SUBSET Items]]
    BY <1>2, <1>3 DEF MarkSeen, SyncInv, TypeOK
  <1>. HIDE DEF f
  <1>. QED BY <1>1, <1>4, <1>6, Works DEF MarkSeen, SyncInv, TypeOK

(* With a checker, what is doomed is what the source lacks, and has lacked *)
(* at some time since the run began.                                       *)
LEMMA Reconciles == ASSUME SyncInv, NEW w \in Workers, Reconcile(w) PROVE SyncInv'
PROOF
  <1>. worker[w] \in Local /\ worker[w].pc = "reconcile" /\ runs' = runs
    BY DEF SyncInv, TypeOK, Reconcile
  <1>1. /\ StreamOf(w) \in Streams /\ worker[w].run \in RunIds
        /\ runs[worker[w].run].status # "none"
    BY Busy DEF PagePcs
  <1>2. Missing(w) \subseteq Items
    BY <1>1 DEF Missing, SyncInv, TypeOK
  <1>3. Doomed(w) \subseteq Items
    BY <1>2 DEF Doomed
  <1>4. Checker => Doomed(w) \subseteq away[worker[w].run][StreamOf(w)]
    BY <1>1, <1>2 DEF Doomed, SyncInv, AwayOK
  <1>5. PICK kept : Step(w, [worker[w] EXCEPT !.pc = "delete", !.doomed = Doomed(w) \ kept])
    BY DEF Reconcile
  <1> DEFINE f == [worker[w] EXCEPT !.pc = "delete", !.doomed = Doomed(w) \ kept]
  <1>6. f \in Local
    BY <1>3 DEF Local
  <1>7. GoesOn(w, f)
    BY <1>1, <1>4 DEF Local, GoesOn, PagePcs, StreamOf
  <1>8. exact' \subseteq RunIds
    BY DEF Reconcile, SyncInv, TypeOK
  <1>. HIDE DEF f
  <1>. QED BY <1>5, <1>6, <1>7, <1>8, Works DEF Reconcile, SyncInv, TypeOK, f

LEMMA Deletes == ASSUME SyncInv, NEW w \in Workers, DeleteDoomed(w) PROVE SyncInv'
PROOF
  <1> DEFINE f == [worker[w] EXCEPT !.pc = "done", !.doomed = {}]
  <1>. worker[w] \in Local /\ worker[w].pc = "delete" /\ runs' = runs
    BY DEF SyncInv, TypeOK, DeleteDoomed
  <1>1. f \in Local /\ GoesOn(w, f) /\ Step(w, f)
    BY Busy DEF Local, GoesOn, PagePcs, DeleteDoomed
  <1>2. index' \in [Streams -> SUBSET Items]
    BY DEF DeleteDoomed, SyncInv, TypeOK
  <1>. HIDE DEF f
  <1>. QED BY <1>1, <1>2, Works DEF DeleteDoomed, SyncInv, TypeOK

LEMMA Dones == ASSUME SyncInv, NEW w \in Workers, StreamDone(w) PROVE SyncInv'
PROOF
  <1> DEFINE f == [worker[w] EXCEPT !.pc = "finish"]
  <1>. worker[w] \in Local /\ worker[w].pc = "done" /\ worker[w].run \in RunIds
    BY Busy DEF SyncInv, TypeOK, StreamDone
  <1>1. /\ runs' \in [RunIds -> Run]
        /\ \A q \in RunIds : runs'[q].status = runs[q].status
    BY Noted DEF StreamDone, Note
  <1>2. f \in Local /\ GoesOn(w, f) /\ Step(w, f)
    BY <1>1, Busy DEF Local, GoesOn, PagePcs, StreamDone
  <1>. HIDE DEF f
  <1>. QED BY <1>1, <1>2, Works DEF StreamDone, SyncInv, TypeOK

(* A call that fails: the handler forgets its locals but not its run.      *)
LEMMA GivesWay ==
  ASSUME SyncInv, NEW w \in Workers, NEW f \in Local, Step(w, f),
         f.pc \in {"state", "finish", "ended"}, f.slot = worker[w].slot, f.run = worker[w].run,
         Calling(w), UNCHANGED runs \/ Note(w, "failed"),
         UNCHANGED <<source, seen, jobs, cli, index, live, away, exact, told, bounds, setting>>
  PROVE  SyncInv'
PROOF
  <1>. /\ worker[w] \in Local /\ worker[w].pc \in {"fetch", "mark", "reconcile"}
       /\ worker[w].run \in RunIds
    BY Busy DEF SyncInv, TypeOK, Calling
  <1>1. /\ runs' \in [RunIds -> Run]
        /\ \A q \in RunIds : runs'[q].status = runs[q].status
    BY Noted DEF Note, SyncInv, TypeOK
  <1>2. GoesOn(w, f)
    BY <1>1, Busy DEF GoesOn, PagePcs
  <1>. QED BY <1>1, <1>2, Works DEF SyncInv, TypeOK

LEMMA CallsFail ==
  ASSUME SyncInv, NEW w \in Workers, Unauthorized(w) \/ Unavailable(w) \/ Refused(w)
  PROVE  SyncInv'
PROOF
  <1>0. worker[w].slot \in Slots /\ worker[w].run \in RunIds /\ Idle \in Local
    BY Busy, IdleType DEF Unauthorized, Unavailable, Refused, Calling
  <1>1. CASE Unauthorized(w)
    <2> DEFINE f == [Idle EXCEPT !.pc = "state", !.to = "needs_reauth", !.slot = worker[w].slot,
                                 !.run = worker[w].run]
    <2>1. f \in Local /\ f.pc = "state" /\ f.slot = worker[w].slot /\ f.run = worker[w].run
      BY <1>0 DEF Local, SourceStates
    <2>2. Step(w, f)
      BY <1>1 DEF Unauthorized
    <2>. HIDE DEF f
    <2>. QED BY <1>1, <2>1, <2>2, GivesWay DEF Unauthorized
  <1>2. CASE Unavailable(w)
    <2> DEFINE pc == IF GivesUp(w) THEN "finish" ELSE "ended"
               f == [Idle EXCEPT !.pc = pc, !.ok = FALSE, !.slot = worker[w].slot,
                                 !.run = worker[w].run]
    <2>1. pc \in {"finish", "ended"}
      OBVIOUS
    <2>2. Step(w, f)
      BY <1>2 DEF Unavailable
    <2>. HIDE DEF pc
    <2>3. f \in Local /\ f.pc = pc /\ f.slot = worker[w].slot /\ f.run = worker[w].run
      BY <1>0, <2>1 DEF Local
    <2>. HIDE DEF f
    <2>. QED BY <1>2, <2>1, <2>2, <2>3, GivesWay DEF Unavailable
  <1>3. CASE Refused(w)
    <2> DEFINE f == [Idle EXCEPT !.pc = "finish", !.slot = worker[w].slot, !.run = worker[w].run]
    <2>1. f \in Local /\ f.pc = "finish" /\ f.slot = worker[w].slot /\ f.run = worker[w].run
      BY <1>0 DEF Local
    <2>2. Step(w, f)
      BY <1>3 DEF Refused
    <2>. HIDE DEF f
    <2>. QED BY <1>3, <2>1, <2>2, GivesWay DEF Refused
  <1>. QED BY <1>1, <1>2, <1>3

-----------------------------------------------------------------------------
(* Steps that start a run or queue a job.                                  *)
LEMMA Starts == ASSUME SyncInv, NEW w \in Workers, StartRun(w) PROVE SyncInv'
PROOF
  <1>. worker[w] \in Local /\ worker[w].pc = "sync"
    BY DEF SyncInv, TypeOK, StartRun
  <1>1. CASE source.present /\ source.enabled
    <2>1. PICK r \in RunIds :
            /\ runs[r].status = "none"
            /\ runs' = [runs EXCEPT ![r].status = "running"]
            /\ away' = [away EXCEPT ![r] = [s \in Streams |-> Items \ live[s]]]
            /\ exact' = IF Underway THEN {} ELSE exact \cup {r}
            /\ Step(w, [worker[w] EXCEPT !.pc = "tools", !.run = r])
      BY <1>1 DEF StartRun
    <2> DEFINE new == [runs[r] EXCEPT !.status = "running"]
               f == [worker[w] EXCEPT !.pc = "tools", !.run = r]
    <2>2. runs[r] \in Run /\ runs \in [RunIds -> Run]
      BY DEF SyncInv, TypeOK
    <2>3. new \in Run /\ new.status = "running"
      BY <2>2 DEF Run
    <2>4. runs' = [runs EXCEPT ![r] = new]
      BY <2>1
    <2>. HIDE DEF new
    <2>5. /\ runs' \in [RunIds -> Run] /\ runs'[r].status = "running"
          /\ \A q \in RunIds : q # r => runs'[q] = runs[q]
      BY <2>2, <2>3, <2>4
    <2>6. away' \in [RunIds -> [Streams -> SUBSET Items]] /\ exact' \subseteq RunIds
      BY <2>1 DEF SyncInv, TypeOK
    <2>7. RestType'
      BY <2>5, <2>6, SameSetting DEF RestType, SyncInv, TypeOK, StartRun
    <2>8. RunsGoOn
      BY <2>1, <2>5 DEF RunsGoOn, Started, SyncInv, TypeOK, AwayOK, StartRun
    <2>9. f \in Local /\ GoesOn(w, f)
      BY <2>5 DEF Local, GoesOn, PagePcs
    <2>10. Step(w, f)
      BY <2>1
    <2>. HIDE DEF f
    <2>11. /\ worker' \in [Workers -> Local]
           /\ \A v \in Workers : worker'[v] = worker[v] \/ GoesOn(v, worker'[v])
      BY <2>9, <2>10 DEF Step, SyncInv, TypeOK
    <2>12. JobsGrow
      BY DEF StartRun, JobsGrow, SyncInv, TypeOK
    <2>. QED BY <2>7, <2>8, <2>11, <2>12, Frame DEF StartRun
  <1>2. CASE ~(source.present /\ source.enabled)
    <2>1. Ended(w, TRUE) \in Local /\ GoesOn(w, Ended(w, TRUE)) /\ Step(w, Ended(w, TRUE))
      BY <1>2 DEF StartRun, Ended, Local, GoesOn, PagePcs
    <2>. QED BY <1>2, <2>1, Works DEF StartRun, SyncInv, TypeOK
  <1>. QED BY <1>1, <1>2

LEMMA Enqueued ==
  ASSUME SyncInv, NEW r \in RunIds \cup {0}, NEW s \in Streams \cup {NoStream},
         NEW c \in 0..setting.items, s # NoStream => Started(r), Enqueue(Queued(r, s, c))
  PROVE  JobsGrow
PROOF
  <1> DEFINE job == Queued(r, s, c)
  <1>1. 0 \in 0..(MaxAttempts + bounds.crashes)
    BY SyncAssumption DEF SyncInv, TypeOK, Limits
  <1>2. job \in Job
    BY <1>1 DEF Queued, FreeSlot, Job
  <1>3. job.status = "pending" /\ job.attempts = 0 /\ job.stream = s /\ job.run = r
    BY DEF Queued, FreeSlot
  <1>4. PICK j \in Slots : jobs[j].status = "free" /\ jobs' = [jobs EXCEPT ![j] = job]
    BY DEF Enqueue, FirstFree
  <1>. HIDE DEF job
  <1>. QED BY <1>2, <1>3, <1>4 DEF JobsGrow, SyncInv, TypeOK

LEMMA FansOut ==
  ASSUME SyncInv, NEW w \in Workers, NEW s \in Streams, FanOut(w, s) PROVE SyncInv'
PROOF
  <1> DEFINE left == worker[w].todo \ {s}
             f == IF left # {} THEN [worker[w] EXCEPT !.todo = left]
                  ELSE [worker[w] EXCEPT !.pc = "state", !.todo = {}, !.to = "active"]
  <1>. worker[w] \in Local /\ worker[w].pc = "fanout"
    BY DEF SyncInv, TypeOK, FanOut
  <1>0. worker[w].run \in RunIds /\ Started(worker[w].run)
    BY Busy DEF Started
  <1>1. /\ runs' \in [RunIds -> Run]
        /\ \A q \in RunIds : runs'[q].status = runs[q].status
    BY <1>0, Noted DEF FanOut
  <1>2. f \in Local
    BY DEF Local, SourceStates
  <1>3. f.pc \in {"fanout", "state"} /\ f.slot = worker[w].slot /\ f.run = worker[w].run
    BY DEF Local
  <1>4. Step(w, f)
    BY DEF FanOut
  <1>. HIDE DEF f
  <1>5. GoesOn(w, f)
    BY <1>0, <1>1, <1>3 DEF GoesOn, PagePcs, Started
  <1>6. /\ worker' \in [Workers -> Local]
        /\ \A v \in Workers : worker'[v] = worker[v] \/ GoesOn(v, worker'[v])
    BY <1>2, <1>4, <1>5 DEF Step, SyncInv, TypeOK
  <1>7. 0 \in 0..setting.items
    BY SettingType DEF SyncInv
  <1>8. JobsGrow
    BY <1>0, <1>7, Enqueued DEF FanOut
  <1>9. RestType'
    BY <1>1, SameSetting DEF RestType, SyncInv, TypeOK, FanOut
  <1>10. RunsGoOn
    BY <1>1 DEF RunsGoOn, Started, SyncInv, AwayOK, FanOut
  <1>. QED BY <1>6, <1>8, <1>9, <1>10, Frame DEF FanOut

LEMMA NextPages == ASSUME SyncInv, NEW w \in Workers, NextPage(w) PROVE SyncInv'
PROOF
  <1> DEFINE f == [worker[w] EXCEPT !.pc = "ended", !.next = {}]
  <1>. worker[w] \in Local /\ worker[w].pc = "next"
    BY DEF SyncInv, TypeOK, NextPage
  <1>0. /\ worker[w].run \in RunIds /\ Started(worker[w].run)
        /\ StreamOf(w) \in Streams
    BY Busy DEF Started, PagePcs
  <1>1. PICK c \in worker[w].next : Enqueue(Queued(worker[w].run, StreamOf(w), c))
    BY DEF NextPage
  <1>2. c \in 0..setting.items
    BY DEF Local
  <1>3. JobsGrow
    BY <1>0, <1>1, <1>2, Enqueued
  <1>4. f \in Local /\ Step(w, f)
    BY DEF Local, NextPage
  <1>9. f.pc = "ended" /\ f.slot = worker[w].slot
    BY DEF Local
  <1>5. GoesOn(w, f)
    BY <1>9 DEF GoesOn, PagePcs
  <1>. HIDE DEF f
  <1>6. /\ worker' \in [Workers -> Local]
        /\ \A v \in Workers : worker'[v] = worker[v] \/ GoesOn(v, worker'[v])
    BY <1>4, <1>5 DEF Step, SyncInv, TypeOK
  <1>7. RestType'
    BY SameSetting DEF RestType, SyncInv, TypeOK, NextPage
  <1>8. RunsGoOn
    BY DEF RunsGoOn, Started, SyncInv, AwayOK, NextPage
  <1>. QED BY <1>3, <1>6, <1>7, <1>8, Frame DEF NextPage

(* The scheduler's, the CLI's and the source's steps.                      *)
LEMMA Outside ==
  ASSUME SyncInv, RestType', UNCHANGED <<worker, setting>>, bounds'.crashes = bounds.crashes,
         JobsGrow, RunsGoOn
  PROVE  SyncInv'
  BY Frame DEF SyncInv, TypeOK

LEMMA Asks == ASSUME SyncInv, jobs' = jobs \/ Enqueue(Queued(0, NoStream, 0)) PROVE JobsGrow
PROOF
  <1>1. 0 \in 0..setting.items
    BY SettingType DEF SyncInv
  <1>. QED BY <1>1, Enqueued DEF JobsGrow, SyncInv, TypeOK

LEMMA OthersStep ==
  ASSUME SyncInv,
         \/ RequestSync \/ Pause \/ Enable \/ RemoveDocuments \/ RemoveRows \/ Rest
         \/ \E command \in setting.commands : CliReads(command)
  PROVE  SyncInv'
PROOF
  <1>0. JobsGrow
    BY Asks DEF RequestSync, Pause, Enable, RemoveDocuments, RemoveRows, Rest, CliReads, vars
  <1>1. CASE RequestSync \/ Pause \/ Enable \/ RemoveDocuments \/ Rest
    <2>1. source' \in Source
      BY <1>1 DEF RequestSync, Pause, Enable, RemoveDocuments, Rest, vars,
                  SyncInv, TypeOK, Source, SourceStates
    <2>2. cli' \in [pc: {"idle", "read", "purged"}, command: {"pause", "enable", "remove"},
                    row: Source]
          /\ told' \in {"pause", "enable", "remove"}
      BY <1>1, IdleType DEF RequestSync, Pause, Enable, RemoveDocuments, Rest, vars, CliDone,
                  SyncInv, TypeOK
    <2>3. index' \in [Streams -> SUBSET Items]
      BY <1>1 DEF RequestSync, Pause, Enable, RemoveDocuments, Rest, vars, SyncInv, TypeOK
    <2>4. UNCHANGED <<runs, seen, worker, live, away, exact, bounds, setting>>
      BY <1>1 DEF RequestSync, Pause, Enable, RemoveDocuments, Rest, vars
    <2>5. RestType'
      BY <2>1, <2>2, <2>3, <2>4, SameSetting DEF RestType, SyncInv, TypeOK
    <2>6. RunsGoOn
      BY <2>4 DEF RunsGoOn, Started, SyncInv, AwayOK
    <2>. QED BY <1>0, <2>4, <2>5, <2>6, Outside
  <1>2. CASE RemoveRows
    <2>1. source' \in Source
      BY <1>2 DEF RemoveRows, SyncInv, TypeOK, Source
    <2>2. cli' \in [pc: {"idle", "read", "purged"}, command: {"pause", "enable", "remove"},
                    row: Source]
          /\ told' \in {"pause", "enable", "remove"}
      BY <1>2, IdleType DEF RemoveRows, CliDone, SyncInv, TypeOK
    <2>3. ASSUME NEW r \in RunIds
          PROVE  runs'[r] \in Run /\ (runs'[r].status = "none" <=> runs[r].status = "none")
      <3>1. runs[r] \in Run
        BY DEF SyncInv, TypeOK
      <3>. QED BY <1>2, <3>1 DEF RemoveRows, Run
    <2>4. runs' \in [RunIds -> Run]
      BY <1>2, <2>3 DEF RemoveRows
    <2>5. seen' \in [RunIds -> [Streams -> SUBSET Items]]
      BY <1>2 DEF RemoveRows
    <2>6. RestType'
      BY <1>2, <2>1, <2>2, <2>4, <2>5, SameSetting DEF RemoveRows, RestType, SyncInv, TypeOK
    <2>7. RunsGoOn
      BY <1>2, <2>3 DEF RemoveRows, RunsGoOn, Started, SyncInv, AwayOK
    <2>. QED BY <1>0, <1>2, <2>6, <2>7, Outside DEF RemoveRows
  <1>3. ASSUME NEW command \in setting.commands, CliReads(command) PROVE SyncInv'
    <2>1. command \in {"pause", "enable", "remove"}
      BY SettingType DEF SyncInv
    <2>2. cli' \in [pc: {"idle", "read", "purged"}, command: {"pause", "enable", "remove"},
                    row: Source]
      BY <1>3, <2>1 DEF CliReads, SyncInv, TypeOK
    <2>3. /\ bounds' \in Limits /\ bounds'.crashes = bounds.crashes
          /\ \A k \in DOMAIN bounds' : bounds'[k] <= setting.limits[k]
      BY <1>3, SettingType DEF CliReads, SyncInv, TypeOK, Limits
    <2>4. RestType'
      BY <1>3, <2>2, <2>3, SameSetting DEF CliReads, RestType, SyncInv, TypeOK
    <2>5. RunsGoOn
      BY <1>3 DEF CliReads, RunsGoOn, Started, SyncInv, AwayOK
    <2>. QED BY <1>0, <1>3, <2>3, <2>4, <2>5, Outside DEF CliReads
  <1>. QED BY <1>1, <1>2, <1>3

LEMMA Changes ==
  ASSUME SyncInv, NEW s \in Streams, NEW i \in Items, Change(s, i) PROVE SyncInv'
PROOF
  <1>1. live' \in [Streams -> SUBSET Items]
    BY DEF Change, SyncInv, TypeOK
  <1>2. away' \in [RunIds -> [Streams -> SUBSET Items]]
    BY DEF Change, SyncInv, TypeOK
  <1>3. /\ bounds' \in Limits /\ bounds'.crashes = bounds.crashes
        /\ \A k \in DOMAIN bounds' : bounds'[k] <= setting.limits[k]
    BY SettingType DEF Change, SyncInv, TypeOK, Limits
  <1>4. RestType'
    BY <1>1, <1>2, <1>3, SameSetting DEF Change, RestType, SyncInv, TypeOK
  <1>5. ASSUME NEW r \in RunIds, NEW t \in Streams
        PROVE  /\ away[r][t] \subseteq away'[r][t]
               /\ t # s => live'[t] = live[t]
               /\ t = s => live[t] \ live'[t] \subseteq {i} /\ away'[r][t] = away[r][t] \cup {i}
    BY DEF Change, SyncInv, TypeOK
  <1>6. runs' = runs
    BY DEF Change
  <1>7. RunsGoOn
    <2>1. ASSUME NEW r \in RunIds, runs[r].status # "none", NEW t \in Streams
          PROVE  Items \ live'[t] \subseteq away'[r][t]
      <3>1. Items \ live[t] \subseteq away[r][t]
        BY <2>1 DEF SyncInv, AwayOK
      <3>. QED BY <1>5, <3>1
    <2>. QED BY <1>5, <1>6, <2>1 DEF RunsGoOn, Started
  <1>8. JobsGrow
    BY DEF Change, JobsGrow, SyncInv, TypeOK
  <1>. QED BY <1>3, <1>4, <1>7, <1>8, Outside DEF Change

-----------------------------------------------------------------------------
(* Steps of a worker that change the job it takes or has.                  *)
LEMMA OneJob ==
  ASSUME SyncInv, NEW w \in Workers, NEW j \in Slots, NEW x \in Job, NEW f \in Local,
         jobs' = [jobs EXCEPT ![j] = x], Step(w, f),
         UNCHANGED <<source, runs, seen, cli, index, live, away, exact, told, bounds, setting>>,
         \A v \in Workers : v # w /\ worker[v].pc # "idle" => worker[v].slot # j,
         x.status = "pending" => x.attempts < MaxAttempts + bounds.crashes,
         x.status = "running" => x.attempts >= 1,
         x.status # "free" /\ x.stream # NoStream => Started(x.run),
         \/ f.pc = "idle"
         \/ /\ f.pc \in {"sync", "page"} /\ f.slot = j /\ x.status = "running"
            /\ f.pc = "page" => x.stream \in Streams /\ x.run = f.run /\ Started(f.run)
  PROVE  SyncInv'
PROOF
  <1>1. /\ Streams' = Streams /\ Checker' = Checker /\ RunIds' = RunIds /\ Items' = Items
        /\ Slots' = Slots /\ Local' = Local /\ Job' = Job /\ Run' = Run
    BY SameSetting
  <1>2. /\ worker' \in [Workers -> Local] /\ worker'[w] = f
        /\ \A v \in Workers : v # w => worker'[v] = worker[v]
    BY DEF Step, SyncInv, TypeOK
  <1>3. /\ jobs' \in [Slots -> Job] /\ jobs'[j] = x
        /\ \A k \in Slots : k # j => jobs'[k] = jobs[k]
    BY DEF SyncInv, TypeOK
  <1>4. TypeOK'
    BY <1>1, <1>2, <1>3 DEF SyncInv, TypeOK
  <1>5. JobsOK'
    BY <1>1, <1>3 DEF SyncInv, JobsOK, Started
  <1>6. AwayOK'
    BY <1>1 DEF SyncInv, AwayOK
  <1>7. RunsGoOn
    BY DEF RunsGoOn, Started, SyncInv, AwayOK
  <1>8. ASSUME NEW v \in Workers, v # w, worker'[v].pc # "idle" PROVE Has(v)'
    <2>1. worker'[v] = worker[v] /\ worker[v].slot # j /\ Has(v)
      BY <1>2, <1>8 DEF SyncInv, WorkersOK
    <2>2. jobs'[worker[v].slot] = jobs[worker[v].slot]
      BY <1>3, <2>1 DEF Has
    <2>3. ASSUME NEW u \in Workers, u # v, worker'[u].pc # "idle"
          PROVE  worker'[u].slot # worker[v].slot
      BY <1>2, <2>1, <2>3 DEF Has
    <2>. QED BY <1>7, <1>8, <2>1, <2>2, <2>3, Kept
  <1>9. ASSUME f.pc # "idle" PROVE Has(w)'
    <2>1. ASSUME NEW v \in Workers, v # w, worker'[v].pc # "idle"
          PROVE  worker'[v].slot # j
      BY <1>2, <2>1
    <2>2. f.pc \in {"sync", "page"} /\ f.slot = j
      BY <1>9
    <2>. QED BY <1>1, <1>2, <1>3, <2>1, <2>2 DEF Has, Started, PagePcs
  <1>10. WorkersOK'
    BY <1>2, <1>8, <1>9 DEF WorkersOK
  <1>. QED BY <1>4, <1>5, <1>6, <1>10 DEF SyncInv

LEMMA Claims ==
  ASSUME SyncInv, NEW w \in Workers, NEW j \in Slots, Claim(w, j) PROVE SyncInv'
PROOF
  <1> DEFINE x == [jobs[j] EXCEPT !.status = "running", !.attempts = @ + 1]
             pc == IF jobs[j].stream = NoStream THEN "sync" ELSE "page"
             f == [Idle EXCEPT !.pc = pc, !.slot = j, !.run = jobs[j].run]
  <1>1. jobs[j] \in Job /\ jobs[j].status = "pending" /\ bounds.crashes \in Nat
    BY DEF Claim, SyncInv, TypeOK, Limits
  <1>2. jobs[j].attempts \in Nat /\ jobs[j].attempts < MaxAttempts + bounds.crashes
    BY <1>1, SyncAssumption DEF Job, SyncInv, JobsOK
  <1>3. jobs[j].attempts + 1 \in 0..(MaxAttempts + bounds.crashes) /\ jobs[j].attempts + 1 >= 1
    BY <1>1, <1>2, SyncAssumption
  <1>4. /\ x \in Job /\ x.status = "running" /\ x.attempts >= 1
        /\ x.stream = jobs[j].stream /\ x.run = jobs[j].run
    BY <1>1, <1>3 DEF Job
  <1>5. jobs' = [jobs EXCEPT ![j] = x] /\ Step(w, f)
    BY DEF Claim
  <1>6. pc \in {"sync", "page"} /\ (pc = "page" => jobs[j].stream # NoStream)
    OBVIOUS
  <1>7. jobs[j].stream # NoStream => jobs[j].stream \in Streams /\ Started(jobs[j].run)
    BY <1>1 DEF Job, SyncInv, JobsOK
  <1>8. jobs[j].run \in RunIds \cup {0}
    BY <1>1 DEF Job
  <1>. HIDE DEF x, pc
  <1>9. f \in Local /\ f.pc = pc /\ f.slot = j /\ f.run = jobs[j].run
    BY <1>6, <1>8, IdleType DEF Local
  <1>10. \A v \in Workers : v # w /\ worker[v].pc # "idle" => worker[v].slot # j
    BY <1>1 DEF SyncInv, WorkersOK, Has
  <1>. HIDE DEF f
  <1>11. UNCHANGED <<source, runs, seen, cli, index, live, away, exact, told, bounds, setting>>
    BY DEF Claim
  <1>12. /\ x.status = "pending" => x.attempts < MaxAttempts + bounds.crashes
         /\ x.status = "running" => x.attempts >= 1
         /\ x.status # "free" /\ x.stream # NoStream => Started(x.run)
    BY <1>4, <1>7
  <1>13. /\ f.pc \in {"sync", "page"} /\ f.slot = j /\ x.status = "running"
         /\ f.pc = "page" => x.stream \in Streams /\ x.run = f.run /\ Started(f.run)
    BY <1>4, <1>6, <1>7, <1>9
  <1>14. x \in Job /\ f \in Local
    BY <1>4, <1>9
  <1>. QED BY <1>5, <1>10, <1>11, <1>12, <1>13, <1>14, OneJob

LEMMA Settles == ASSUME SyncInv, NEW w \in Workers, Settle(w) PROVE SyncInv'
PROOF
  <1> DEFINE j == worker[w].slot
             x == IF worker[w].ok THEN FreeSlot
                  ELSE IF jobs[j].attempts >= MaxAttempts THEN [jobs[j] EXCEPT !.status = "dead"]
                  ELSE [jobs[j] EXCEPT !.status = "pending"]
  <1>1. worker[w].pc = "ended"
    BY DEF Settle
  <1>2. /\ j \in Slots /\ jobs[j] \in Job /\ jobs[j].status = "running"
        /\ \A v \in Workers : v # w /\ worker[v].pc # "idle" => worker[v].slot # j
    BY <1>1, Busy DEF Has
  <1>3. jobs' = [jobs EXCEPT ![j] = x] /\ Step(w, Idle)
    BY DEF Settle
  <1>4. jobs[j].attempts \in Nat /\ bounds.crashes \in Nat /\ MaxAttempts \in Nat
    BY <1>2, SyncAssumption DEF Job, SyncInv, TypeOK, Limits
  <1>5. jobs[j].stream # NoStream => Started(jobs[j].run)
    BY <1>2 DEF SyncInv, JobsOK
  <1>6. /\ x \in Job /\ x.status # "running"
        /\ x.status = "pending" => x.attempts < MaxAttempts + bounds.crashes
        /\ x.status # "free" /\ x.stream # NoStream => Started(x.run)
    <2>1. CASE worker[w].ok
      BY <2>1, IdleType DEF FreeSlot
    <2>2. CASE ~worker[w].ok /\ jobs[j].attempts >= MaxAttempts
      BY <1>2, <1>5, <2>2 DEF Job
    <2>3. CASE ~worker[w].ok /\ ~(jobs[j].attempts >= MaxAttempts)
      <3>1. jobs[j].attempts < MaxAttempts + bounds.crashes
        BY <1>4, <2>3
      <3>. QED BY <1>2, <1>5, <2>3, <3>1 DEF Job
    <2>. QED BY <2>1, <2>2, <2>3
  <1>7. Idle \in Local /\ Idle.pc = "idle"
    BY IdleType DEF Idle
  <1>. HIDE DEF j, x
  <1>11. UNCHANGED <<source, runs, seen, cli, index, live, away, exact, told, bounds, setting>>
    BY DEF Settle
  <1>. QED BY <1>11, <1>2, <1>3, <1>6, <1>7, OneJob

LEMMA Postpones == ASSUME SyncInv, NEW w \in Workers, Postpone(w) PROVE SyncInv'
PROOF
  <1> DEFINE j == worker[w].slot
             x == Postponed(jobs[j])
  <1>1. worker[w].pc # "idle"
    BY DEF Postpone, Calling
  <1>2. /\ j \in Slots /\ jobs[j] \in Job /\ jobs[j].status = "running"
        /\ \A v \in Workers : v # w /\ worker[v].pc # "idle" => worker[v].slot # j
    BY <1>1, Busy DEF Has
  <1>3. jobs' = [jobs EXCEPT ![j] = x] /\ Step(w, Idle)
    BY DEF Postpone
  <1>4. /\ jobs[j].attempts \in Nat /\ jobs[j].attempts >= 1
        /\ jobs[j].attempts <= MaxAttempts + bounds.crashes
        /\ bounds.crashes \in Nat /\ MaxAttempts \in Nat
    BY <1>2, SyncAssumption DEF Job, SyncInv, TypeOK, JobsOK, Limits
  <1>5. jobs[j].stream # NoStream => Started(jobs[j].run)
    BY <1>2 DEF SyncInv, JobsOK
  <1>6. /\ jobs[j].attempts - 1 \in 0..(MaxAttempts + bounds.crashes)
        /\ jobs[j].attempts - 1 < MaxAttempts + bounds.crashes
    BY <1>4
  <1>7. /\ x \in Job /\ x.status = "pending" /\ x.attempts = jobs[j].attempts - 1
        /\ x.stream = jobs[j].stream /\ x.run = jobs[j].run
    BY <1>2, <1>6 DEF Postponed, Job
  <1>8. Idle \in Local /\ Idle.pc = "idle"
    BY IdleType DEF Idle
  <1>. HIDE DEF j, x
  <1>11. UNCHANGED <<source, runs, seen, cli, index, live, away, exact, told, bounds, setting>>
    BY DEF Postpone
  <1>12. /\ x.status = "pending" => x.attempts < MaxAttempts + bounds.crashes
         /\ x.status = "running" => x.attempts >= 1
         /\ x.status # "free" /\ x.stream # NoStream => Started(x.run)
    BY <1>5, <1>6, <1>7
  <1>13. x \in Job /\ j \in Slots
    BY <1>2, <1>7
  <1>14. \A v \in Workers : v # w /\ worker[v].pc # "idle" => worker[v].slot # j
    BY <1>2
  <1>. QED BY <1>3, <1>8, <1>11, <1>12, <1>13, <1>14, OneJob

(* After a crash every running job is pending, and may be claimed once     *)
(* more than the budget allows.                                            *)
LEMMA Crashes == ASSUME SyncInv, Crash PROVE SyncInv'
PROOF
  <1>1. /\ Streams' = Streams /\ RunIds' = RunIds /\ Items' = Items
        /\ Slots' = Slots /\ Local' = Local /\ Run' = Run /\ Limits' = Limits
    BY SameSetting DEF Crash
  <1>2. /\ bounds' \in Limits /\ bounds'.crashes = bounds.crashes + 1 /\ bounds.crashes \in Nat
        /\ \A k \in DOMAIN bounds' : bounds'[k] <= setting.limits[k]
    BY SettingType DEF Crash, SyncInv, TypeOK, Limits
  <1>3. ASSUME NEW j \in Slots
        PROVE  /\ jobs'[j] \in Job'
               /\ jobs'[j].status # "running"
               /\ jobs'[j].status = "pending" => jobs'[j].attempts < MaxAttempts + bounds'.crashes
               /\ jobs'[j].status # "free" /\ jobs'[j].stream # NoStream =>
                    jobs'[j].run \in RunIds /\ runs[jobs'[j].run].status # "none"
    <2>1. jobs[j] \in Job
      BY DEF SyncInv, TypeOK
    <2>2. /\ jobs[j].attempts \in 0..(MaxAttempts + bounds'.crashes)
          /\ jobs[j].attempts < MaxAttempts + bounds'.crashes
      BY <1>2, <2>1, SyncAssumption DEF Job
    <2>3. jobs[j] \in Job' /\ [jobs[j] EXCEPT !.status = "pending"] \in Job'
      BY <1>1, <2>1, <2>2 DEF Job, Crash
    <2>. QED BY <2>1, <2>2, <2>3 DEF Crash, SyncInv, JobsOK, Started, Job
  <1>4. jobs' \in [Slots -> Job']
    BY <1>3 DEF Crash
  <1>5. worker' \in [Workers -> Local] /\ \A w \in Workers : worker'[w].pc = "idle"
    BY IdleType DEF Crash, Idle
  <1>6. TypeOK'
    BY <1>1, <1>2, <1>4, <1>5 DEF Crash, SyncInv, TypeOK
  <1>7. JobsOK'
    BY <1>1, <1>3 DEF JobsOK, Started, Crash
  <1>8. WorkersOK'
    BY <1>5 DEF WorkersOK
  <1>9. AwayOK'
    BY <1>1 DEF Crash, SyncInv, AwayOK
  <1>. QED BY <1>6, <1>7, <1>8, <1>9 DEF Crash, SyncInv

-----------------------------------------------------------------------------
LEMMA Beginning == Init => SyncInv
PROOF
  <1> SUFFICES ASSUME Init PROVE SyncInv
    OBVIOUS
  <1>1. /\ setting \in Settings /\ setting.items \in Nat /\ setting.limits \in Limits
        /\ MaxAttempts \in Nat
    BY SettingType, SyncAssumption DEF Init
  <1>2. NoRow \in Source /\ source \in Source
    BY DEF Init, NoRow, Source, SourceStates
  <1>3. Idle \in Local
    BY <1>2, <1>1 DEF Idle, Local, SourceStates, Outcomes
  <1>4. bounds \in Limits /\ \A k \in DOMAIN bounds : bounds[k] <= setting.limits[k]
    BY <1>1 DEF Init, Limits
  <1>5. 0 \in 0..(MaxAttempts + bounds.crashes) /\ 0 \in 0..setting.items
    BY <1>1, <1>4 DEF Limits
  <1>6. FreeSlot \in Job
    BY <1>5 DEF FreeSlot, Job
  <1>7. NoRun \in Run
    BY DEF NoRun, Run
  <1>8. TypeOK
    BY <1>2, <1>3, <1>4, <1>6, <1>7 DEF Init, TypeOK
  <1>9. JobsOK /\ WorkersOK /\ AwayOK
    BY DEF Init, JobsOK, WorkersOK, AwayOK, FreeSlot, Idle, NoRun
  <1>. QED BY <1>1, <1>8, <1>9 DEF SyncInv

(* Every step keeps the invariant.                                         *)
LEMMA Steps == SyncInv /\ [Next]_vars => SyncInv'
PROOF
  <1> SUFFICES ASSUME SyncInv, [Next]_vars PROVE SyncInv'
    OBVIOUS
  <1>1. ASSUME NEW w \in Workers, Handle(w) PROVE SyncInv'
    BY <1>1, Claims, Settles, Starts, Fits, Fails, FansOut, Reads, Saves, ReadsRun, FinishesRun, DenyNotes,
       DenyChecks, Begins, Fetches, Indexes, Marks, NextPages, Reconciles, Deletes, Dones,
       Postpones, CallsFail DEF Handle
  <1>2. ASSUME NEW s \in Streams, NEW i \in Items, Change(s, i) PROVE SyncInv'
    BY <1>2, Changes
  <1>3. CASE UNCHANGED vars
    <2>1. Rest \/ UNCHANGED vars
      BY <1>3
    <2>. QED BY <1>3, SameSetting DEF vars, SyncInv, TypeOK, JobsOK, WorkersOK, AwayOK,
                Has, Started
  <1>. QED BY <1>1, <1>2, <1>3, OthersStep, Crashes DEF Next

LEMMA Always == Spec => []SyncInv
  BY Beginning, Steps, PTL DEF Spec

(* The state of a sync is of its type: among others, no job is attempted   *)
(* oftener than the budget and the crashes allow (claim).                  *)
THEOREM TypeCorrect == Spec => []TypeOK
PROOF
  <1>1. SyncInv => TypeOK
    BY DEF SyncInv
  <1>. QED BY <1>1, Always, PTL

(* A plan that can check an item (verify, detail) loses no document whose  *)
(* item its source had all along (reconcile_stream).                       *)
THEOREM CheckedDeletions == Spec => [](Checker => DeletionsJustified)
PROOF
  <1>1. SyncInv => (Checker => DeletionsJustified)
    BY DEF SyncInv, WorkersOK, Has, DeletionsJustified, StreamOf, PagePcs
  <1>. QED BY <1>1, Always, PTL

-----------------------------------------------------------------------------
(* What any step leaves alone.                                             *)
LEMMA SettingStays == [Next]_vars => setting' = setting
PROOF
  <1> SUFFICES ASSUME [Next]_vars PROVE setting' = setting
    OBVIOUS
  <1>1. ASSUME NEW w \in Workers, Handle(w) PROVE setting' = setting
    BY <1>1 DEF Handle, Claim, Settle, StartRun, ToolsFit, ToolsFail, FanOut, GetSource, SaveSource,
       ReadRun, FinishRun, DenyNote, DenyCheck, BeginPage, Fetch, IndexPage, MarkSeen, NextPage, Reconcile,
       DeleteDoomed, StreamDone, Postpone, Unauthorized, Unavailable, Refused
  <1>. QED BY <1>1 DEF Next, RequestSync, CliReads, Pause, Enable, RemoveDocuments, RemoveRows,
                       Change, Crash, Rest, vars

(* No crash is forgotten.                                                  *)
LEMMA NoCrash ==
  ASSUME SyncInv, [Next]_vars, bounds'.crashes = 0
  PROVE  bounds.crashes = 0 /\ ~Crash
PROOF
  <1>1. bounds \in Limits
    BY DEF SyncInv, TypeOK
  <1>2. ~Crash
    BY <1>1 DEF Crash, Limits
  <1>3. ASSUME NEW w \in Workers, Handle(w) PROVE bounds' = bounds
    BY <1>3 DEF Handle, Claim, Settle, StartRun, ToolsFit, ToolsFail, FanOut, GetSource,
       SaveSource, ReadRun, FinishRun, DenyNote, DenyCheck, BeginPage, Fetch, IndexPage, MarkSeen,
       NextPage, Reconcile, DeleteDoomed, StreamDone, Postpone, Unauthorized, Unavailable,
       Refused
  <1>4. ASSUME \/ \E command \in setting.commands : CliReads(command)
               \/ \E s \in Streams, i \in Items : Change(s, i)
        PROVE  bounds'.crashes = bounds.crashes
    BY <1>1, <1>4 DEF CliReads, Change, Limits
  <1>5. bounds'.crashes = bounds.crashes
    BY <1>2, <1>3, <1>4 DEF Next, RequestSync, Pause, Enable, RemoveDocuments, RemoveRows, Rest,
       vars
  <1>. QED BY <1>2, <1>5

LEMMA NotNone == ASSUME SyncInv PROVE NoStream \notin Streams
  BY SettingType DEF SyncInv, Streams

(* What a step does to workers and, with note_stream, to runs.             *)
LEMMA StepOf ==
  ASSUME SyncInv, NEW w \in Workers, NEW f, Step(w, f)
  PROVE  worker'[w] = f /\ \A v \in Workers \ {w} : worker'[v] = worker[v]
  BY DEF Step, SyncInv, TypeOK

LEMMA NotedRuns ==
  ASSUME SyncInv, NEW r \in RunIds, NEW S, NEW outcome, NoteAll(r, S, outcome)
  PROVE  /\ \A q \in RunIds : runs'[q].status = runs[q].status
         /\ \A q \in RunIds, s \in Streams :
              runs'[q].streams[s] = IF q = r /\ s \in S /\ runs[r].status # "deleted"
                                    THEN outcome ELSE runs[q].streams[s]
PROOF
  <1>1. runs \in [RunIds -> Run]
    BY DEF SyncInv, TypeOK
  <1>2. CASE runs[r].status = "deleted"
    BY <1>1, <1>2 DEF NoteAll
  <1>3. CASE runs[r].status # "deleted"
    <2> DEFINE new == [s \in Streams |-> IF s \in S THEN outcome ELSE runs[r].streams[s]]
               run == [runs[r] EXCEPT !.streams = new]
    <2>1. runs' = [runs EXCEPT ![r] = run]
      BY <1>3 DEF NoteAll
    <2>2. run.streams = new /\ run.status = runs[r].status
      BY <1>1 DEF Run
    <2>3. \A s \in Streams : new[s] = IF s \in S THEN outcome ELSE runs[r].streams[s]
      OBVIOUS
    <2>. HIDE DEF new, run
    <2>4. runs'[r] = run /\ \A q \in RunIds : q # r => runs'[q] = runs[q]
      BY <1>1, <2>1
    <2>. QED BY <1>3, <2>2, <2>3, <2>4
  <1>. QED BY <1>2, <1>3

-----------------------------------------------------------------------------
(* Who sees to a stream.  A page job carries its stream while it waits, or *)
(* while the worker that holds it may still go on with it or fail it.      *)
Live(j) == jobs[j].status \in {"pending", "running"}
Syncs(w) == worker[w].pc # "idle" /\ StreamOf(w) = NoStream
Denies(w) == \/ worker[w].pc = "deny"
             \/ worker[w].pc \in {"state", "save"} /\ worker[w].to = "needs_reauth"
Retries(w) == worker[w].pc = "ended" /\ ~worker[w].ok /\ ~GivesUp(w)
Bears(w) == worker[w].pc \in PagePcs \/ Denies(w) \/ Retries(w)
Carries(j) ==
  /\ jobs[j].stream # NoStream
  /\ \/ jobs[j].status = "pending"
     \/ \E w \in Workers : worker[w].pc # "idle" /\ worker[w].slot = j /\ Bears(w)
Of(j, r, s) == jobs[j].run = r /\ jobs[j].stream = s

OneSync == \A i, j \in Slots :
  Live(i) /\ Live(j) /\ jobs[i].stream = NoStream /\ jobs[j].stream = NoStream => i = j
OnePage == \A i, j \in Slots :
  Carries(i) /\ Carries(j) /\ Of(i, jobs[j].run, jobs[j].stream) => i = j
NotDone == \A j \in Slots : Carries(j) => runs[jobs[j].run].streams[jobs[j].stream] # "done"

(* A worker is at the run of its job; one that has failed for good says so *)
(* until it ends.                                                          *)
JobFits(w) == worker[w].pc # "idle" =>
  /\ StreamOf(w) # NoStream => jobs[worker[w].slot].run = worker[w].run
  /\ worker[w].pc \in {"sync", "tools", "fanout"} => StreamOf(w) = NoStream
  /\ worker[w].pc = "outcome" => worker[w].to # "needs_reauth"
  /\ ~worker[w].ok /\ worker[w].pc # "ended" =>
       worker[w].pc \in {"finish", "close", "outcome", "save"} /\ ~Denies(w) /\ GivesUp(w)

(* Who has read the run, and will write its outcome.                       *)
Closes(w, r) == worker[w].pc = "close" /\ worker[w].run = r

(* A run that has succeeded, or will as soon as that is written.           *)
Succeeds(r) == \/ runs[r].status = "succeeded"
               \/ \E w \in Workers : Closes(w, r) /\ worker[w].outcome = "succeeded"

(* What a sync has not fanned out yet has no page and is not done.         *)
Untold(r, s) == /\ runs[r].streams[s] # "done"
                /\ \A j \in Slots : Carries(j) => ~Of(j, r, s)
Fresh(w) == Syncs(w) =>
  /\ worker[w].pc = "tools" => /\ runs[worker[w].run].status \in {"running", "deleted"}
                               /\ \A s \in Streams : runs[worker[w].run].streams[s] = "none"
                               /\ \A v \in Workers : ~Closes(v, worker[w].run)
  /\ worker[w].pc = "tools" \/ Denies(w) => \A s \in Streams : Untold(worker[w].run, s)
  /\ worker[w].pc = "fanout" => \A s \in worker[w].todo : Untold(worker[w].run, s)

RunsFit == \A r \in RunIds :
  /\ runs[r].status = "none" => \A s \in Streams : runs[r].streams[s] = "none"
  /\ Succeeds(r) => \A s \in Streams : runs[r].streams[s] = "done"

(* Until the server has died: one sync at a time, one page of each stream  *)
(* of a run, none of a stream that is done.                                *)
ChainInv == bounds.crashes = 0 =>
  /\ OneSync /\ OnePage /\ NotDone /\ RunsFit
  /\ \A w \in Workers : JobFits(w) /\ Fresh(w)

(* The same, where it is known that the server has not died.               *)
Chain == SyncInv /\ ChainInv /\ bounds.crashes = 0

LEMMA Carried ==
  ASSUME SyncInv, NEW j \in Slots, Carries(j)
  PROVE  Live(j) /\ jobs[j].stream \in Streams /\ jobs[j].run \in RunIds
         /\ runs[jobs[j].run].status # "none"
PROOF
  <1>1. jobs[j] \in Job
    BY DEF SyncInv, TypeOK
  <1>2. Live(j)
    BY DEF Carries, Live, SyncInv, WorkersOK, Has
  <1>. QED BY <1>1, <1>2 DEF Carries, Live, Job, SyncInv, JobsOK, Started

LEMMA Holds ==
  ASSUME SyncInv, NEW w \in Workers, worker[w].pc # "idle", StreamOf(w) # NoStream, Bears(w)
  PROVE  worker[w].slot \in Slots /\ Carries(worker[w].slot)
  BY Busy DEF Carries, StreamOf

LEMMA LoneSync ==
  ASSUME Chain, NEW v \in Workers, NEW w \in Workers, Syncs(v), Syncs(w)
  PROVE  v = w
PROOF
  <1>1. Has(v) /\ Has(w)
    BY DEF Chain, SyncInv, WorkersOK, Syncs
  <1>2. worker[v].slot = worker[w].slot
    BY <1>1 DEF Chain, ChainInv, OneSync, Syncs, Has, Live, StreamOf
  <1>. QED BY <1>1, <1>2 DEF Has, Syncs

(* Who may write what becomes of a stream.                                 *)
Notes(w, r, s) ==
  /\ worker[w].run = r
  /\ \/ worker[w].pc \in PagePcs /\ StreamOf(w) = s
     \/ worker[w].pc = "deny"
     \/ worker[w].pc = "fanout" /\ s \in worker[w].todo

LEMMA Noting ==
  ASSUME Chain, NEW w \in Workers, NEW r \in RunIds, NEW s \in Streams, Notes(w, r, s)
  PROVE  /\ worker[w].pc # "idle"
         /\ runs[r].status # "none" /\ ~Succeeds(r)
         /\ \/ worker[w].slot \in Slots /\ Carries(worker[w].slot) /\ jobs[worker[w].slot].run = r
               /\ (worker[w].pc # "deny" => Of(worker[w].slot, r, s))
            \/ Syncs(w) /\ worker[w].pc \in {"deny", "fanout"} /\ Untold(r, s)
PROOF
  <1>1. worker[w].pc # "idle" /\ runs[r].status # "none"
    BY Busy DEF Notes, Chain, PagePcs
  <1>2. JobFits(w) /\ Fresh(w) /\ RunsFit /\ NotDone
    BY DEF Chain, ChainInv
  <1>3. CASE StreamOf(w) # NoStream
    <2>1. Bears(w) /\ worker[w].pc # "fanout"
      BY <1>1, <1>2, <1>3 DEF Notes, Bears, Denies, JobFits
    <2>2. worker[w].slot \in Slots /\ Carries(worker[w].slot) /\ jobs[worker[w].slot].run = r
      BY <1>1, <1>2, <1>3, <2>1, Holds DEF Chain, JobFits, Notes
    <2>3. /\ jobs[worker[w].slot].stream \in Streams
          /\ runs[r].streams[jobs[worker[w].slot].stream] # "done"
      BY <1>2, <2>2, Carried DEF NotDone, Chain
    <2>4. ~Succeeds(r)
      BY <1>2, <2>3 DEF RunsFit
    <2>. QED BY <1>1, <2>1, <2>2, <2>4 DEF Of, Notes, StreamOf
  <1>4. CASE StreamOf(w) = NoStream
    <2>1. Syncs(w)
      BY <1>1, <1>4 DEF Syncs
    <2>2. worker[w].pc \notin PagePcs
      <3>1. worker[w].pc \in PagePcs => StreamOf(w) \in Streams
        BY <1>1, Busy DEF Chain
      <3>2. NoStream \notin Streams
        BY SettingType DEF Chain, SyncInv, Streams
      <3>. QED BY <1>4, <3>1, <3>2
    <2>3. worker[w].pc \in {"deny", "fanout"} /\ Untold(r, s)
      BY <1>2, <2>1, <2>2 DEF Notes, Fresh, Denies
    <2>4. ~Succeeds(r)
      BY <1>2, <2>3 DEF RunsFit, Untold
    <2>. QED BY <1>1, <2>1, <2>3, <2>4
  <1>. QED BY <1>3, <1>4

(* What a step may do to a run.                                            *)
RunStep(r) ==
  /\ \A s \in Streams : runs'[r].streams[s] # runs[r].streams[s] =>
       \E w \in Workers : Notes(w, r, s)
  /\ \A s \in Streams : runs'[r].streams[s] = "done" /\ runs[r].streams[s] # "done" =>
       \E w \in Workers, j \in Slots : /\ worker[w].pc = "done" /\ Notes(w, r, s)
                                     /\ j = worker[w].slot /\ ~Carries(j)'
  /\ runs'[r].status # runs[r].status =>
       /\ runs'[r].streams = runs[r].streams
       /\ \/ runs'[r].status = "deleted" /\ runs[r].status # "none" /\ cli.pc = "purged"
          \/ runs'[r].status = "running" /\ runs[r].status = "none"
          \/ /\ runs'[r].status \in Outcomes /\ runs[r].status # "none"
             /\ \E w \in Workers : Closes(w, r) /\ runs'[r].status = worker[w].outcome
          \/ /\ runs'[r].status = "failed"
             /\ \E w \in Workers : /\ worker[w].pc = "tools" /\ worker[w].run = r
                                   /\ worker'[w].pc # "tools"

(* Who comes to write an outcome has just read the run.                    *)
HasRead(v) == worker'[v].pc = "close" =>
  \/ /\ worker[v].pc = "close" /\ worker'[v].run = worker[v].run
     /\ worker'[v].outcome = worker[v].outcome
  \/ /\ worker'[v].run \in RunIds /\ Over(worker'[v].run) /\ runs' = runs
     /\ worker'[v].outcome = Outcome(worker'[v].run)

(* No page appears but in slot k, which was free.                          *)
CarriersFrom(k) ==
  /\ k # 0 => jobs[k].status = "free"
  /\ \A j \in Slots \ {k} : Carries(j)' =>
       Carries(j) /\ jobs'[j].run = jobs[j].run /\ jobs'[j].stream = jobs[j].stream

NewPage(k) == k # 0 /\ jobs'[k].stream # NoStream =>
  /\ \A j \in Slots \ {k} : Carries(j)' =>
       ~(jobs'[j].run = jobs'[k].run /\ jobs'[j].stream = jobs'[k].stream)
  /\ runs'[jobs'[k].run].streams[jobs'[k].stream] # "done"

LEMMA PagesStay ==
  ASSUME Chain, setting' = setting, NEW k \in Slots \cup {0}, CarriersFrom(k), NewPage(k)
  PROVE  OnePage'
PROOF
  <1>1. Slots' = Slots
    BY SameSetting
  <1>2. ASSUME NEW i \in Slots, NEW j \in Slots, Carries(i)', Carries(j)',
               Of(i, jobs[j].run, jobs[j].stream)', i # k, j # k
        PROVE  i = j
    BY <1>2 DEF Chain, ChainInv, OnePage, CarriersFrom, Of
  <1>3. ASSUME NEW j \in Slots, Carries(k)', Carries(j)', k \in Slots,
               jobs'[k].run = jobs'[j].run, jobs'[k].stream = jobs'[j].stream
        PROVE  k = j
    <2>1. k # 0 /\ jobs'[k].stream # NoStream
      BY <1>3 DEF Carries, Slots
    <2>. QED BY <1>3, <2>1 DEF NewPage, Of
  <1>. QED BY <1>1, <1>2, <1>3 DEF OnePage, Of

LEMMA StillNotDone ==
  ASSUME Chain, SyncInv', setting' = setting, NEW k \in Slots \cup {0}, CarriersFrom(k),
         NewPage(k), \A r \in RunIds : RunStep(r)
  PROVE  NotDone'
PROOF
  <1>1. Slots' = Slots /\ Streams' = Streams /\ RunIds' = RunIds
    BY SameSetting
  <1>2. ASSUME NEW j \in Slots, Carries(j)'
        PROVE  runs'[jobs'[j].run].streams[jobs'[j].stream] # "done"
    <2>1. CASE j = k
      <3>1. k # 0 /\ jobs'[k].stream # NoStream
        BY <1>2, <2>1 DEF Carries, Slots
      <3>. QED BY <2>1, <3>1 DEF NewPage
    <2>2. CASE j # k
      <3>1. /\ Carries(j) /\ jobs'[j].run = jobs[j].run /\ jobs'[j].stream = jobs[j].stream
        BY <1>2, <2>2 DEF CarriersFrom
      <3>2. PICK r \in RunIds, s \in Streams : jobs[j].run = r /\ jobs[j].stream = s
        BY <3>1, Carried DEF Chain
      <3>3. runs[r].streams[s] # "done"
        BY <3>1, <3>2 DEF Chain, ChainInv, NotDone
      <3>4. ASSUME runs'[r].streams[s] = "done" PROVE FALSE
        <4>1. PICK w \in Workers, i \in Slots : /\ worker[w].pc = "done" /\ Notes(w, r, s)
                                              /\ i = worker[w].slot /\ ~Carries(i)'
          BY <3>3, <3>4 DEF RunStep
        <4>2. /\ worker[w].slot \in Slots /\ Carries(worker[w].slot)
              /\ Of(worker[w].slot, r, s)
          BY <4>1, Noting
        <4>3. worker[w].slot = j
          BY <3>1, <3>2, <4>2 DEF Chain, ChainInv, OnePage, Of
        <4>. QED BY <1>2, <4>1, <4>3
      <3>. QED BY <3>1, <3>2, <3>4
    <2>. QED BY <2>1, <2>2
  <1>. QED BY <1>1, <1>2 DEF NotDone

LEMMA RunsStayFit ==
  ASSUME Chain, setting' = setting, \A r \in RunIds : RunStep(r),
         \A v \in Workers : HasRead(v)
  PROVE  RunsFit'
PROOF
  <1>1. Streams' = Streams /\ RunIds' = RunIds
    BY SameSetting
  <1>2. ASSUME NEW r \in RunIds, runs'[r].status = "none", NEW s \in Streams
        PROVE  runs'[r].streams[s] = "none"
    <2>1. runs[r].status = "none"
      BY <1>2 DEF RunStep, Outcomes
    <2>2. runs'[r].streams[s] = runs[r].streams[s]
      BY <2>1, Noting DEF RunStep
    <2>. QED BY <2>1, <2>2 DEF Chain, ChainInv, RunsFit
  <1>3. ASSUME NEW r \in RunIds, Succeeds(r)', NEW s \in Streams
        PROVE  runs'[r].streams[s] = "done"
    <2>1. CASE Succeeds(r)
      <3>1. runs'[r].streams[s] = runs[r].streams[s]
        BY <2>1, Noting DEF RunStep
      <3>. QED BY <2>1, <3>1 DEF Chain, ChainInv, RunsFit
    <2>2. CASE ~Succeeds(r)
      <3>1. runs'[r].status # "succeeded"
        BY <2>2 DEF RunStep, Succeeds, Outcomes
      <3>2. PICK v \in Workers : worker'[v].pc = "close" /\ worker'[v].run = r
                                /\ worker'[v].outcome = "succeeded"
        BY <1>3, <3>1 DEF Succeeds, Closes
      <3>3. Over(r) /\ runs' = runs /\ Outcome(r) = "succeeded"
        BY <2>2, <3>2 DEF HasRead, Succeeds, Closes
      <3>4. runs[r].streams[s] # "failed"
        BY <3>3 DEF Outcome
      <3>. QED BY <3>3, <3>4 DEF Over
    <2>. QED BY <2>1, <2>2
  <1>. QED BY <1>1, <1>2, <1>3 DEF RunsFit

(* A sync goes on to what it has not fanned out yet.                       *)
Follows(v) ==
  /\ worker[v].pc # "idle" /\ worker'[v].slot = worker[v].slot /\ worker'[v].run = worker[v].run
  /\ StreamOf(v)' = StreamOf(v)
  /\ Syncs(v) =>
     /\ worker'[v].pc = "tools" => worker[v].pc = "tools"
     /\ Denies(v)' => worker[v].pc = "tools" \/ Denies(v)
     /\ worker'[v].pc = "fanout" => /\ worker'[v].todo \subseteq Streams
                                    /\ \/ worker[v].pc = "tools"
                                       \/ /\ worker[v].pc = "fanout"
                                          /\ worker'[v].todo \subseteq worker[v].todo

LEMMA FreshStays ==
  ASSUME Chain, SyncInv', setting' = setting, NEW k \in Slots \cup {0}, CarriersFrom(k),
         \A r \in RunIds : RunStep(r), \A w \in Workers : HasRead(w),
         NEW v \in Workers, worker'[v].pc # "idle", Follows(v),
         k # 0 /\ jobs'[k].stream # NoStream /\ jobs'[k].run = worker[v].run /\ Syncs(v) =>
           /\ worker'[v].pc = "tools" \/ Denies(v)' => FALSE
           /\ worker'[v].pc = "fanout" => jobs'[k].stream \notin worker'[v].todo
  PROVE  Fresh(v)'
PROOF
  <1>1. Slots' = Slots /\ Streams' = Streams /\ RunIds' = RunIds
    BY SameSetting
  <1> SUFFICES ASSUME Syncs(v)' PROVE Fresh(v)'
    BY DEF Fresh
  <1>2. Syncs(v)
    BY DEF Syncs, Follows
  <1>3. JobFits(v) /\ Fresh(v)
    BY DEF Chain, ChainInv
  <1> USE DEF Follows
  <1> DEFINE r == worker[v].run
  <1>4. ASSUME NEW w \in Workers, NEW s \in Streams, Notes(w, r, s), r \in RunIds,
               \A t \in Streams : Untold(r, t), worker[v].pc \notin {"deny", "fanout"}
        PROVE  FALSE
    <2>1. CASE Syncs(w) /\ worker[w].pc \in {"deny", "fanout"}
      BY <1>2, <1>4, <2>1, LoneSync
    <2>2. CASE worker[w].slot \in Slots /\ Carries(worker[w].slot) /\ jobs[worker[w].slot].run = r
      BY <1>4, <2>2, Carried DEF Untold, Of, Chain
    <2>. QED BY <1>4, <2>1, <2>2, Noting
  <1>5. ASSUME NEW s \in Streams, Untold(r, s), r \in RunIds,
               k # 0 /\ jobs'[k].stream # NoStream => ~Of(k, r, s)'
        PROVE  Untold(r, s)'
    <2>1. runs'[r].streams[s] # "done"
      <3> SUFFICES ASSUME runs'[r].streams[s] = "done" PROVE FALSE
        OBVIOUS
      <3>1. PICK w \in Workers : worker[w].pc = "done" /\ Notes(w, r, s)
        BY <1>5 DEF RunStep, Untold
      <3>2. worker[w].slot \in Slots /\ Carries(worker[w].slot) /\ Of(worker[w].slot, r, s)
        BY <1>5, <3>1, Noting
      <3>. QED BY <1>5, <3>2 DEF Untold
    <2>2. ASSUME NEW j \in Slots, Carries(j)' PROVE ~Of(j, r, s)'
      <3>1. CASE j = k
        <4>1. k # 0 /\ jobs'[k].stream # NoStream
          BY <2>2, <3>1 DEF Carries, Slots
        <4>. QED BY <1>5, <3>1, <4>1
      <3>2. CASE j # k
        BY <1>5, <2>2, <3>2 DEF CarriersFrom, Untold, Of
      <3>. QED BY <3>1, <3>2
    <2>. QED BY <1>1, <2>1, <2>2 DEF Untold
  <1>6. worker'[v].pc = "tools" \/ Denies(v)' \/ worker'[v].pc = "fanout" => r \in RunIds
    BY <1>2, Busy DEF Denies, Chain
  <1>7. ASSUME worker'[v].pc = "tools" \/ Denies(v)'
        PROVE  \A s \in Streams : Untold(worker[v].run, s)'
    BY <1>2, <1>3, <1>5, <1>6, <1>7 DEF Fresh, Of
  <1>8. ASSUME worker'[v].pc = "fanout"
        PROVE  \A s \in worker'[v].todo : Untold(worker[v].run, s)'
    <2>1. ASSUME NEW s \in worker'[v].todo PROVE s \in Streams /\ Untold(worker[v].run, s)
      BY <1>2, <1>3, <1>8, <2>1 DEF Fresh
    <2>. QED BY <1>2, <1>5, <1>6, <1>8, <2>1 DEF Of
  <1>9. ASSUME worker'[v].pc = "tools"
        PROVE  /\ runs'[r].status \in {"running", "deleted"}
               /\ \A s \in Streams : runs'[r].streams[s] = "none"
               /\ \A w \in Workers : ~Closes(w, r)'
    <2>1. /\ r \in RunIds /\ runs[r].status \in {"running", "deleted"}
          /\ \A s \in Streams : runs[r].streams[s] = "none" /\ Untold(r, s)
          /\ \A w \in Workers : ~Closes(w, r)
          /\ worker[v].pc = "tools"
      BY <1>2, <1>3, <1>6, <1>9 DEF Fresh
    <2>2. \A s \in Streams : runs'[r].streams[s] = "none"
      BY <1>4, <2>1 DEF RunStep
    <2>3. \A w \in Workers : ~Closes(w, r)'
      <3>1. Streams # {}
        BY SyncAssumption DEF Chain, SyncInv, Streams
      <3>2. ~Over(r)
        BY <2>1, <3>1 DEF Over
      <3>. QED BY <2>1, <3>2 DEF HasRead, Closes
    <2>4. ~ \E w \in Workers : /\ worker[w].pc = "tools" /\ worker[w].run = r
                               /\ worker'[w].pc # "tools"
      <3> SUFFICES ASSUME NEW w \in Workers, worker[w].pc = "tools", worker'[w].pc # "tools"
                   PROVE  FALSE
        OBVIOUS
      <3>1. Syncs(w)
        BY DEF Chain, ChainInv, JobFits, Syncs
      <3>. QED BY <1>2, <1>9, <3>1, LoneSync
    <2>. QED BY <2>1, <2>2, <2>3, <2>4 DEF RunStep
  <1>. QED BY <1>1, <1>7, <1>8, <1>9 DEF Fresh

-----------------------------------------------------------------------------
(* A busy worker goes on, and comes to none of these by itself: a sync's   *)
(* beginning, a page's, a denial without an unauthorized call, a retry of  *)
(* what is not.                                                            *)
CallPcs == {"fetch", "mark", "reconcile"}
Goes(w) ==
  /\ worker[w].pc # "idle" /\ worker'[w].pc \notin {"idle", "sync", "tools"}
  /\ worker'[w].slot = worker[w].slot /\ worker'[w].run = worker[w].run
  /\ \A v \in Workers \ {w} : worker'[v] = worker[v]
  /\ worker'[w].pc \in PagePcs => worker[w].pc \in PagePcs
  /\ worker'[w].pc = "fanout" => /\ worker'[w].todo \subseteq Streams
                                 /\ \/ worker[w].pc = "tools"
                                    \/ /\ worker[w].pc = "fanout"
                                       /\ worker'[w].todo \subseteq worker[w].todo
  /\ Denies(w)' => Denies(w) \/ worker[w].pc \in {"tools"} \cup CallPcs
  /\ worker'[w].pc = "outcome" => worker'[w].to # "needs_reauth"
  /\ worker'[w].pc = "close" => /\ worker[w].run \in RunIds /\ Over(worker[w].run)
                                /\ runs' = runs /\ worker'[w].outcome = Outcome(worker[w].run)
  /\ ~worker'[w].ok /\ worker'[w].pc # "ended" =>
       worker'[w].pc \in {"finish", "close", "outcome", "save"} /\ ~Denies(w)' /\ GivesUp(w)
  /\ worker'[w].pc = "ended" /\ ~worker'[w].ok /\ ~GivesUp(w) =>
       worker[w].pc \in {"tools"} \cup CallPcs

(* Jobs are left alone but for slot k, which was free.                     *)
Fills(k) == /\ k # 0 => jobs[k].status = "free"
            /\ \A j \in Slots \ {k} : jobs'[j] = jobs[j]

LEMMA GoesKeeps ==
  ASSUME Chain, NEW k \in Slots \cup {0}, Fills(k), NEW w \in Workers, Goes(w)
  PROVE  /\ \A v \in Workers : worker[v].pc # "idle" =>
              /\ worker[v].slot \in Slots \ {k}
              /\ worker'[v].slot = worker[v].slot /\ worker'[v].run = worker[v].run
              /\ jobs'[worker[v].slot] = jobs[worker[v].slot]
              /\ StreamOf(v)' = StreamOf(v) /\ (GivesUp(v)' <=> GivesUp(v))
         /\ \A v \in Workers : worker'[v].pc # "idle" => worker[v].pc # "idle"
PROOF
  <1>1. ASSUME NEW v \in Workers, worker[v].pc # "idle"
        PROVE  /\ worker[v].slot \in Slots \ {k}
               /\ worker'[v].slot = worker[v].slot /\ worker'[v].run = worker[v].run
    <2>1. Has(v)
      BY <1>1 DEF Chain, SyncInv, WorkersOK
    <2>2. k \in Slots => k # 0
      BY DEF Slots
    <2>. QED BY <2>1, <2>2 DEF Has, Fills, Goes
  <1>2. ASSUME NEW v \in Workers, worker[v].pc # "idle"
        PROVE  /\ jobs'[worker[v].slot] = jobs[worker[v].slot]
               /\ StreamOf(v)' = StreamOf(v) /\ (GivesUp(v)' <=> GivesUp(v))
    BY <1>1, <1>2 DEF Fills, StreamOf, GivesUp
  <1>. QED BY <1>1, <1>2 DEF Goes

LEMMA GoesBearing ==
  ASSUME Chain, NEW k \in Slots \cup {0}, Fills(k), NEW w \in Workers, Goes(w),
         StreamOf(w) # NoStream, Bears(w)'
  PROVE  Bears(w)
PROOF
  <1>1. /\ worker[w].pc # "idle" /\ JobFits(w) /\ (GivesUp(w)' <=> GivesUp(w))
    BY GoesKeeps DEF Goes, Chain, ChainInv
  <1>2. worker[w].pc # "tools"
    BY <1>1 DEF JobFits
  <1>. QED BY <1>1, <1>2 DEF Goes, Bears, Retries, CallPcs, PagePcs

LEMMA GoesOnward ==
  ASSUME Chain, SyncInv', setting' = setting, NEW k \in Slots \cup {0}, Fills(k),
         NEW w \in Workers, Goes(w)
  PROVE  /\ CarriersFrom(k)
         /\ \A v \in Workers : JobFits(v)'
         /\ \A v \in Workers : worker'[v].pc # "idle" => Follows(v)
         /\ \A v \in Workers : HasRead(v)
PROOF
  <1>1. ASSUME NEW v \in Workers, worker'[v].pc # "idle"
        PROVE  /\ worker[v].pc # "idle" /\ worker[v].slot \in Slots \ {k}
               /\ worker'[v].slot = worker[v].slot /\ worker'[v].run = worker[v].run
               /\ jobs'[worker[v].slot] = jobs[worker[v].slot]
               /\ StreamOf(v)' = StreamOf(v) /\ (GivesUp(v)' <=> GivesUp(v))
    BY <1>1, GoesKeeps
  <1>2. ASSUME NEW v \in Workers, worker'[v].pc # "idle", StreamOf(v) # NoStream, Bears(v)'
        PROVE  Bears(v)
    <2>1. CASE v = w
      BY <1>2, <2>1, GoesBearing
    <2>2. CASE v # w
      <3>1. worker'[v] = worker[v]
        BY <2>2 DEF Goes
      <3>. QED BY <1>1, <1>2, <3>1 DEF Bears, Denies, Retries
    <2>. QED BY <2>1, <2>2
  <1>3. ASSUME NEW j \in Slots \ {k}, Carries(j)' PROVE Carries(j)
    <2>1. jobs'[j] = jobs[j]
      BY DEF Fills
    <2>2. ASSUME NEW v \in Workers, worker'[v].pc # "idle", worker'[v].slot = j, Bears(v)'
          PROVE  worker[v].pc # "idle" /\ worker[v].slot = j /\ Bears(v)
      <3>1. StreamOf(v) # NoStream
        BY <1>1, <1>3, <2>1, <2>2 DEF StreamOf, Carries
      <3>. QED BY <1>1, <1>2, <2>2, <3>1
    <2>. QED BY <1>3, <2>1, <2>2 DEF Carries
  <1>4. CarriersFrom(k)
    BY <1>3 DEF CarriersFrom, Fills
  <1>5. ASSUME NEW v \in Workers, worker'[v].pc # "idle" PROVE JobFits(v)' /\ Follows(v)
    <2>1. JobFits(v)
      BY DEF Chain, ChainInv
    <2>2. CASE v # w
      <3>1. worker'[v] = worker[v]
        BY <2>2 DEF Goes
      <3>2. Denies(v)' <=> Denies(v)
        BY <3>1 DEF Denies
      <3>3. JobFits(v)'
        BY <1>1, <1>5, <2>1, <3>1, <3>2 DEF JobFits
      <3>4. worker[v].pc = "fanout" => worker[v].todo \subseteq Streams
        BY DEF Chain, SyncInv, TypeOK, Local
      <3>. QED BY <1>1, <1>5, <3>1, <3>2, <3>3, <3>4 DEF Follows
    <2>3. CASE v = w
      <3>1. Has(w)' /\ (StreamOf(w) = NoStream => worker'[w].pc \notin PagePcs)
        <4>1. Has(w)' /\ Streams' = Streams
          BY <1>5, <2>3, SameSetting DEF SyncInv, WorkersOK
        <4>2. NoStream \notin Streams
          BY SettingType DEF Chain, SyncInv, Streams
        <4>. QED BY <1>1, <1>5, <2>3, <4>1, <4>2 DEF Has, StreamOf
      <3>2. JobFits(w)'
        BY <1>1, <1>5, <2>1, <2>3 DEF JobFits, Goes, StreamOf
      <3>3. Follows(w)
        <4>1. Syncs(w) => worker[w].pc \notin CallPcs
          <5>1. worker[w].pc \in PagePcs => StreamOf(w) \in Streams
            BY <1>1, <1>5, <2>3, Busy DEF Chain
          <5>2. NoStream \notin Streams
            BY SettingType DEF Chain, SyncInv, Streams
          <5>. QED BY <5>1, <5>2 DEF Syncs, CallPcs, PagePcs
        <4>. QED BY <1>1, <1>5, <2>3, <4>1 DEF Follows, Goes
      <3>. QED BY <2>3, <3>2, <3>3
    <2>. QED BY <2>2, <2>3
  <1>6. ASSUME NEW v \in Workers, worker'[v].pc = "idle" PROVE JobFits(v)'
    BY <1>6 DEF JobFits
  <1>7. \A v \in Workers : HasRead(v)
    BY DEF Goes, HasRead
  <1>. QED BY <1>4, <1>5, <1>6, <1>7

LEMMA SyncsStay ==
  ASSUME Chain, setting' = setting, NEW k \in Slots \cup {0}, Fills(k),
         k # 0 => jobs'[k].stream # NoStream
  PROVE  OneSync'
PROOF
  <1>1. Slots' = Slots
    BY SameSetting
  <1>2. k \in Slots => k # 0
    BY DEF Slots
  <1>3. ASSUME NEW j \in Slots, Live(j)', jobs'[j].stream = NoStream
        PROVE  Live(j) /\ jobs[j].stream = NoStream
    BY <1>2, <1>3 DEF Fills, Live
  <1>. QED BY <1>1, <1>3 DEF Chain, ChainInv, OneSync

LEMMA GoesChain ==
  ASSUME Chain, SyncInv', setting' = setting, NEW w \in Workers, Goes(w), jobs' = jobs,
         \A r \in RunIds : RunStep(r)
  PROVE  ChainInv'
PROOF
  <1>1. Fills(0)
    BY DEF Fills
  <1>2. /\ CarriersFrom(0)
        /\ \A v \in Workers : JobFits(v)'
        /\ \A v \in Workers : worker'[v].pc # "idle" => Follows(v)
        /\ \A v \in Workers : HasRead(v)
    BY <1>1, GoesOnward
  <1>3. NewPage(0)
    BY DEF NewPage
  <1>4. \A v \in Workers : Fresh(v)'
    <2>1. ASSUME NEW v \in Workers, worker'[v].pc # "idle" PROVE Fresh(v)'
      BY <1>2, <2>1, FreshStays
    <2>. QED BY <2>1 DEF Fresh, Syncs
  <1>5. OneSync' /\ OnePage' /\ NotDone' /\ RunsFit'
    BY <1>1, <1>2, <1>3, SyncsStay, PagesStay, StillNotDone, RunsStayFit
  <1>. QED BY <1>2, <1>4, <1>5 DEF ChainInv

-----------------------------------------------------------------------------
(* The steps of a handler, one after the other.                            *)
LEMMA Stepped ==
  ASSUME Chain, NEW w \in Workers, NEW f, Step(w, f)
  PROVE  worker'[w] = f /\ \A v \in Workers \ {w} : worker'[v] = worker[v]
  BY StepOf DEF Chain

LEMMA NotedStreams ==
  ASSUME Chain, NEW r \in RunIds, NEW S, NEW outcome, NoteAll(r, S, outcome)
  PROVE  /\ \A q \in RunIds : runs'[q].status = runs[q].status
         /\ \A q \in RunIds, s \in Streams :
              runs'[q].streams[s] = IF q = r /\ s \in S /\ runs[r].status # "deleted"
                                    THEN outcome ELSE runs[q].streams[s]
  BY NotedRuns DEF Chain

LEMMA RunsSame == ASSUME runs' = runs PROVE \A r \in RunIds : RunStep(r)
  BY DEF RunStep

LEMMA NoteSteps ==
  ASSUME Chain, NEW w \in Workers, NEW r \in RunIds, NEW S, NEW outcome,
         NoteAll(r, S, outcome), \A s \in Streams : s \in S => Notes(w, r, s),
         outcome = "done" => /\ worker[w].pc = "done" /\ worker[w].slot \in Slots
                             /\ \A j \in Slots : j = worker[w].slot => ~Carries(j)'
  PROVE  \A q \in RunIds : RunStep(q)
  BY NotedStreams DEF RunStep

LEMMA LetsGo ==
  ASSUME Chain, SyncInv', setting' = setting, NEW w \in Workers, Goes(w), NEW k \in Slots \cup {0},
         Fills(k), ~Bears(w)', NEW j \in Slots, j = worker[w].slot
  PROVE  ~Carries(j)'
PROOF
  <1>1. /\ jobs'[j] = jobs[j] /\ worker[w].pc # "idle" /\ worker'[w].pc # "idle"
        /\ worker'[w].slot = j
    BY GoesKeeps DEF Goes
  <1>2. jobs[j].status = "running"
    BY <1>1, Busy DEF Chain, Has
  <1>3. \A v \in Workers : v # w /\ worker'[v].pc # "idle" => worker'[v].slot # j
    BY <1>1 DEF SyncInv, WorkersOK, Has
  <1>. QED BY <1>1, <1>2, <1>3 DEF Carries

LEMMA SyncGoes ==
  ASSUME Chain, NEW w \in Workers,
         \/ StartRun(w) /\ ~(source.present /\ source.enabled)
         \/ ToolsFit(w)
  PROVE  Goes(w) /\ \A r \in RunIds : RunStep(r)
PROOF
  <1>1. worker[w] \in Local /\ JobFits(w)
    BY DEF Chain, ChainInv, SyncInv, TypeOK
  <1>2. runs' = runs
    BY DEF StartRun, ToolsFit
  <1>3. CASE StartRun(w) /\ ~(source.present /\ source.enabled)
    <2>1. worker[w].pc = "sync" /\ Step(w, Ended(w, TRUE))
      BY <1>3 DEF StartRun
    <2>3. worker'[w] = Ended(w, TRUE)
      BY <2>1, Stepped
    <2>2. /\ worker'[w].pc = "ended" /\ worker'[w].slot = worker[w].slot
          /\ worker'[w].run = worker[w].run /\ worker'[w].ok
      BY <1>1, <2>3 DEF Ended, Local
    <2>. QED BY <1>2, <2>1, <2>2, Stepped, RunsSame DEF Goes, PagePcs, Denies
  <1>4. CASE ToolsFit(w)
    <2>1. worker[w].pc = "tools" /\ Step(w, [worker[w] EXCEPT !.pc = "fanout", !.todo = Streams])
      BY <1>4 DEF ToolsFit
    <2>2. /\ worker'[w].pc = "fanout" /\ worker'[w].slot = worker[w].slot
          /\ worker'[w].run = worker[w].run /\ worker'[w].ok = worker[w].ok
          /\ worker'[w].todo = Streams
      <3>1. worker'[w] = [worker[w] EXCEPT !.pc = "fanout", !.todo = Streams]
        BY <2>1, Stepped
      <3>. QED BY <1>1, <3>1 DEF Local
    <2>3. worker[w].ok
      BY <1>1, <2>1 DEF JobFits
    <2>. QED BY <1>2, <2>1, <2>2, <2>3, Stepped, RunsSame DEF Goes, PagePcs, Denies
  <1>. QED BY <1>3, <1>4

LEMMA ToolsFailGoes ==
  ASSUME Chain, NEW w \in Workers, NEW f, ToolsFail(w, f)
  PROVE  Goes(w) /\ \A r \in RunIds : RunStep(r)
PROOF
  <1>1. /\ worker[w] \in Local /\ JobFits(w) /\ worker[w].pc = "tools"
        /\ worker[w].run \in RunIds
    BY Busy DEF Chain, ChainInv, SyncInv, TypeOK, ToolsFail
  <1>2. Goes(w)
    <2>1. \/ Step(w, [worker[w] EXCEPT !.pc = "state", !.to = "needs_reauth"])
          \/ Step(w, [worker[w] EXCEPT !.pc = "state", !.to = "error"])
          \/ Step(w, Ended(w, FALSE))
      BY DEF ToolsFail
    <2>2. /\ (worker'[w].pc = "state" /\ worker'[w].ok = worker[w].ok) \/ worker'[w].pc = "ended"
          /\ worker'[w].slot = worker[w].slot /\ worker'[w].run = worker[w].run
      <3>1. \/ worker'[w] = [worker[w] EXCEPT !.pc = "state", !.to = "needs_reauth"]
            \/ worker'[w] = [worker[w] EXCEPT !.pc = "state", !.to = "error"]
            \/ worker'[w] = Ended(w, FALSE)
        BY <2>1, Stepped
      <3>. QED BY <1>1, <3>1 DEF Ended, Local
    <2>3. worker[w].ok
      BY <1>1 DEF JobFits
    <2>. QED BY <1>1, <2>1, <2>2, <2>3, Stepped DEF Goes, PagePcs, Denies
  <1>3. CASE runs' = runs
    BY <1>2, <1>3, RunsSame
  <1>4. CASE runs' # runs
    <2> DEFINE q == worker[w].run
               run == [runs[q] EXCEPT !.status = IF @ = "deleted" THEN @ ELSE "failed"]
    <2>1. runs' = [runs EXCEPT ![q] = run]
      BY <1>4 DEF ToolsFail
    <2>2. runs \in [RunIds -> Run] /\ runs[q] \in Run
      BY <1>1 DEF Chain, SyncInv, TypeOK
    <2>3. run.streams = runs[q].streams /\ run.status \in {runs[q].status, "failed"}
      BY <2>2 DEF Run
    <2>. HIDE DEF run
    <2>4. runs'[q] = run /\ \A p \in RunIds : p # q => runs'[p] = runs[p]
      BY <1>1, <2>1, <2>2
    <2>5. worker'[w].pc # "tools"
      BY <1>2 DEF Goes
    <2>. QED BY <1>1, <1>2, <2>3, <2>4, <2>5 DEF RunStep
  <1>. QED BY <1>3, <1>4

LEMMA RowGoes ==
  ASSUME Chain, NEW w \in Workers, GetSource(w) \/ SaveSource(w)
  PROVE  Goes(w) /\ \A r \in RunIds : RunStep(r)
PROOF
  <1>1. /\ worker[w] \in Local /\ JobFits(w) /\ worker[w].pc \in {"state", "outcome", "save"}
        /\ runs' = runs
    BY DEF Chain, ChainInv, SyncInv, TypeOK, GetSource, SaveSource
  <1>2. CASE Step(w, AfterState(w)) /\ (worker[w].pc = "outcome" \/ ~Denies(w))
    <2>1. worker[w].to # "needs_reauth"
      BY <1>1, <1>2 DEF JobFits, Denies
    <2>2. AfterState(w) = [worker[w] EXCEPT !.pc = "ended", !.row = Idle.row]
      BY <2>1 DEF AfterState
    <2>3. worker'[w] = [worker[w] EXCEPT !.pc = "ended", !.row = Idle.row]
      BY <1>2, <2>2, Stepped
    <2>4. /\ worker'[w].pc = "ended" /\ worker'[w].slot = worker[w].slot
          /\ worker'[w].run = worker[w].run /\ worker'[w].ok = worker[w].ok
      BY <1>1, <2>3 DEF Local
    <2>5. ~worker[w].ok => GivesUp(w)
      BY <1>1 DEF JobFits
    <2>. QED BY <1>1, <1>2, <2>4, <2>5, Stepped, RunsSame DEF Goes, PagePcs, Denies
  <1>3. CASE Step(w, AfterState(w)) /\ worker[w].pc # "outcome" /\ Denies(w)
    <2>1. AfterState(w) = [worker[w] EXCEPT !.pc = "deny", !.row = Idle.row, !.todo = Streams]
      BY <1>1, <1>3 DEF AfterState, Denies
    <2>3. worker'[w] = [worker[w] EXCEPT !.pc = "deny", !.row = Idle.row, !.todo = Streams]
      BY <1>3, <2>1, Stepped
    <2>4. /\ worker'[w].pc = "deny" /\ worker'[w].slot = worker[w].slot
          /\ worker'[w].run = worker[w].run /\ worker'[w].ok = worker[w].ok
      BY <1>1, <2>3 DEF Local
    <2>5. worker[w].ok
      BY <1>1, <1>3 DEF JobFits
    <2>. QED BY <1>1, <1>3, <2>4, <2>5, Stepped, RunsSame DEF Goes, PagePcs, Denies
  <1>4. CASE Step(w, [worker[w] EXCEPT !.pc = "save", !.row = source]) /\ GetSource(w)
    <2>1. worker'[w] = [worker[w] EXCEPT !.pc = "save", !.row = source]
      BY <1>4, Stepped
    <2>2. /\ worker'[w].pc = "save" /\ worker'[w].slot = worker[w].slot
          /\ worker'[w].run = worker[w].run /\ worker'[w].ok = worker[w].ok
          /\ worker'[w].to = worker[w].to
      BY <1>1, <2>1 DEF Local
    <2>3. worker[w].pc \in {"state", "outcome"}
      BY <1>4 DEF GetSource
    <2>4. Denies(w)' <=> Denies(w)
      BY <1>1, <2>2, <2>3 DEF Denies, JobFits
    <2>. QED BY <1>1, <1>4, <2>2, <2>3, <2>4, Stepped, RunsSame DEF Goes, PagePcs, JobFits
  <1>. QED BY <1>2, <1>3, <1>4 DEF GetSource, SaveSource

(* Steps within a page, and from its end.                                  *)
LEMMA PageGoes ==
  ASSUME Chain, NEW w \in Workers, NEW f, Step(w, f), worker[w].pc # "idle",
         f.slot = worker[w].slot, f.run = worker[w].run,
         f.pc \in PagePcs \cup {"finish", "ended"}, f.pc \in PagePcs => worker[w].pc \in PagePcs,
         ~f.ok => f.pc = "finish" /\ GivesUp(w)
  PROVE  Goes(w)
PROOF
  <1>1. worker'[w] = f /\ \A v \in Workers \ {w} : worker'[v] = worker[v]
    BY Stepped
  <1>2. f.pc \notin {"idle", "sync", "tools", "fanout", "close", "outcome", "deny", "state", "save"}
    BY DEF PagePcs
  <1>. QED BY <1>1, <1>2 DEF Goes, Denies, PagePcs

LEMMA DenyGoes ==
  ASSUME Chain, NEW w \in Workers, (\E s \in Streams : DenyCheck(w, s)) \/ DenyNote(w)
  PROVE  Goes(w) /\ \A r \in RunIds : RunStep(r)
PROOF
  <1>1. /\ worker[w] \in Local /\ JobFits(w) /\ worker[w].pc = "deny" /\ worker[w].run \in RunIds
    BY Busy DEF Chain, ChainInv, SyncInv, TypeOK, DenyCheck, DenyNote
  <1>2. worker[w].ok
    BY <1>1 DEF JobFits
  <1>3. CASE \E s \in Streams : DenyCheck(w, s)
    <2>1. PICK todo, failing :
            Step(w, [worker[w] EXCEPT !.todo = todo, !.failing = failing])
      BY <1>3 DEF DenyCheck
    <2>2. worker'[w] = [worker[w] EXCEPT !.todo = todo, !.failing = failing]
      BY <2>1, Stepped
    <2>3. /\ worker'[w].pc = "deny" /\ worker'[w].slot = worker[w].slot
          /\ worker'[w].run = worker[w].run /\ worker'[w].ok = worker[w].ok
      BY <1>1, <2>2 DEF Local
    <2>4. runs' = runs
      BY <1>3 DEF DenyCheck
    <2>. QED BY <1>1, <1>2, <2>1, <2>3, <2>4, Stepped, RunsSame DEF Goes, PagePcs, Denies
  <1>4. CASE DenyNote(w)
    <2>1. Step(w, [worker[w] EXCEPT !.failing = {}])
      BY <1>4 DEF DenyNote
    <2>2. worker'[w] = [worker[w] EXCEPT !.failing = {}]
      BY <2>1, Stepped
    <2>3. /\ worker'[w].pc = "deny" /\ worker'[w].slot = worker[w].slot
          /\ worker'[w].run = worker[w].run /\ worker'[w].ok = worker[w].ok
      BY <1>1, <2>2 DEF Local
    <2>4. NoteAll(worker[w].run, worker[w].failing, "failed")
      BY <1>4 DEF DenyNote
    <2>5. \A s \in Streams : Notes(w, worker[w].run, s)
      BY <1>1 DEF Notes
    <2>6. \A r \in RunIds : RunStep(r)
      BY <1>1, <2>4, <2>5, NoteSteps
    <2>. QED BY <1>1, <1>2, <2>1, <2>3, <2>6, Stepped DEF Goes, PagePcs, Denies
  <1>. QED BY <1>3, <1>4

LEMMA FinishGoes ==
  ASSUME Chain, NEW w \in Workers, ReadRun(w) \/ FinishRun(w)
  PROVE  Goes(w) /\ \A r \in RunIds : RunStep(r)
PROOF
  <1>1. /\ worker[w] \in Local /\ JobFits(w) /\ worker[w].pc \in {"finish", "deny", "close"}
        /\ worker[w].run \in RunIds /\ runs[worker[w].run].status # "none"
    BY Busy DEF Chain, ChainInv, SyncInv, TypeOK, ReadRun, FinishRun, AllDenied
  <1>2. ~worker[w].ok => GivesUp(w)
    BY <1>1 DEF JobFits
  <1> DEFINE r == worker[w].run
  <1>3. CASE FinishRun(w)
    <2> DEFINE to == IF worker[w].outcome = "failed" THEN "error" ELSE "active"
               f == [worker[w] EXCEPT !.pc = "outcome", !.outcome = Idle.outcome, !.to = to]
               o == IF runs[r].status = "deleted" THEN "deleted" ELSE worker[w].outcome
               run == [runs[r] EXCEPT !.status = o]
    <2>1. Step(w, f) /\ worker[w].pc = "close"
      BY <1>3 DEF FinishRun
    <2>2. /\ f.pc = "outcome" /\ f.slot = worker[w].slot /\ f.run = r /\ f.ok = worker[w].ok
          /\ f.to # "needs_reauth"
      BY <1>1 DEF Local
    <2>3. runs' = [runs EXCEPT ![r] = run]
      BY <1>3 DEF FinishRun
    <2>4. runs \in [RunIds -> Run] /\ runs[r] \in Run /\ worker[w].outcome \in Outcomes
      BY <1>1 DEF Chain, SyncInv, TypeOK, Local
    <2>5. run.streams = runs[r].streams /\ run.status = o
      BY <2>4 DEF Run
    <2>6. o # runs[r].status => o = worker[w].outcome
      OBVIOUS
    <2>. HIDE DEF f, o, run, to
    <2>7. worker'[w] = f /\ \A v \in Workers \ {w} : worker'[v] = worker[v]
      BY <2>1, Stepped
    <2>8. Goes(w)
      BY <1>1, <1>2, <2>1, <2>2, <2>7 DEF Goes, PagePcs, Denies
    <2>9. runs'[r] = run /\ \A p \in RunIds : p # r => runs'[p] = runs[p]
      BY <1>1, <2>3, <2>4
    <2>. QED BY <1>1, <2>1, <2>4, <2>5, <2>6, <2>8, <2>9 DEF RunStep, Closes
  <1>4. CASE ReadRun(w) /\ Finishes(r)
    <2> DEFINE f == [worker[w] EXCEPT !.pc = "close", !.outcome = Outcome(r)]
    <2>1. Step(w, f) /\ runs' = runs /\ Over(r)
      BY <1>4 DEF ReadRun, Finishes
    <2>2. /\ f.pc = "close" /\ f.slot = worker[w].slot /\ f.run = r /\ f.ok = worker[w].ok
          /\ f.outcome = Outcome(r)
      BY <1>1 DEF Local
    <2>. HIDE DEF f
    <2>3. worker'[w] = f /\ \A v \in Workers \ {w} : worker'[v] = worker[v]
      BY <2>1, Stepped
    <2>. QED BY <1>1, <1>2, <2>1, <2>2, <2>3, RunsSame DEF Goes, PagePcs, Denies
  <1>5. CASE ReadRun(w) /\ ~Finishes(r)
    <2>1. Step(w, [worker[w] EXCEPT !.pc = "ended"]) /\ runs' = runs
      BY <1>5 DEF ReadRun
    <2>2. worker'[w] = [worker[w] EXCEPT !.pc = "ended"]
      BY <2>1, Stepped
    <2>3. /\ worker'[w].pc = "ended" /\ worker'[w].slot = worker[w].slot
          /\ worker'[w].run = worker[w].run /\ worker'[w].ok = worker[w].ok
      BY <1>1, <2>2 DEF Local
    <2>. QED BY <1>1, <1>2, <2>1, <2>3, Stepped, RunsSame DEF Goes, PagePcs, Denies
  <1>. QED BY <1>3, <1>4, <1>5

LEMMA InPage ==
  ASSUME Chain, NEW w \in Workers, worker[w].pc \in PagePcs
  PROVE  /\ worker[w] \in Local /\ worker[w].ok = TRUE /\ worker[w].run \in RunIds
         /\ worker[w].pc # "idle" /\ StreamOf(w) \in Streams /\ worker[w].slot \in Slots
         /\ \A s \in Streams : s \in {StreamOf(w)} => Notes(w, worker[w].run, s)
PROOF
  <1>1. worker[w].pc # "idle" /\ worker[w].pc \notin {"ended", "finish", "close", "outcome", "save", "sync"}
    BY DEF PagePcs
  <1>2. worker[w] \in Local /\ worker[w].ok \in BOOLEAN
    BY DEF Chain, SyncInv, TypeOK, Local
  <1>3. worker[w].ok
    BY <1>1 DEF Chain, ChainInv, JobFits
  <1>4. worker[w].ok = TRUE
    BY <1>2, <1>3, Zenon
  <1>. QED BY <1>1, <1>2, <1>4, Busy DEF Notes, Chain

LEMMA ReadGoes ==
  ASSUME Chain, NEW w \in Workers,
         \/ Fetch(w, TRUE) \/ Fetch(w, FALSE) \/ IndexPage(w) \/ MarkSeen(w) \/ Reconcile(w)
         \/ DeleteDoomed(w)
  PROVE  Goes(w) /\ \A r \in RunIds : RunStep(r)
PROOF
  <1>1. worker[w].pc \in PagePcs /\ runs' = runs
    BY DEF Fetch, IndexPage, MarkSeen, Reconcile, DeleteDoomed, PagePcs
  <1>2. worker[w] \in Local /\ worker[w].ok = TRUE /\ worker[w].pc # "idle"
    BY <1>1, InPage
  <1>3. CASE \E e \in BOOLEAN : Fetch(w, e)
    <2>1. PICK page, next, whole :
            Step(w, [worker[w] EXCEPT !.pc = "index", !.page = page, !.next = next,
                                      !.whole = whole])
      BY <1>3 DEF Fetch
    <2> DEFINE f == [worker[w] EXCEPT !.pc = "index", !.page = page, !.next = next,
                                      !.whole = whole]
    <2>2. f.pc = "index" /\ f.slot = worker[w].slot /\ f.run = worker[w].run /\ f.ok = TRUE
      BY <1>2 DEF Local
    <2>3. Step(w, f)
      BY <2>1
    <2>. HIDE DEF f
    <2>. QED BY <1>1, <1>2, <2>2, <2>3, PageGoes, RunsSame DEF PagePcs
  <1>4. CASE IndexPage(w)
    <2> DEFINE f == [worker[w] EXCEPT !.pc = "mark"]
    <2>2. f.pc = "mark" /\ f.slot = worker[w].slot /\ f.run = worker[w].run /\ f.ok = TRUE
      BY <1>2 DEF Local
    <2>3. Step(w, f)
      BY <1>4 DEF IndexPage
    <2>. HIDE DEF f
    <2>. QED BY <1>1, <1>2, <2>2, <2>3, PageGoes, RunsSame DEF PagePcs
  <1>5. CASE MarkSeen(w)
    <2>1. PICK pc \in {"next", "reconcile", "done"} :
            Step(w, [worker[w] EXCEPT !.page = {}, !.whole = FALSE, !.pc = pc])
      BY <1>5 DEF MarkSeen
    <2> DEFINE f == [worker[w] EXCEPT !.page = {}, !.whole = FALSE, !.pc = pc]
    <2>2. f.pc = pc /\ f.slot = worker[w].slot /\ f.run = worker[w].run /\ f.ok = TRUE
      BY <1>2 DEF Local
    <2>3. Step(w, f)
      BY <2>1
    <2>. HIDE DEF f
    <2>. QED BY <1>1, <1>2, <2>2, <2>3, PageGoes, RunsSame DEF PagePcs
  <1>6. CASE Reconcile(w)
    <2>1. PICK doomed : Step(w, [worker[w] EXCEPT !.pc = "delete", !.doomed = doomed])
      BY <1>6 DEF Reconcile
    <2> DEFINE f == [worker[w] EXCEPT !.pc = "delete", !.doomed = doomed]
    <2>2. f.pc = "delete" /\ f.slot = worker[w].slot /\ f.run = worker[w].run /\ f.ok = TRUE
      BY <1>2 DEF Local
    <2>3. Step(w, f)
      BY <2>1
    <2>. HIDE DEF f
    <2>. QED BY <1>1, <1>2, <2>2, <2>3, PageGoes, RunsSame DEF PagePcs
  <1>7. CASE DeleteDoomed(w)
    <2> DEFINE f == [worker[w] EXCEPT !.pc = "done", !.doomed = {}]
    <2>2. f.pc = "done" /\ f.slot = worker[w].slot /\ f.run = worker[w].run /\ f.ok = TRUE
      BY <1>2 DEF Local
    <2>3. Step(w, f)
      BY <1>7 DEF DeleteDoomed
    <2>. HIDE DEF f
    <2>. QED BY <1>1, <1>2, <2>2, <2>3, PageGoes, RunsSame DEF PagePcs
  <1>. QED BY <1>3, <1>4, <1>5, <1>6, <1>7

LEMMA BeginGoes ==
  ASSUME Chain, NEW w \in Workers, BeginPage(w)
  PROVE  Goes(w) /\ \A r \in RunIds : RunStep(r)
PROOF
  <1>1. worker[w].pc = "page" /\ worker[w].pc \in PagePcs
    BY DEF BeginPage, PagePcs
  <1>2. /\ worker[w] \in Local /\ worker[w].ok = TRUE /\ worker[w].run \in RunIds
        /\ worker[w].pc # "idle"
        /\ \A s \in Streams : s \in {StreamOf(w)} => Notes(w, worker[w].run, s)
    BY <1>1, InPage
  <1>3. Goes(w)
    <2> DEFINE f == [worker[w] EXCEPT !.pc = "fetch"]
    <2>1. f.pc = "fetch" /\ f.slot = worker[w].slot /\ f.run = worker[w].run /\ f.ok = TRUE
      BY <1>2 DEF Local
    <2> DEFINE g == Ended(w, TRUE)
    <2>2. g.pc = "ended" /\ g.slot = worker[w].slot /\ g.run = worker[w].run /\ g.ok = TRUE
      BY <1>2 DEF Local, Ended
    <2>3. Step(w, f) \/ Step(w, g)
      BY DEF BeginPage
    <2>. HIDE DEF f, g
    <2>. QED BY <1>1, <1>2, <2>1, <2>2, <2>3, PageGoes DEF PagePcs
  <1>4. \A r \in RunIds : RunStep(r)
    BY <1>2, NoteSteps, RunsSame DEF BeginPage, Note
  <1>. QED BY <1>3, <1>4

LEMMA DoneGoes ==
  ASSUME Chain, SyncInv', NEW w \in Workers, StreamDone(w)
  PROVE  Goes(w) /\ \A r \in RunIds : RunStep(r)
PROOF
  <1>1. worker[w].pc = "done" /\ worker[w].pc \in PagePcs
    BY DEF StreamDone, PagePcs
  <1>2. worker[w] \in Local /\ worker[w].ok = TRUE /\ worker[w].run \in RunIds
    BY <1>1, InPage
  <1> DEFINE f == [worker[w] EXCEPT !.pc = "finish"]
  <1>3. f.pc = "finish" /\ f.slot = worker[w].slot /\ f.run = worker[w].run /\ f.ok = TRUE
    BY <1>2 DEF Local
  <1>4. Step(w, f)
    BY DEF StreamDone
  <1>. HIDE DEF f
  <1>5. Goes(w)
    BY <1>1, <1>2, <1>3, <1>4, PageGoes DEF PagePcs
  <1>6. worker'[w].pc = "finish"
    BY <1>3, <1>4, Stepped
  <1>7. ~Bears(w)'
    BY <1>6 DEF Bears, PagePcs, Denies, Retries
  <1>8. Fills(0) /\ setting' = setting
    BY DEF Fills, StreamDone
  <1>9. \A j \in Slots : j = worker[w].slot => ~Carries(j)'
    BY <1>5, <1>7, <1>8, LetsGo
  <1>10. NoteAll(worker[w].run, {StreamOf(w)}, "done")
    BY DEF StreamDone, Note
  <1>11. /\ worker[w].slot \in Slots
         /\ \A s \in Streams : s \in {StreamOf(w)} => Notes(w, worker[w].run, s)
    BY <1>1, InPage
  <1>12. \A r \in RunIds : RunStep(r)
    BY <1>1, <1>2, <1>9, <1>10, <1>11, NoteSteps
  <1>. QED BY <1>5, <1>12

LEMMA CallGoes ==
  ASSUME Chain, NEW w \in Workers, Unauthorized(w) \/ Unavailable(w) \/ Refused(w)
  PROVE  Goes(w) /\ \A r \in RunIds : RunStep(r)
PROOF
  <1>1. worker[w].pc \in CallPcs /\ worker[w].pc \in PagePcs
    BY DEF Unauthorized, Unavailable, Refused, Calling, PagePcs, CallPcs
  <1>2. /\ worker[w] \in Local /\ worker[w].ok = TRUE /\ worker[w].run \in RunIds
        /\ \A s \in Streams : s \in {StreamOf(w)} => Notes(w, worker[w].run, s)
        /\ worker[w].pc # "idle"
    BY <1>1, InPage
  <1>3. \A r \in RunIds : RunStep(r)
    BY <1>2, NoteSteps, RunsSame DEF Unauthorized, Unavailable, Refused, Note
  <1>4. CASE Unauthorized(w)
    <2> DEFINE f == [Idle EXCEPT !.pc = "state", !.to = "needs_reauth", !.slot = worker[w].slot,
                                 !.run = worker[w].run]
    <2>1. /\ f.pc = "state" /\ f.slot = worker[w].slot /\ f.run = worker[w].run /\ f.ok = TRUE
      BY DEF Idle
    <2>2. Step(w, f)
      BY <1>4 DEF Unauthorized
    <2>. HIDE DEF f
    <2>3. worker'[w] = f /\ \A v \in Workers \ {w} : worker'[v] = worker[v]
      BY <2>2, Stepped
    <2>. QED BY <1>1, <1>2, <1>3, <2>1, <2>3 DEF Goes, PagePcs
  <1>5. CASE Unavailable(w)
    <2> DEFINE pc == IF GivesUp(w) THEN "finish" ELSE "ended"
               f == [Idle EXCEPT !.pc = pc, !.ok = FALSE, !.slot = worker[w].slot,
                                 !.run = worker[w].run]
    <2>1. f.pc = pc /\ f.slot = worker[w].slot /\ f.run = worker[w].run /\ f.ok = FALSE
      BY DEF Idle
    <2>2. Step(w, f)
      BY <1>5 DEF Unavailable
    <2>4. pc \in {"finish", "ended"} /\ (pc = "finish" <=> GivesUp(w))
      OBVIOUS
    <2>. HIDE DEF f, pc
    <2>3. worker'[w] = f /\ \A v \in Workers \ {w} : worker'[v] = worker[v]
      BY <2>2, Stepped
    <2>. QED BY <1>1, <1>2, <1>3, <2>1, <2>3, <2>4 DEF Goes, PagePcs, Denies
  <1>6. CASE Refused(w)
    <2> DEFINE f == [Idle EXCEPT !.pc = "finish", !.slot = worker[w].slot, !.run = worker[w].run]
    <2>1. f.pc = "finish" /\ f.slot = worker[w].slot /\ f.run = worker[w].run /\ f.ok = TRUE
      BY DEF Idle
    <2>2. Step(w, f)
      BY <1>6 DEF Refused
    <2>. HIDE DEF f
    <2>. QED BY <1>1, <1>2, <1>3, <2>1, <2>2, PageGoes
  <1>. QED BY <1>4, <1>5, <1>6

(* Every step of a handler that neither takes nor leaves a job, nor queues *)
(* one, nor starts a run.                                                  *)
Goings(w) ==
  \/ StartRun(w) /\ ~(source.present /\ source.enabled)
  \/ ToolsFit(w) \/ \E f \in setting.failures : ToolsFail(w, f)
  \/ GetSource(w) \/ SaveSource(w) \/ ReadRun(w) \/ FinishRun(w)
  \/ DenyNote(w) \/ \E s \in Streams : DenyCheck(w, s)
  \/ BeginPage(w) \/ Fetch(w, FALSE) \/ Fetch(w, TRUE)
  \/ IndexPage(w) \/ MarkSeen(w) \/ Reconcile(w) \/ DeleteDoomed(w) \/ StreamDone(w)
  \/ Unauthorized(w) \/ Unavailable(w) \/ Refused(w)

LEMMA GoingsGo ==
  ASSUME Chain, SyncInv', NEW w \in Workers, Goings(w)
  PROVE  /\ Goes(w) /\ jobs' = jobs /\ setting' = setting /\ bounds' = bounds
         /\ \A r \in RunIds : RunStep(r)
PROOF
  <1>1. jobs' = jobs /\ setting' = setting /\ bounds' = bounds
    BY DEF Goings, StartRun, ToolsFit, ToolsFail, GetSource, SaveSource, ReadRun, FinishRun,
           DenyNote, DenyCheck, BeginPage, Fetch, IndexPage, MarkSeen, Reconcile, DeleteDoomed, StreamDone,
           Unauthorized, Unavailable, Refused
  <1>2. Goes(w) /\ \A r \in RunIds : RunStep(r)
    BY SyncGoes, ToolsFailGoes, RowGoes, FinishGoes, DenyGoes, BeginGoes, ReadGoes, DoneGoes,
       CallGoes DEF Goings
  <1>. QED BY <1>1, <1>2

-----------------------------------------------------------------------------
(* Steps that queue a page.                                                *)
LEMMA PageQueued ==
  ASSUME Chain, SyncInv', setting' = setting, NEW w \in Workers, Goes(w),
         NEW k \in Slots, Fills(k), jobs'[k].stream # NoStream, NewPage(k),
         \A r \in RunIds : RunStep(r),
         \A v \in Workers : Syncs(v) /\ Follows(v) /\ worker[v].run = jobs'[k].run =>
           /\ worker'[v].pc = "tools" \/ Denies(v)' => FALSE
           /\ worker'[v].pc = "fanout" => jobs'[k].stream \notin worker'[v].todo
  PROVE  ChainInv'
PROOF
  <1>1. /\ CarriersFrom(k)
        /\ \A v \in Workers : JobFits(v)'
        /\ \A v \in Workers : worker'[v].pc # "idle" => Follows(v)
        /\ \A v \in Workers : HasRead(v)
    BY GoesOnward
  <1>2. \A v \in Workers : Fresh(v)'
    <2>1. ASSUME NEW v \in Workers, worker'[v].pc # "idle" PROVE Fresh(v)'
      BY <1>1, <2>1, FreshStays
    <2>. QED BY <2>1 DEF Fresh, Syncs
  <1>3. OneSync' /\ OnePage' /\ NotDone' /\ RunsFit'
    BY <1>1, SyncsStay, PagesStay, StillNotDone, RunsStayFit
  <1>. QED BY <1>1, <1>2, <1>3 DEF ChainInv

LEMMA QueuedJob ==
  ASSUME Chain, NEW r, NEW s, NEW c, Enqueue(Queued(r, s, c))
  PROVE  \E k \in Slots : /\ jobs[k].status = "free" /\ Fills(k)
                          /\ jobs'[k].status = "pending"
                          /\ jobs'[k].run = r /\ jobs'[k].stream = s
PROOF
  <1> DEFINE job == Queued(r, s, c)
  <1>1. PICK k \in Slots : jobs[k].status = "free" /\ jobs' = [jobs EXCEPT ![k] = job]
    BY DEF Enqueue, FirstFree
  <1>2. job.status = "pending" /\ job.run = r /\ job.stream = s
    BY DEF Queued, FreeSlot
  <1>. HIDE DEF job
  <1>3. jobs'[k] = job /\ Fills(k)
    BY <1>1 DEF Fills, Chain, SyncInv, TypeOK
  <1>. QED BY <1>1, <1>2, <1>3

LEMMA FanOutChain ==
  ASSUME Chain, SyncInv', NEW w \in Workers, NEW s \in Streams, FanOut(w, s)
  PROVE  (\A r \in RunIds : RunStep(r)) /\ ChainInv'
PROOF
  <1> DEFINE r == worker[w].run
             left == worker[w].todo \ {s}
             f == IF left # {} THEN [worker[w] EXCEPT !.todo = left]
                  ELSE [worker[w] EXCEPT !.pc = "state", !.todo = {}, !.to = "active"]
  <1>1. /\ worker[w] \in Local /\ JobFits(w) /\ Fresh(w) /\ worker[w].pc = "fanout"
        /\ s \in worker[w].todo /\ r \in RunIds /\ setting' = setting
    BY Busy DEF Chain, ChainInv, SyncInv, TypeOK, FanOut
  <1>2. Syncs(w) /\ worker[w].ok
    BY <1>1 DEF JobFits, Syncs
  <1>3. /\ f.slot = worker[w].slot /\ f.run = r /\ f.ok = worker[w].ok
        /\ \/ f.pc = "fanout" /\ f.todo = left
           \/ f.pc = "state" /\ f.to = "active"
    BY <1>1 DEF Local
  <1>4. worker'[w] = f /\ \A v \in Workers \ {w} : worker'[v] = worker[v]
    BY Stepped DEF FanOut
  <1>5. worker[w].todo \subseteq Streams
    BY <1>1 DEF Local
  <1>. HIDE DEF f
  <1>6. Goes(w) /\ ~Denies(w)'
    BY <1>1, <1>2, <1>3, <1>4, <1>5 DEF Goes, PagePcs, Denies
  <1>7. NoteAll(r, {s}, "running")
    BY DEF FanOut
  <1>8. \A q \in RunIds : RunStep(q)
    BY <1>1, <1>7, NoteSteps DEF Notes
  <1>9. PICK k \in Slots : /\ Fills(k) /\ jobs'[k].run = r /\ jobs'[k].stream = s
    BY QueuedJob DEF FanOut
  <1>10. Untold(r, s)
    BY <1>1, <1>2 DEF Fresh
  <1>11. s # NoStream
    BY SettingType DEF Chain, SyncInv, Streams
  <1>12. NewPage(k)
    <2>1. runs'[r].streams[s] # "done"
      BY <1>1, <1>7, <1>10, NotedStreams DEF Untold
    <2>2. CarriersFrom(k)
      BY <1>1, <1>6, <1>9, GoesOnward
    <2>. QED BY <1>9, <1>10, <2>1, <2>2 DEF NewPage, CarriersFrom, Untold, Of
  <1>13. ASSUME NEW v \in Workers, Syncs(v)
         PROVE  /\ worker'[v].pc = "tools" \/ Denies(v)' => FALSE
                /\ worker'[v].pc = "fanout" => jobs'[k].stream \notin worker'[v].todo
    <2>1. v = w
      BY <1>2, <1>13, LoneSync
    <2>. QED BY <1>3, <1>4, <1>6, <1>9, <2>1
  <1>14. ChainInv'
    BY <1>1, <1>6, <1>8, <1>9, <1>11, <1>12, <1>13, PageQueued
  <1>. QED BY <1>8, <1>14

LEMMA NextPageChain ==
  ASSUME Chain, SyncInv', NEW w \in Workers, NextPage(w)
  PROVE  (\A r \in RunIds : RunStep(r)) /\ ChainInv'
PROOF
  <1>0. PICK i \in Slots : i = worker[w].slot
    BY Busy DEF NextPage, Chain
  <1> DEFINE r == worker[w].run  s == StreamOf(w)
             f == [worker[w] EXCEPT !.pc = "ended", !.next = {}]
  <1>1. worker[w].pc = "next" /\ worker[w].pc \in PagePcs /\ runs' = runs /\ setting' = setting
    BY DEF NextPage, PagePcs
  <1>2. /\ worker[w] \in Local /\ worker[w].ok = TRUE /\ worker[w].run \in RunIds
        /\ worker[w].pc # "idle" /\ s \in Streams
    BY <1>1, InPage
  <1>3. f.pc = "ended" /\ f.slot = i /\ f.run = r /\ f.ok = TRUE
    BY <1>0, <1>2 DEF Local
  <1>4. Step(w, f)
    BY DEF NextPage
  <1>. HIDE DEF f
  <1>5. Goes(w)
    BY <1>0, <1>1, <1>2, <1>3, <1>4, PageGoes
  <1>6. worker'[w] = f
    BY <1>4, Stepped
  <1>7. ~Bears(w)'
    BY <1>3, <1>6 DEF Bears, PagePcs, Denies, Retries
  <1>8. s # NoStream
    BY <1>2, SettingType DEF Chain, SyncInv, Streams
  <1>9. Carries(i) /\ Of(i, r, s)
    <2>1. JobFits(w)
      BY DEF Chain, ChainInv
    <2>2. Carries(i)
      BY <1>0, <1>1, <1>2, <1>8, Holds DEF Bears, Chain
    <2>. QED BY <1>0, <1>2, <1>8, <2>1, <2>2 DEF JobFits, Of, StreamOf
  <1>10. PICK c : Enqueue(Queued(r, s, c))
    BY DEF NextPage
  <1>11. PICK k \in Slots : Fills(k) /\ jobs'[k].run = r /\ jobs'[k].stream = s
    BY <1>10, QueuedJob
  <1>. HIDE DEF r, s
  <1>12. \A q \in RunIds : RunStep(q)
    BY <1>1, RunsSame
  <1>13. NewPage(k)
    <2>1. CarriersFrom(k)
      BY <1>1, <1>5, <1>11, GoesOnward
    <2>2. ~Carries(i)'
      BY <1>0, <1>1, <1>5, <1>7, <1>11, LetsGo
    <2>3. runs'[r].streams[s] # "done"
      BY <1>1, <1>2, <1>9 DEF Chain, ChainInv, NotDone, Of
    <2>4. ASSUME NEW j \in Slots \ {k}, Carries(j)', jobs'[j].run = r, jobs'[j].stream = s
          PROVE  FALSE
      <3>1. Carries(j) /\ Of(j, r, s)
        BY <2>1, <2>4 DEF CarriersFrom, Of
      <3>2. j = i
        BY <1>2, <1>9, <3>1 DEF Chain, ChainInv, OnePage, Of
      <3>. QED BY <2>2, <2>4, <3>2
    <2>. QED BY <1>11, <2>3, <2>4 DEF NewPage
  <1>14. ASSUME NEW v \in Workers, Syncs(v), Follows(v), worker[v].run = r
         PROVE  /\ worker'[v].pc = "tools" \/ Denies(v)' => FALSE
                /\ worker'[v].pc = "fanout" => s \notin worker'[v].todo
    <2>1. Fresh(v) /\ ~Untold(r, s)
      BY <1>2, <1>9 DEF Chain, ChainInv, Untold
    <2>. QED BY <1>2, <1>14, <2>1 DEF Fresh, Follows
  <1>15. ChainInv'
    BY <1>1, <1>5, <1>8, <1>11, <1>12, <1>13, <1>14, PageQueued
  <1>. QED BY <1>12, <1>15

-----------------------------------------------------------------------------
(* Steps that take a job or leave it, start a run, or are another's.       *)
LEMMA Stands ==
  ASSUME Chain, NEW v \in Workers, worker'[v] = worker[v],
         worker[v].pc # "idle" => jobs'[worker[v].slot] = jobs[worker[v].slot]
  PROVE  /\ JobFits(v)'
         /\ worker'[v].pc # "idle" => Follows(v) /\ (Bears(v)' <=> Bears(v))
PROOF
  <1>1. JobFits(v) /\ (worker[v].pc = "fanout" => worker[v].todo \subseteq Streams)
    BY DEF Chain, ChainInv, SyncInv, TypeOK, Local
  <1>2. CASE worker[v].pc = "idle"
    BY <1>2 DEF JobFits
  <1>3. CASE worker[v].pc # "idle"
    <2>1. /\ StreamOf(v)' = StreamOf(v) /\ (GivesUp(v)' <=> GivesUp(v))
          /\ (Denies(v)' <=> Denies(v))
      BY <1>3 DEF StreamOf, GivesUp, Denies
    <2>2. JobFits(v)'
      BY <1>1, <1>3, <2>1 DEF JobFits
    <2>3. Bears(v)' <=> Bears(v)
      BY <2>1 DEF Bears, Retries
    <2>. QED BY <1>1, <1>3, <2>1, <2>2, <2>3 DEF Follows
  <1>. QED BY <1>2, <1>3

LEMMA AskChain ==
  ASSUME Chain, SyncInv', UNCHANGED <<worker, setting>>, NEW k \in Slots \cup {0}, Fills(k),
         k # 0 => jobs'[k].stream = NoStream /\ ~SyncQueued,
         \A r \in RunIds : RunStep(r)
  PROVE  ChainInv'
PROOF
  <1>1. Slots' = Slots /\ (k \in Slots => k # 0)
    BY SameSetting DEF Slots
  <1>2. ASSUME NEW v \in Workers
        PROVE  /\ JobFits(v)'
               /\ worker'[v].pc # "idle" => Follows(v) /\ (Bears(v)' <=> Bears(v))
    <2>1. worker[v].pc # "idle" => jobs'[worker[v].slot] = jobs[worker[v].slot]
      BY <1>1, Busy DEF Fills, Has, Chain
    <2>. QED BY <2>1, Stands
  <1>3. CarriersFrom(k)
    <2>1. ASSUME NEW j \in Slots \ {k}, Carries(j)' PROVE Carries(j) /\ jobs'[j] = jobs[j]
      BY <1>2, <2>1 DEF Carries, Fills
    <2>. QED BY <2>1 DEF CarriersFrom, Fills
  <1>4. NewPage(k) /\ \A v \in Workers : HasRead(v)
    BY DEF NewPage, HasRead
  <1>5. \A v \in Workers : Fresh(v)'
    <2>1. ASSUME NEW v \in Workers, worker'[v].pc # "idle" PROVE Fresh(v)'
      BY <1>2, <1>3, <1>4, <2>1, FreshStays
    <2>. QED BY <2>1 DEF Fresh, Syncs
  <1>6. OnePage' /\ NotDone' /\ RunsFit'
    BY <1>3, <1>4, PagesStay, StillNotDone, RunsStayFit
  <1>7. OneSync'
    <2>1. ASSUME NEW i \in Slots, NEW j \in Slots, Live(i)', Live(j)',
                 jobs'[i].stream = NoStream, jobs'[j].stream = NoStream
          PROVE  i = j
      <3>1. CASE k = 0
        BY <1>1, <2>1, <3>1 DEF Chain, ChainInv, OneSync, Fills, Live
      <3>2. CASE k # 0
        <4>1. ASSUME NEW h \in Slots \ {k} PROVE ~(Live(h)' /\ jobs'[h].stream = NoStream)
          BY <3>2, <4>1 DEF Fills, Live, SyncQueued
        <4>. QED BY <2>1, <4>1
      <3>. QED BY <3>1, <3>2
    <2>. QED BY <1>1, <2>1 DEF OneSync
  <1>. QED BY <1>2, <1>5, <1>6, <1>7 DEF ChainInv

(* A worker takes job j, or leaves it.                                     *)
LEMMA OwnJobChain ==
  ASSUME Chain, SyncInv', NEW w \in Workers, NEW j \in Slots, NEW x,
         jobs' = [jobs EXCEPT ![j] = x], UNCHANGED <<runs, setting>>,
         \A v \in Workers \ {w} : worker'[v] = worker[v],
         \A v \in Workers : v # w /\ worker[v].pc # "idle" => worker[v].slot # j,
         \/ worker'[w].pc = "idle"
         \/ worker'[w].pc \in {"sync", "page"} /\ worker'[w].slot = j /\ worker'[w].ok = TRUE
            /\ (x.stream # NoStream => x.run = worker'[w].run)
            /\ (worker'[w].pc = "sync" => x.stream = NoStream),
         (x.status = "pending" \/ worker'[w].pc = "page") /\ x.stream # NoStream =>
           Carries(j) /\ x.run = jobs[j].run /\ x.stream = jobs[j].stream,
         x.status \in {"pending", "running"} /\ x.stream = NoStream =>
           Live(j) /\ jobs[j].stream = NoStream
  PROVE  (\A r \in RunIds : RunStep(r)) /\ ChainInv'
PROOF
  <1>1. Slots' = Slots /\ 0 \notin Slots /\ 0 \in Slots \cup {0}
    BY SameSetting DEF Slots
  <1>2. jobs'[j] = x /\ \A i \in Slots \ {j} : jobs'[i] = jobs[i]
    BY DEF Chain, SyncInv, TypeOK
  <1>3. ASSUME NEW v \in Workers, v # w
        PROVE  /\ JobFits(v)'
               /\ worker'[v].pc # "idle" => Follows(v) /\ (Bears(v)' <=> Bears(v))
    <2>1. worker[v].pc # "idle" => jobs'[worker[v].slot] = jobs[worker[v].slot]
      BY <1>2, <1>3, Busy DEF Chain
    <2>. QED BY <1>3, <2>1, Stands
  <1>4. CarriersFrom(0)
    <2>1. ASSUME NEW i \in Slots, Carries(i)', i # j PROVE Carries(i) /\ jobs'[i] = jobs[i]
      <3>1. \A v \in Workers : worker'[v].pc # "idle" /\ worker'[v].slot = i => v # w
        BY <2>1
      <3>. QED BY <1>2, <1>3, <2>1, <3>1 DEF Carries
    <2>2. ASSUME Carries(j)'
          PROVE  Carries(j) /\ jobs'[j].run = jobs[j].run /\ jobs'[j].stream = jobs[j].stream
      <3>1. ASSUME NEW v \in Workers, worker'[v].pc # "idle", worker'[v].slot = j, Bears(v)'
            PROVE  worker'[w].pc = "page"
        <4>1. v = w
          BY <3>1
        <4>. QED BY <3>1, <4>1 DEF Bears, PagePcs, Denies, Retries
      <3>. QED BY <1>2, <2>2, <3>1 DEF Carries
    <2>. QED BY <1>1, <2>1, <2>2 DEF CarriersFrom
  <1>5. NewPage(0) /\ (\A r \in RunIds : RunStep(r)) /\ \A v \in Workers : HasRead(v)
    BY RunsSame DEF NewPage, HasRead
  <1>6. \A v \in Workers : Fresh(v)'
    <2>1. ASSUME NEW v \in Workers, v # w, worker'[v].pc # "idle" PROVE Fresh(v)'
      BY <1>1, <1>3, <1>4, <1>5, <2>1, FreshStays
    <2>2. Fresh(w)'
      BY DEF Fresh, Syncs, Denies
    <2>. QED BY <2>1, <2>2 DEF Fresh, Syncs
  <1>7. JobFits(w)'
    BY <1>2 DEF JobFits, StreamOf, Denies
  <1>8. OnePage' /\ NotDone' /\ RunsFit'
    BY <1>1, <1>4, <1>5, PagesStay, StillNotDone, RunsStayFit
  <1>9. OneSync'
    <2>1. ASSUME NEW i \in Slots, Live(i)', jobs'[i].stream = NoStream
          PROVE  Live(i) /\ jobs[i].stream = NoStream
      BY <1>2, <2>1 DEF Live
    <2>. QED BY <1>1, <2>1 DEF Chain, ChainInv, OneSync
  <1>. QED BY <1>3, <1>5, <1>6, <1>7, <1>8, <1>9 DEF ChainInv

LEMMA StartChain ==
  ASSUME Chain, SyncInv', NEW w \in Workers, StartRun(w), source.present /\ source.enabled
  PROVE  (\A r \in RunIds : RunStep(r)) /\ ChainInv'
PROOF
  <1>1. PICK r \in RunIds : /\ runs[r].status = "none"
                            /\ runs' = [runs EXCEPT ![r].status = "running"]
                            /\ Step(w, [worker[w] EXCEPT !.pc = "tools", !.run = r])
    BY DEF StartRun
  <1>2. /\ worker[w] \in Local /\ JobFits(w) /\ worker[w].pc = "sync" /\ jobs' = jobs
        /\ setting' = setting /\ runs \in [RunIds -> Run] /\ runs[r] \in Run
    BY DEF Chain, ChainInv, SyncInv, TypeOK, StartRun
  <1>0. /\ Slots' = Slots /\ Streams' = Streams /\ RunIds' = RunIds
        /\ 0 \notin Slots /\ 0 \in Slots \cup {0}
    BY <1>2, SameSetting DEF Slots
  <1> DEFINE f == [worker[w] EXCEPT !.pc = "tools", !.run = r]
             run == [runs[r] EXCEPT !.status = "running"]
  <1>3. f.pc = "tools" /\ f.slot = worker[w].slot /\ f.run = r /\ f.ok = worker[w].ok
    BY <1>2 DEF Local
  <1>4. run.status = "running" /\ run.streams = runs[r].streams
    BY <1>2 DEF Run
  <1>5. worker'[w] = f /\ \A v \in Workers \ {w} : worker'[v] = worker[v]
    BY <1>1, Stepped
  <1>6. runs' = [runs EXCEPT ![r] = run]
    BY <1>1
  <1>. HIDE DEF f, run
  <1>7. runs'[r] = run /\ \A q \in RunIds : q # r => runs'[q] = runs[q]
    BY <1>2, <1>6
  <1>8. \A q \in RunIds : RunStep(q)
    BY <1>1, <1>4, <1>7 DEF RunStep
  <1>9. ASSUME NEW v \in Workers, v # w
        PROVE  /\ JobFits(v)'
               /\ worker'[v].pc # "idle" => Follows(v) /\ (Bears(v)' <=> Bears(v))
    BY <1>2, <1>5, <1>9, Stands
  <1>10. JobFits(w)' /\ ~Bears(w)' /\ StreamOf(w)' = NoStream
    BY <1>2, <1>3, <1>5 DEF JobFits, StreamOf, Bears, PagePcs, Denies, Retries
  <1>11. CarriersFrom(0)
    <2>1. ASSUME NEW i \in Slots, Carries(i)' PROVE Carries(i)
      BY <1>2, <1>5, <1>9, <1>10, <2>1 DEF Carries
    <2>. QED BY <1>2, <2>1 DEF CarriersFrom
  <1>12. NewPage(0) /\ \A v \in Workers : HasRead(v)
    BY <1>3, <1>5 DEF NewPage, HasRead
  <1>13. OnePage' /\ NotDone' /\ RunsFit' /\ OneSync'
    BY <1>0, <1>2, <1>8, <1>11, <1>12, PagesStay, StillNotDone, RunsStayFit, SyncsStay DEF Fills
  <1>14. Fresh(w)'
    <2>1. \A s \in Streams : runs'[r].streams[s] = "none"
      BY <1>1, <1>4, <1>7 DEF Chain, ChainInv, RunsFit
    <2>2. ASSUME NEW j \in Slots, Carries(j)' PROVE jobs'[j].run # r
      <3>1. Carries(j) /\ jobs'[j] = jobs[j]
        BY <1>0, <1>2, <1>11, <2>2 DEF CarriersFrom
      <3>. QED BY <1>1, <3>1, Carried DEF Chain
    <2>3. \A s \in Streams : Untold(r, s)'
      BY <1>0, <2>1, <2>2 DEF Untold, Of
    <2>4. \A v \in Workers : ~Closes(v, r)'
      BY <1>1, <1>3, <1>5, Busy DEF Closes, Chain
    <2>. QED BY <1>0, <1>3, <1>4, <1>5, <1>7, <2>1, <2>3, <2>4 DEF Fresh
  <1>15. \A v \in Workers : Fresh(v)'
    <2>1. ASSUME NEW v \in Workers, v # w, worker'[v].pc # "idle" PROVE Fresh(v)'
      BY <1>0, <1>2, <1>8, <1>9, <1>11, <1>12, <2>1, FreshStays
    <2>. QED BY <1>14, <2>1 DEF Fresh, Syncs
  <1>. QED BY <1>8, <1>9, <1>10, <1>13, <1>15 DEF ChainInv

LEMMA TakesChain ==
  ASSUME Chain, SyncInv', NEW w \in Workers, NEW j \in Slots, Claim(w, j)
  PROVE  (\A r \in RunIds : RunStep(r)) /\ ChainInv'
PROOF
  <1> DEFINE x == [jobs[j] EXCEPT !.status = "running", !.attempts = @ + 1]
             pc == IF jobs[j].stream = NoStream THEN "sync" ELSE "page"
             f == [Idle EXCEPT !.pc = pc, !.slot = j, !.run = jobs[j].run]
  <1>1. jobs[j] \in Job /\ jobs[j].status = "pending" /\ UNCHANGED <<runs, setting>>
    BY DEF Claim, Chain, SyncInv, TypeOK
  <1>2. x.status = "running" /\ x.stream = jobs[j].stream /\ x.run = jobs[j].run
    BY <1>1 DEF Job
  <1>3. f.pc = pc /\ f.slot = j /\ f.run = jobs[j].run /\ f.ok = TRUE
    BY DEF Idle
  <1>4. jobs' = [jobs EXCEPT ![j] = x] /\ Step(w, f)
    BY DEF Claim
  <1>5. pc \in {"sync", "page"} /\ (pc = "sync" <=> jobs[j].stream = NoStream)
    OBVIOUS
  <1>. HIDE DEF x, f, pc
  <1>6. worker'[w] = f /\ \A v \in Workers \ {w} : worker'[v] = worker[v]
    BY <1>4, Stepped
  <1>7. \A v \in Workers : v # w /\ worker[v].pc # "idle" => worker[v].slot # j
    BY <1>1, Busy DEF Has, Chain
  <1>8. /\ jobs[j].stream # NoStream => Carries(j)
        /\ jobs[j].stream = NoStream => Live(j)
    BY <1>1 DEF Carries, Live
  <1>9. /\ worker'[w].pc \in {"sync", "page"} /\ worker'[w].slot = j /\ worker'[w].ok = TRUE
        /\ (x.stream # NoStream => x.run = worker'[w].run)
        /\ (worker'[w].pc = "sync" => x.stream = NoStream)
    BY <1>2, <1>3, <1>5, <1>6
  <1>10. /\ (x.status = "pending" \/ worker'[w].pc = "page") /\ x.stream # NoStream =>
              Carries(j) /\ x.run = jobs[j].run /\ x.stream = jobs[j].stream
         /\ x.status \in {"pending", "running"} /\ x.stream = NoStream =>
              Live(j) /\ jobs[j].stream = NoStream
    BY <1>2, <1>8
  <1>. QED BY <1>1, <1>4, <1>6, <1>7, <1>9, <1>10, OwnJobChain

LEMMA LeavesChain ==
  ASSUME Chain, SyncInv', NEW w \in Workers, Settle(w) \/ Postpone(w)
  PROVE  (\A r \in RunIds : RunStep(r)) /\ ChainInv'
PROOF
  <1>1. worker[w].pc # "idle" /\ worker[w].slot \in Slots /\ UNCHANGED <<runs, setting>>
    BY Busy DEF Settle, Postpone, Calling, Chain
  <1> DEFINE j == worker[w].slot
  <1>2. /\ jobs[j] \in Job /\ jobs[j].status = "running"
        /\ \A v \in Workers : v # w /\ worker[v].pc # "idle" => worker[v].slot # j
    BY <1>1, Busy DEF Has, Chain
  <1>3. Step(w, Idle)
    BY DEF Settle, Postpone
  <1>4. worker'[w].pc = "idle" /\ \A v \in Workers \ {w} : worker'[v] = worker[v]
    BY <1>3, Stepped DEF Idle
  <1>5. PICK x :
          /\ jobs' = [jobs EXCEPT ![j] = x]
          /\ \/ x = FreeSlot
             \/ /\ x.run = jobs[j].run /\ x.stream = jobs[j].stream
                /\ x.status = "pending" => StreamOf(w) = NoStream \/ Bears(w)
    <2>1. CASE Settle(w)
      <3> DEFINE y == IF worker[w].ok THEN FreeSlot
                      ELSE IF jobs[j].attempts >= MaxAttempts THEN [jobs[j] EXCEPT !.status = "dead"]
                      ELSE [jobs[j] EXCEPT !.status = "pending"]
      <3>1. jobs' = [jobs EXCEPT ![j] = y] /\ worker[w].pc = "ended"
        BY <2>1 DEF Settle
      <3>2. CASE worker[w].ok
        BY <3>1, <3>2
      <3>3. CASE ~worker[w].ok /\ GivesUp(w)
        <4>1. y = [jobs[j] EXCEPT !.status = "dead"]
          BY <3>3 DEF GivesUp
        <4>2. y.run = jobs[j].run /\ y.stream = jobs[j].stream /\ y.status = "dead"
          BY <1>2, <4>1 DEF Job
        <4>. QED BY <3>1, <4>2
      <3>4. CASE ~worker[w].ok /\ ~GivesUp(w)
        <4>1. y = [jobs[j] EXCEPT !.status = "pending"]
          BY <3>4 DEF GivesUp
        <4>2. y.run = jobs[j].run /\ y.stream = jobs[j].stream
          BY <1>2, <4>1 DEF Job
        <4>3. Bears(w)
          BY <3>1, <3>4 DEF Bears, Retries
        <4>. HIDE DEF y
        <4>. QED BY <3>1, <4>2, <4>3
      <3>. QED BY <3>2, <3>3, <3>4
    <2>2. CASE Postpone(w)
      <3> DEFINE y == Postponed(jobs[j])
      <3>1. jobs' = [jobs EXCEPT ![j] = y] /\ Bears(w)
        BY <2>2 DEF Postpone, Calling, Bears, PagePcs
      <3>2. y.run = jobs[j].run /\ y.stream = jobs[j].stream
        BY <1>2 DEF Postponed, Job
      <3>. HIDE DEF y
      <3>. QED BY <3>1, <3>2
    <2>. QED BY <2>1, <2>2
  <1>6. /\ x.status = "pending" /\ x.stream # NoStream =>
             Carries(j) /\ x.run = jobs[j].run /\ x.stream = jobs[j].stream
        /\ x.status \in {"pending", "running"} /\ x.stream = NoStream =>
             Live(j) /\ jobs[j].stream = NoStream
    <2>1. CASE x = FreeSlot
      BY <2>1 DEF FreeSlot
    <2>2. CASE x # FreeSlot
      BY <1>1, <1>2, <1>5, <2>2, Holds DEF Live, StreamOf, Chain
    <2>. QED BY <2>1, <2>2
  <1>. HIDE DEF j
  <1>7. j \in Slots
    BY <1>1 DEF j
  <1>. QED BY <1>1, <1>2, <1>4, <1>5, <1>6, <1>7, OwnJobChain

(* The scheduler, the CLI and the source's own changes.                    *)
Elsewhere ==
  \/ RequestSync \/ Pause \/ Enable \/ RemoveDocuments \/ RemoveRows \/ Rest \/ UNCHANGED vars
  \/ \E command \in setting.commands : CliReads(command)
  \/ \E s \in Streams, i \in Items : Change(s, i)

LEMMA ElsewhereChain ==
  ASSUME Chain, SyncInv', Elsewhere
  PROVE  (\A r \in RunIds : RunStep(r)) /\ ChainInv'
PROOF
  <1>1. UNCHANGED <<worker, setting>>
    BY DEF Elsewhere, RequestSync, Pause, Enable, RemoveDocuments, RemoveRows, Rest, vars, CliReads,
           Change
  <1>2. \A r \in RunIds : RunStep(r)
    <2>1. CASE runs' = runs
      BY <2>1, RunsSame
    <2>2. CASE RemoveRows
      <3>1. ASSUME NEW r \in RunIds
            PROVE  /\ runs'[r].streams = runs[r].streams
                   /\ runs'[r].status # runs[r].status =>
                        /\ runs'[r].status = "deleted" /\ runs[r].status # "none"
                        /\ cli.pc = "purged"
        <4>1. runs[r] \in Run
          BY DEF Chain, SyncInv, TypeOK
        <4>. QED BY <2>2, <4>1 DEF RemoveRows, Run
      <3>. QED BY <3>1 DEF RunStep
    <2>. QED BY <2>1, <2>2 DEF Elsewhere, RequestSync, Pause, Enable, RemoveDocuments, Rest, vars,
                               CliReads, Change
  <1>3. CASE jobs' = jobs
    <2>1. Fills(0) /\ 0 \in Slots \cup {0}
      BY <1>3 DEF Fills
    <2>. QED BY <1>1, <1>2, <2>1, AskChain
  <1>4. CASE ~SyncQueued /\ Enqueue(Queued(0, NoStream, 0))
    <2>1. PICK k \in Slots : Fills(k) /\ jobs'[k].stream = NoStream
      BY <1>4, QueuedJob
    <2>. QED BY <1>1, <1>2, <1>4, <2>1, AskChain
  <1>. QED BY <1>2, <1>3, <1>4 DEF Elsewhere, RequestSync, Pause, Enable, RemoveDocuments,
                                   RemoveRows, Rest, vars, CliReads, Change

LEMMA Branches ==
  ASSUME [Next]_vars
  PROVE  \/ Crash \/ Elsewhere
         \/ \E w \in Workers : Goings(w)
         \/ \E w \in Workers : \/ StartRun(w) /\ source.present /\ source.enabled
                               \/ \E s \in Streams : FanOut(w, s)
                               \/ NextPage(w)
                               \/ \E j \in Slots : Claim(w, j)
                               \/ Settle(w) \/ Postpone(w)
PROOF
  <1>1. ASSUME NEW w \in Workers, Handle(w)
        PROVE  \/ Goings(w)
               \/ StartRun(w) /\ source.present /\ source.enabled
               \/ \E s \in Streams : FanOut(w, s)
               \/ NextPage(w)
               \/ \E j \in Slots : Claim(w, j)
               \/ Settle(w) \/ Postpone(w)
    BY <1>1 DEF Handle, Goings
  <1>. QED BY <1>1 DEF Next, Elsewhere

LEMMA ChainStep ==
  ASSUME Chain, [Next]_vars, ~Crash
  PROVE  (\A r \in RunIds : RunStep(r)) /\ ChainInv'
PROOF
  <1>1. SyncInv'
    BY Steps DEF Chain
  <1>2. ASSUME NEW w \in Workers, Goings(w)
        PROVE  (\A r \in RunIds : RunStep(r)) /\ ChainInv'
    <2>1. /\ Goes(w) /\ jobs' = jobs /\ setting' = setting
          /\ \A r \in RunIds : RunStep(r)
      BY <1>1, <1>2, GoingsGo
    <2>. QED BY <1>1, <2>1, GoesChain
  <1>. QED BY <1>1, <1>2, Branches, ElsewhereChain, StartChain, FanOutChain, NextPageChain,
              TakesChain, LeavesChain

LEMMA ChainNext == SyncInv /\ ChainInv /\ [Next]_vars => ChainInv'
PROOF
  <1> SUFFICES ASSUME SyncInv, ChainInv, [Next]_vars, bounds'.crashes = 0 PROVE ChainInv'
    BY DEF ChainInv
  <1>1. bounds.crashes = 0 /\ ~Crash
    BY NoCrash
  <1>. QED BY <1>1, ChainStep DEF Chain

LEMMA ChainBegins == Init => ChainInv
PROOF
  <1> SUFFICES ASSUME Init PROVE ChainInv
    OBVIOUS
  <1>1. \A j \in Slots : jobs[j].status = "free" /\ ~Carries(j) /\ ~Live(j)
    BY DEF Init, Carries, Live, FreeSlot, Idle
  <1>2. \A w \in Workers : worker[w].pc = "idle"
    BY DEF Init, Idle
  <1>3. RunsFit
    BY <1>2 DEF Init, RunsFit, NoRun, Succeeds, Closes
  <1>. QED BY <1>1, <1>2, <1>3 DEF ChainInv, OneSync, OnePage, NotDone, JobFits, Fresh, Syncs

LEMMA ChainAlways == Spec => [](SyncInv /\ ChainInv)
  BY Beginning, Steps, ChainBegins, ChainNext, PTL DEF Spec

-----------------------------------------------------------------------------
(* While neither the operator nor a crash has come across, a run is over   *)
(* when nothing is left to do.                                             *)
Alone == bounds.crashes = 0 /\ bounds.commands = 0

Untouched ==
  /\ cli.pc = "idle" /\ source.present /\ source.enabled
  /\ \A w \in Workers : worker[w].pc = "save" => worker[w].row.present /\ worker[w].row.enabled
  /\ \A r \in RunIds : runs[r].status # "deleted"

Closed(r, s) == runs[r].streams[s] \in {"done", "failed"}

(* A sync that has still to queue stream s, or to fail it.                 *)
Watches(w, s) ==
  \/ worker[w].pc = "tools"
  \/ Denies(w) /\ worker[w].pc # "deny"
  \/ worker[w].pc = "deny" /\ s \in worker[w].todo \cup worker[w].failing
  \/ worker[w].pc = "fanout" /\ s \in worker[w].todo

Minded(r, s) ==
  \/ \E j \in Slots : Carries(j) /\ Of(j, r, s)
  \/ \E w \in Workers : Syncs(w) /\ worker[w].run = r /\ Watches(w, s)

(* A page's worker that denies has its own stream before it or behind it.  *)
OwnDenied == \A w \in Workers : worker[w].pc = "deny" /\ ~Syncs(w) =>
  StreamOf(w) \in worker[w].todo \cup worker[w].failing \/ Closed(worker[w].run, StreamOf(w))

Finishing(r) == \E w \in Workers : worker[w].run = r /\ worker[w].pc \in {"finish", "deny", "close"}

NoneLost == \A r \in RunIds : runs[r].status = "running" =>
  /\ \A s \in Streams : Closed(r, s) \/ Minded(r, s)
  /\ Over(r) => Finishing(r)

OverInv == Alone => Untouched /\ OwnDenied /\ NoneLost

(* The same, where it is known that nothing has come across.               *)
Calm == Chain /\ Alone /\ Untouched /\ OwnDenied /\ NoneLost

(* What a handler's step leaves behind.                                    *)
Tends(w) ==
  /\ source'.present /\ source'.enabled
  /\ worker'[w].pc = "save" => worker'[w].row.present /\ worker'[w].row.enabled
  /\ \A r \in RunIds : runs'[r].status = "running" => runs[r].status = "running"
  /\ \A r \in RunIds, s \in Streams :
       /\ Closed(r, s) => Closed(r, s)'
       /\ \/ runs'[r].streams[s] = runs[r].streams[s]
          \/ r = worker[w].run /\ worker'[w].pc \in {"finish", "deny", "close"}
  /\ \A r \in RunIds, s \in Streams : r = worker[w].run =>
       /\ s = StreamOf(w) /\ Bears(w) => Bears(w)' \/ Closed(r, s)'
       /\ Watches(w, s) => Watches(w, s)' \/ Closed(r, s)' \/ runs'[r].status # "running"
       /\ s = StreamOf(w) /\ worker'[w].pc = "deny" =>
            s \in worker'[w].todo \cup worker'[w].failing \/ Closed(r, s)'
       /\ worker[w].pc \in {"finish", "deny", "close"} => \/ worker'[w].pc \in {"finish", "deny", "close"}
                                                 \/ runs'[r].status # "running"
                                                 \/ ~Over(r)'

(* Most steps leave the runs alone.                                        *)
LEMMA TendsStill ==
  ASSUME Calm, NEW w \in Workers, runs' = runs, UNCHANGED <<source, setting>>,
         worker'[w].pc # "save", worker'[w].pc # "deny", worker[w].pc \notin {"finish", "deny", "close"},
         Bears(w) => Bears(w)',
         \A s \in Streams : Watches(w, s) => Watches(w, s)'
  PROVE  Tends(w)
  BY DEF Tends, Closed, Calm, Untouched

LEMMA TendsSync ==
  ASSUME Calm, NEW w \in Workers, ToolsFit(w) \/ \E f : ToolsFail(w, f)
  PROVE  Tends(w)
PROOF
  <1>1. /\ worker[w] \in Local /\ worker[w].pc = "tools" /\ ~Bears(w) /\ worker[w].run \in RunIds
        /\ StreamOf(w) = NoStream /\ UNCHANGED <<source, setting>>
    BY Busy DEF Calm, Chain, ChainInv, JobFits, SyncInv, TypeOK, ToolsFit, ToolsFail, Bears, Denies, Retries,
       PagePcs
  <1>2. CASE ToolsFit(w)
    <2>1. worker'[w] = [worker[w] EXCEPT !.pc = "fanout", !.todo = Streams]
      BY <1>2, Stepped DEF ToolsFit, Calm
    <2>2. worker'[w].pc = "fanout" /\ worker'[w].todo = Streams /\ runs' = runs
      BY <1>1, <1>2, <2>1 DEF Local, ToolsFit
    <2>. QED BY <1>1, <2>2, TendsStill DEF Watches
  <1>3. ASSUME NEW f, ToolsFail(w, f), f = "unauthorized" PROVE Tends(w)
    <2>1. worker'[w] = [worker[w] EXCEPT !.pc = "state", !.to = "needs_reauth"]
      BY <1>3, Stepped DEF ToolsFail, Calm
    <2>2. worker'[w].pc = "state" /\ worker'[w].to = "needs_reauth" /\ runs' = runs
      BY <1>1, <1>3, <2>1 DEF Local, ToolsFail
    <2>. QED BY <1>1, <2>2, TendsStill DEF Watches, Denies
  <1>4. ASSUME NEW f, ToolsFail(w, f), f # "unauthorized" PROVE Tends(w)
    <2> DEFINE q == worker[w].run
               run == [runs[q] EXCEPT !.status = IF @ = "deleted" THEN @ ELSE "failed"]
    <2>1. runs' = [runs EXCEPT ![q] = run]
      BY <1>4 DEF ToolsFail
    <2>2. runs \in [RunIds -> Run] /\ runs[q] \in Run /\ runs[q].status # "deleted"
      BY <1>1 DEF Calm, Untouched, Chain, SyncInv, TypeOK
    <2>3. run.streams = runs[q].streams /\ run.status = "failed"
      BY <2>2 DEF Run
    <2>. HIDE DEF run
    <2>4. runs'[q] = run /\ \A p \in RunIds : p # q => runs'[p] = runs[p]
      BY <1>1, <2>1, <2>2
    <2>5. worker'[w].pc \in {"state", "ended"}
      <3>1. \/ Step(w, [worker[w] EXCEPT !.pc = "state", !.to = "error"])
            \/ Step(w, Ended(w, FALSE))
        BY <1>4 DEF ToolsFail
      <3>2. \/ worker'[w] = [worker[w] EXCEPT !.pc = "state", !.to = "error"]
            \/ worker'[w] = Ended(w, FALSE)
        BY <3>1, Stepped DEF Calm
      <3>. QED BY <1>1, <3>2 DEF Ended, Local
    <2>6. source.present /\ source.enabled
      BY DEF Calm, Untouched
    <2>. QED BY <1>1, <2>3, <2>4, <2>5, <2>6 DEF Tends, Closed
  <1>. QED BY <1>2, <1>3, <1>4

LEMMA TendsRow ==
  ASSUME Calm, NEW w \in Workers, GetSource(w) \/ SaveSource(w)
  PROVE  Tends(w)
PROOF
  <1>1. /\ worker[w] \in Local /\ JobFits(w) /\ worker[w].pc \in {"state", "outcome", "save"}
        /\ runs' = runs /\ setting' = setting /\ worker[w].run \in RunIds
    BY Busy DEF Calm, Chain, ChainInv, SyncInv, TypeOK, GetSource, SaveSource
  <1>2. source'.present /\ source'.enabled
    <2>1. CASE GetSource(w)
      BY <2>1 DEF GetSource, Calm, Untouched
    <2>2. CASE SaveSource(w)
      <3>1. /\ source' = [worker[w].row EXCEPT !.state = worker[w].to]
            /\ worker[w].row \in Source /\ worker[w].row.present /\ worker[w].row.enabled
        BY <1>1, <2>2 DEF SaveSource, Calm, Untouched, Local
      <3>. QED BY <3>1 DEF Source
    <2>. QED BY <2>1, <2>2
  <1>3. worker[w].pc # "save" \/ ~Denies(w) \/ SaveSource(w)
    BY DEF GetSource, SaveSource
  <1>4. CASE Step(w, AfterState(w)) /\ (worker[w].pc = "outcome" \/ ~Denies(w))
    <2>1. worker[w].to # "needs_reauth"
      BY <1>1, <1>4 DEF JobFits, Denies
    <2>2. worker'[w] = [worker[w] EXCEPT !.pc = "ended", !.row = Idle.row]
      BY <1>4, <2>1, Stepped DEF AfterState, Calm
    <2>3. worker'[w].pc = "ended"
      BY <1>1, <2>2 DEF Local
    <2>4. ~Bears(w) /\ \A s \in Streams : ~Watches(w, s)
      BY <1>1, <2>1 DEF Bears, Denies, Watches, PagePcs, Retries
    <2>. QED BY <1>1, <1>2, <2>3, <2>4 DEF Tends, Closed
  <1>5. CASE Step(w, AfterState(w)) /\ worker[w].pc # "outcome" /\ Denies(w)
    <2>1. worker'[w] = [worker[w] EXCEPT !.pc = "deny", !.row = Idle.row, !.todo = Streams]
      BY <1>1, <1>5, Stepped DEF AfterState, Denies, Calm
    <2>2. worker'[w].pc = "deny" /\ worker'[w].todo = Streams
      BY <1>1, <2>1 DEF Local
    <2>3. Bears(w)' /\ \A s \in Streams : Watches(w, s)'
      BY <2>2 DEF Bears, Denies, Watches
    <2>. QED BY <1>1, <1>2, <2>2, <2>3 DEF Tends, Closed
  <1>6. CASE Step(w, [worker[w] EXCEPT !.pc = "save", !.row = source]) /\ GetSource(w)
    <2>1. worker'[w] = [worker[w] EXCEPT !.pc = "save", !.row = source]
      BY <1>6, Stepped DEF Calm
    <2>2. /\ worker'[w].pc = "save" /\ worker'[w].row = source
          /\ worker'[w].to = worker[w].to
      BY <1>1, <2>1 DEF Local
    <2>3. worker[w].pc \in {"state", "outcome"} /\ source.present /\ source.enabled
      BY <1>6 DEF GetSource, Calm, Untouched
    <2>4. Denies(w) => Denies(w)'
      BY <1>1, <2>2, <2>3 DEF Denies
    <2>5. Bears(w) => Bears(w)'
      BY <2>3, <2>4 DEF Bears, PagePcs, Retries
    <2>6. \A s \in Streams : Watches(w, s) => Watches(w, s)'
      BY <2>2, <2>3, <2>4 DEF Watches
    <2>. QED BY <1>1, <1>2, <2>2, <2>3, <2>5, <2>6 DEF Tends, Closed
  <1>. QED BY <1>4, <1>5, <1>6 DEF GetSource, SaveSource

(* What note_stream does for good: a stream that fails or is done.         *)
LEMMA NoteCloses ==
  ASSUME Calm, setting' = setting, NEW r \in RunIds, NEW S, NEW outcome \in {"done", "failed"},
         NoteAll(r, S, outcome)
  PROVE  /\ \A q \in RunIds : runs'[q].status = runs[q].status
         /\ \A q \in RunIds, s \in Streams : /\ Closed(q, s) => Closed(q, s)'
                                             /\ q # r => runs'[q].streams[s] = runs[q].streams[s]
         /\ \A s \in Streams : s \in S => Closed(r, s)'
  BY NotedStreams DEF Closed, Calm, Untouched

LEMMA TendsDeny ==
  ASSUME Calm, NEW w \in Workers, (\E s \in Streams : DenyCheck(w, s)) \/ DenyNote(w)
  PROVE  Tends(w)
PROOF
  <1>1. /\ worker[w] \in Local /\ worker[w].pc = "deny" /\ worker[w].run \in RunIds
        /\ UNCHANGED <<source, setting>> /\ source.present /\ source.enabled
    BY Busy DEF Calm, Untouched, Chain, SyncInv, TypeOK, DenyCheck, DenyNote
  <1>2. StreamOf(w) # NoStream => \A s \in Streams : s = StreamOf(w) =>
          s \in worker[w].todo \cup worker[w].failing \/ Closed(worker[w].run, s)
    BY <1>1 DEF Calm, OwnDenied, Syncs
  <1>3. ASSUME NEW s \in Streams PROVE s = StreamOf(w) => StreamOf(w) # NoStream
    BY SettingType DEF Calm, Chain, SyncInv, Streams
  <1>4. ASSUME NEW s \in Streams, DenyCheck(w, s) PROVE Tends(w)
    <2> DEFINE failing == IF runs[worker[w].run].streams[s] \in {"done", "failed"} THEN {} ELSE {s}
    <2>1. /\ worker'[w] = [worker[w] EXCEPT !.todo = @ \ {s}, !.failing = failing]
          /\ runs' = runs /\ worker[w].failing = {}
      BY <1>4, Stepped DEF DenyCheck, Calm
    <2>2. s \in failing \/ Closed(worker[w].run, s)
      BY DEF Closed
    <2>. HIDE DEF failing
    <2>3. /\ worker'[w].pc = "deny" /\ worker'[w].todo = worker[w].todo \ {s}
          /\ worker'[w].failing = failing
      BY <1>1, <2>1 DEF Local
    <2>4. Bears(w)'
      BY <2>3 DEF Bears, Denies
    <2>5. \A r \in RunIds, t \in Streams : Closed(r, t) <=> Closed(r, t)'
      BY <2>1 DEF Closed
    <2>6. ASSUME NEW t \in Streams, t \in worker[w].todo \cup worker[w].failing
          PROVE  t \in worker'[w].todo \cup worker'[w].failing \/ Closed(worker[w].run, t)
      BY <2>1, <2>2, <2>3, <2>6
    <2>7. \A t \in Streams : Watches(w, t) => Watches(w, t)' \/ Closed(worker[w].run, t)
      BY <1>1, <2>3, <2>6 DEF Watches
    <2>. QED BY <1>1, <1>2, <1>3, <2>1, <2>3, <2>4, <2>5, <2>6, <2>7 DEF Tends
  <1>5. CASE DenyNote(w)
    <2>1. /\ worker'[w] = [worker[w] EXCEPT !.failing = {}]
          /\ NoteAll(worker[w].run, worker[w].failing, "failed")
      BY <1>5, Stepped DEF DenyNote, Calm
    <2>3. /\ worker'[w].pc = "deny" /\ worker'[w].todo = worker[w].todo
      BY <1>1, <2>1 DEF Local
    <2>4. Bears(w)'
      BY <2>3 DEF Bears, Denies
    <2>5. PICK q \in RunIds : q = worker[w].run
      BY <1>1
    <2>6. /\ \A r \in RunIds : runs'[r].status = runs[r].status
          /\ \A r \in RunIds, s \in Streams : /\ Closed(r, s) => Closed(r, s)'
                                              /\ r # q => runs'[r].streams[s] = runs[r].streams[s]
          /\ \A s \in Streams : s \in worker[w].failing => Closed(q, s)'
      BY <1>1, <2>1, <2>5, NoteCloses
    <2>7. \A t \in Streams : Watches(w, t) => Watches(w, t)' \/ Closed(q, t)'
      BY <1>1, <2>3, <2>6 DEF Watches, Denies
    <2>8. \A s \in Streams : s = StreamOf(w) =>
            s \in worker'[w].todo \cup worker'[w].failing \/ Closed(q, s)'
      BY <1>2, <1>3, <2>3, <2>5, <2>6
    <2>. QED BY <1>1, <2>3, <2>4, <2>5, <2>6, <2>7, <2>8 DEF Tends
  <1>. QED BY <1>4, <1>5

LEMMA TendsFinish ==
  ASSUME Calm, NEW w \in Workers, ReadRun(w) \/ FinishRun(w)
  PROVE  Tends(w)
PROOF
  <1>1. /\ worker[w] \in Local /\ worker[w].pc \in {"finish", "deny", "close"}
        /\ worker[w].run \in RunIds
        /\ UNCHANGED <<source, setting>> /\ source.present /\ source.enabled
        /\ worker[w].pc = "deny" => worker[w].todo = {} /\ worker[w].failing = {}
    BY Busy DEF Calm, Untouched, Chain, SyncInv, TypeOK, ReadRun, FinishRun, AllDenied
  <1>2. PICK q \in RunIds : q = worker[w].run
    BY <1>1
  <1>3. ASSUME NEW s \in Streams, s = StreamOf(w), Bears(w) PROVE Closed(q, s)
    <2>1. s # NoStream
      BY SettingType DEF Calm, Chain, SyncInv, Streams
    <2>2. worker[w].pc = "deny"
      BY <1>1, <1>3 DEF Bears, Denies, PagePcs, Retries
    <2>. QED BY <1>1, <1>2, <1>3, <2>1, <2>2 DEF Calm, OwnDenied, Syncs
  <1>4. \A s \in Streams : ~Watches(w, s)
    BY <1>1 DEF Watches, Denies
  <1>5. Streams' = Streams
    BY <1>1, SameSetting
  <1>6. CASE FinishRun(w)
    <2> DEFINE o == worker[w].outcome
               run == [runs[q] EXCEPT !.status = o]
               to == IF o = "failed" THEN "error" ELSE "active"
    <2>1. runs \in [RunIds -> Run] /\ runs[q] \in Run /\ runs[q].status # "deleted" /\ o # "running"
      BY <1>1 DEF Calm, Untouched, Chain, SyncInv, TypeOK, Local, Outcomes
    <2>2. worker'[w] = [worker[w] EXCEPT !.pc = "outcome", !.outcome = Idle.outcome, !.to = to]
      BY <1>6, Stepped DEF FinishRun, Calm
    <2>. HIDE DEF to
    <2>3. worker'[w].pc = "outcome"
      BY <1>1, <2>2 DEF Local
    <2>4. runs' = [runs EXCEPT ![q] = run]
      BY <1>2, <1>6, <2>1 DEF FinishRun
    <2>5. run.streams = runs[q].streams /\ run.status # "running"
      BY <2>1 DEF Run
    <2>. HIDE DEF run
    <2>6. runs'[q] = run /\ \A p \in RunIds : p # q => runs'[p] = runs[p]
      BY <2>1, <2>4
    <2>. QED BY <1>1, <1>2, <1>3, <1>4, <2>3, <2>5, <2>6 DEF Tends, Closed
  <1>7. CASE ReadRun(w) /\ Finishes(q)
    <2> DEFINE o == Outcome(q)
    <2>1. worker'[w] = [worker[w] EXCEPT !.pc = "close", !.outcome = o] /\ runs' = runs
      BY <1>2, <1>7, Stepped DEF ReadRun, Calm
    <2>. HIDE DEF o
    <2>2. worker'[w].pc = "close"
      BY <1>1, <2>1 DEF Local
    <2>. QED BY <1>1, <1>2, <1>3, <1>4, <2>1, <2>2 DEF Tends, Closed
  <1>8. CASE ReadRun(w) /\ ~Finishes(q)
    <2>0. worker[w].pc # "close"
      BY <1>8 DEF ReadRun, AllDenied
    <2>1. worker'[w] = [worker[w] EXCEPT !.pc = "ended"] /\ runs' = runs
      BY <1>2, <1>8, Stepped DEF ReadRun, Calm
    <2>2. worker'[w].pc = "ended"
      BY <1>1, <2>1 DEF Local
    <2>3. runs'[q].status = "running" => ~Over(q)'
      BY <1>5, <1>8, <2>1 DEF Finishes, Over
    <2>. QED BY <1>1, <1>2, <1>3, <1>4, <2>1, <2>2, <2>3 DEF Tends, Closed
  <1>. QED BY <1>6, <1>7, <1>8

LEMMA TendsRead ==
  ASSUME Calm, NEW w \in Workers,
         \/ BeginPage(w)
         \/ Fetch(w, TRUE) \/ Fetch(w, FALSE) \/ IndexPage(w) \/ MarkSeen(w) \/ Reconcile(w)
         \/ DeleteDoomed(w)
  PROVE  Tends(w)
PROOF
  <1>1. /\ worker[w].pc \in PagePcs /\ runs' = runs /\ UNCHANGED <<source, setting>>
        /\ BeginPage(w) => source.present /\ source.enabled
    BY DEF Fetch, IndexPage, MarkSeen, Reconcile, DeleteDoomed, PagePcs, BeginPage, Calm, Untouched
  <1>2. worker[w] \in Local
    BY <1>1, InPage DEF Calm
  <1>3. worker'[w].pc \in PagePcs
    <2>1. CASE BeginPage(w)
      <3>1. worker'[w] = [worker[w] EXCEPT !.pc = "fetch"]
        BY <1>1, <2>1, Stepped DEF BeginPage, Calm
      <3>. QED BY <1>2, <3>1 DEF Local, PagePcs
    <2>2. CASE \E e \in BOOLEAN : Fetch(w, e)
      <3>1. PICK page, next, whole :
              Step(w, [worker[w] EXCEPT !.pc = "index", !.page = page, !.next = next,
                                        !.whole = whole])
        BY <2>2 DEF Fetch
      <3>2. worker'[w] = [worker[w] EXCEPT !.pc = "index", !.page = page, !.next = next,
                                           !.whole = whole]
        BY <3>1, Stepped DEF Calm
      <3>. QED BY <1>2, <3>2 DEF Local, PagePcs
    <2>3. CASE IndexPage(w)
      <3>1. worker'[w] = [worker[w] EXCEPT !.pc = "mark"]
        BY <2>3, Stepped DEF IndexPage, Calm
      <3>. QED BY <1>2, <3>1 DEF Local, PagePcs
    <2>4. CASE MarkSeen(w)
      <3>1. PICK pc \in {"next", "reconcile", "done"} :
              Step(w, [worker[w] EXCEPT !.page = {}, !.whole = FALSE, !.pc = pc])
        BY <2>4 DEF MarkSeen
      <3>2. worker'[w] = [worker[w] EXCEPT !.page = {}, !.whole = FALSE, !.pc = pc]
        BY <3>1, Stepped DEF Calm
      <3>. QED BY <1>2, <3>2 DEF Local, PagePcs
    <2>5. CASE Reconcile(w)
      <3>1. PICK doomed : Step(w, [worker[w] EXCEPT !.pc = "delete", !.doomed = doomed])
        BY <2>5 DEF Reconcile
      <3>2. worker'[w] = [worker[w] EXCEPT !.pc = "delete", !.doomed = doomed]
        BY <3>1, Stepped DEF Calm
      <3>. QED BY <1>2, <3>2 DEF Local, PagePcs
    <2>6. CASE DeleteDoomed(w)
      <3>1. worker'[w] = [worker[w] EXCEPT !.pc = "done", !.doomed = {}]
        BY <2>6, Stepped DEF DeleteDoomed, Calm
      <3>. QED BY <1>2, <3>1 DEF Local, PagePcs
    <2>. QED BY <2>1, <2>2, <2>3, <2>4, <2>5, <2>6
  <1>4. worker'[w].pc \notin {"save", "deny"} /\ worker[w].pc \notin {"finish", "deny", "close"}
    BY <1>1, <1>3 DEF PagePcs
  <1>5. Bears(w)' /\ \A s \in Streams : ~Watches(w, s)
    BY <1>1, <1>3 DEF Bears, Watches, Denies, PagePcs
  <1>. QED BY <1>1, <1>4, <1>5, TendsStill

(* The end of a page: its stream is closed, or is somebody's to fail.      *)
LEMMA TendsEnd ==
  ASSUME Calm, NEW w \in Workers,
         StreamDone(w) \/ Unauthorized(w) \/ Unavailable(w) \/ Refused(w)
  PROVE  Tends(w)
PROOF
  <1>1. /\ worker[w].pc \in PagePcs /\ UNCHANGED <<source, setting>>
        /\ source.present /\ source.enabled
    BY DEF StreamDone, Unauthorized, Unavailable, Refused, Calling, PagePcs, Calm, Untouched
  <1>2. worker[w] \in Local /\ worker[w].run \in RunIds /\ StreamOf(w) \in Streams
    BY <1>1, InPage DEF Calm
  <1>3. \A s \in Streams : ~Watches(w, s)
    BY <1>1 DEF Watches, Denies, PagePcs
  <1>4. worker[w].pc \notin {"finish", "deny", "close"}
    BY <1>1 DEF PagePcs
  <1>5. PICK q \in RunIds : q = worker[w].run
    BY <1>2
  <1>6. CASE /\ worker'[w].pc = "finish"
             /\ \E outcome \in {"done", "failed"} : Note(w, outcome)
    <2>1. PICK outcome \in {"done", "failed"} : NoteAll(q, {StreamOf(w)}, outcome)
      BY <1>5, <1>6 DEF Note
    <2>2. /\ \A r \in RunIds : runs'[r].status = runs[r].status
          /\ \A r \in RunIds, s \in Streams : /\ Closed(r, s) => Closed(r, s)'
                                              /\ r # q => runs'[r].streams[s] = runs[r].streams[s]
          /\ \A s \in Streams : s \in {StreamOf(w)} => Closed(q, s)'
      BY <1>1, <2>1, NoteCloses
    <2>. QED BY <1>1, <1>3, <1>4, <1>5, <1>6, <2>2 DEF Tends
  <1>7. CASE runs' = runs /\ Bears(w)' /\ worker'[w].pc \notin {"save", "deny"}
    BY <1>1, <1>3, <1>4, <1>7, TendsStill
  <1>8. CASE StreamDone(w)
    <2>1. worker'[w] = [worker[w] EXCEPT !.pc = "finish"] /\ Note(w, "done")
      BY <1>8, Stepped DEF StreamDone, Calm
    <2>2. worker'[w].pc = "finish"
      BY <1>2, <2>1 DEF Local
    <2>. QED BY <1>6, <2>1, <2>2
  <1>9. CASE Unauthorized(w)
    <2>1. worker'[w] = [Idle EXCEPT !.pc = "state", !.to = "needs_reauth", !.slot = worker[w].slot,
                                    !.run = worker[w].run]
      BY <1>9, Stepped DEF Unauthorized, Calm
    <2>2. worker'[w].pc = "state" /\ worker'[w].to = "needs_reauth"
      BY <2>1 DEF Idle
    <2>3. Bears(w)' /\ runs' = runs
      BY <1>9, <2>2 DEF Bears, Denies, Unauthorized
    <2>. QED BY <1>7, <2>2, <2>3
  <1>10. CASE Unavailable(w) /\ GivesUp(w)
    <2>1. worker'[w] = [Idle EXCEPT !.pc = "finish", !.ok = FALSE,
                                    !.slot = worker[w].slot, !.run = worker[w].run]
      BY <1>10, Stepped DEF Unavailable, Calm
    <2>2. worker'[w].pc = "finish"
      BY <2>1 DEF Idle
    <2>3. Note(w, "failed")
      BY <1>10 DEF Unavailable
    <2>. QED BY <1>6, <2>2, <2>3
  <1>11. CASE Unavailable(w) /\ ~GivesUp(w)
    <2>1. worker'[w] = [Idle EXCEPT !.pc = "ended", !.ok = FALSE,
                                    !.slot = worker[w].slot, !.run = worker[w].run]
      BY <1>11, Stepped DEF Unavailable, Calm
    <2>2. worker'[w].pc = "ended" /\ worker'[w].ok = FALSE /\ worker'[w].slot = worker[w].slot
      BY <2>1 DEF Idle
    <2>3. jobs' = jobs /\ runs' = runs
      BY <1>11 DEF Unavailable
    <2>4. ~GivesUp(w)'
      BY <1>11, <2>2, <2>3 DEF GivesUp
    <2>5. Bears(w)'
      BY <2>2, <2>4 DEF Bears, Retries
    <2>. QED BY <1>7, <2>2, <2>3, <2>5
  <1>12. CASE Refused(w)
    <2>1. worker'[w] = [Idle EXCEPT !.pc = "finish", !.slot = worker[w].slot, !.run = worker[w].run]
      BY <1>12, Stepped DEF Refused, Calm
    <2>2. worker'[w].pc = "finish" /\ Note(w, "failed")
      BY <1>12, <2>1 DEF Idle, Refused
    <2>. QED BY <1>6, <2>2
  <1>. QED BY <1>8, <1>9, <1>10, <1>11, <1>12

LEMMA GoingsTend ==
  ASSUME Calm, NEW w \in Workers, Goings(w)
  PROVE  Tends(w) /\ cli' = cli
PROOF
  <1>1. cli' = cli
    BY DEF Goings, StartRun, ToolsFit, ToolsFail, GetSource, SaveSource, ReadRun, FinishRun,
           DenyNote, DenyCheck, BeginPage, Fetch, IndexPage, MarkSeen, Reconcile, DeleteDoomed, StreamDone,
           Unauthorized, Unavailable, Refused
  <1>2. ~(StartRun(w) /\ ~(source.present /\ source.enabled))
    BY DEF Calm, Untouched
  <1>. QED BY <1>1, <1>2, TendsSync, TendsRow, TendsDeny, TendsFinish, TendsRead, TendsEnd
           DEF Goings

-----------------------------------------------------------------------------
(* Whose stream it is that is neither done nor failed.                     *)
LEMMA GoingsLoseNone ==
  ASSUME Calm, SyncInv', NEW w \in Workers, Goings(w)
  PROVE  Untouched' /\ OwnDenied' /\ NoneLost'
PROOF
  <1>1. /\ Goes(w) /\ jobs' = jobs /\ setting' = setting /\ Tends(w) /\ cli' = cli
        /\ \A r \in RunIds : RunStep(r)
    BY GoingsGo, GoingsTend DEF Calm
  <1>2. Slots' = Slots /\ Streams' = Streams /\ RunIds' = RunIds
    BY <1>1, SameSetting
  <1>3. worker[w].pc # "idle" /\ worker'[w].run = worker[w].run
        /\ \A v \in Workers \ {w} : worker'[v] = worker[v]
    BY <1>1 DEF Goes
  <1>4. Fills(0) /\ 0 \in Slots \cup {0}
    BY <1>1 DEF Fills
  <1>5. /\ \A v \in Workers : worker[v].pc # "idle" =>
             /\ worker[v].slot \in Slots \ {0}
             /\ worker'[v].slot = worker[v].slot /\ worker'[v].run = worker[v].run
             /\ jobs'[worker[v].slot] = jobs[worker[v].slot]
             /\ StreamOf(v)' = StreamOf(v) /\ (GivesUp(v)' <=> GivesUp(v))
        /\ \A v \in Workers : worker'[v].pc # "idle" => worker[v].pc # "idle"
    BY <1>1, <1>4, GoesKeeps DEF Calm
  <1>6. Untouched'
    <2>1. \A r \in RunIds : runs'[r].status # "deleted"
      BY <1>1 DEF RunStep, Outcomes, Calm, Untouched
    <2>2. \A v \in Workers : worker'[v].pc = "save" => worker'[v].row.present /\ worker'[v].row.enabled
      BY <1>1, <1>3 DEF Tends, Calm, Untouched
    <2>. QED BY <1>1, <1>2, <2>1, <2>2 DEF Untouched, Calm, Tends
  <1>7. ASSUME NEW v \in Workers, worker'[v].pc = "deny", ~Syncs(v)'
        PROVE  StreamOf(v)' \in worker'[v].todo \cup worker'[v].failing
               \/ runs'[worker'[v].run].streams[StreamOf(v)'] \in {"done", "failed"}
    <2>1. /\ worker[v].pc # "idle" /\ StreamOf(v)' = StreamOf(v) /\ worker'[v].run = worker[v].run
          /\ worker[v].slot \in Slots /\ StreamOf(v) # NoStream
      BY <1>5, <1>7 DEF Syncs
    <2>2. PICK q \in RunIds, s \in Streams : q = worker[v].run /\ s = StreamOf(v)
      <3>1. worker'[v].run \in RunIds
        BY <1>2, <1>7 DEF SyncInv, WorkersOK, Has, Started
      <3>2. jobs[worker[v].slot] \in Job
        BY <2>1 DEF Calm, Chain, SyncInv, TypeOK
      <3>. QED BY <2>1, <3>1, <3>2 DEF Job, StreamOf
    <2>3. CASE v = w
      BY <1>1, <1>7, <2>1, <2>2, <2>3 DEF Tends, Closed
    <2>4. CASE v # w
      <3>1. worker'[v] = worker[v] /\ ~Syncs(v)
        BY <1>3, <2>1, <2>4 DEF Syncs
      <3>2. s \in worker[v].todo \cup worker[v].failing \/ Closed(q, s)
        BY <1>7, <2>2, <3>1 DEF Calm, OwnDenied
      <3>3. Closed(q, s) => Closed(q, s)'
        BY <1>1 DEF Tends
      <3>. QED BY <2>1, <2>2, <3>1, <3>2, <3>3 DEF Closed
    <2>. QED BY <2>3, <2>4
  <1>8. OwnDenied'
    BY <1>7 DEF OwnDenied, Closed
  <1>9. ASSUME NEW r \in RunIds, NEW s \in Streams, runs'[r].status = "running", ~Closed(r, s)'
        PROVE  Minded(r, s)'
    <2>1. runs[r].status = "running" /\ ~Closed(r, s)
      BY <1>1, <1>9 DEF Tends
    <2>2. Minded(r, s)
      BY <2>1 DEF Calm, NoneLost
    <2>3. ASSUME NEW j \in Slots, Carries(j), Of(j, r, s) PROVE Carries(j)' /\ Of(j, r, s)'
      <3>1. Of(j, r, s)' /\ jobs[j].stream # NoStream /\ jobs'[j] = jobs[j]
        BY <1>1, <2>3 DEF Of, Carries
      <3>2. CASE jobs[j].status = "pending"
        BY <3>1, <3>2 DEF Carries
      <3>3. ASSUME NEW v \in Workers, worker[v].pc # "idle", worker[v].slot = j, Bears(v)
            PROVE  Carries(j)'
        <4>1. worker'[v].slot = j /\ worker'[v].run = worker[v].run
          BY <1>5, <3>3
        <4>2. Bears(v)' /\ worker'[v].pc # "idle"
          <5>1. CASE v # w
            BY <1>3, <1>4, <1>5, <3>3, <5>1 DEF Bears, Denies, Retries
          <5>2. CASE v = w
            <6>1. JobFits(w) /\ StreamOf(w) = s /\ s # NoStream
              BY <2>3, <3>1, <3>3, <5>2 DEF Calm, Chain, ChainInv, StreamOf, Of
            <6>2. worker[w].run = r
              BY <2>3, <3>3, <5>2, <6>1 DEF JobFits, Of
            <6>. QED BY <1>1, <1>9, <3>3, <5>2, <6>1, <6>2 DEF Tends, Goes
          <5>. QED BY <5>1, <5>2
        <4>. QED BY <3>1, <4>1, <4>2 DEF Carries
      <3>. QED BY <2>3, <3>1, <3>2, <3>3 DEF Carries
    <2>4. ASSUME NEW v \in Workers, Syncs(v), worker[v].run = r, Watches(v, s)
          PROVE  Syncs(v)' /\ worker'[v].run = r /\ Watches(v, s)'
      <3>1. Syncs(v)' /\ worker'[v].run = r
        BY <1>1, <1>3, <1>5, <2>4 DEF Syncs, Goes
      <3>2. Watches(v, s)'
        <4>1. CASE v # w
          BY <1>3, <2>4, <4>1 DEF Watches, Denies
        <4>2. CASE v = w
          BY <1>1, <1>9, <2>4, <4>2 DEF Tends
        <4>. QED BY <4>1, <4>2
      <3>. QED BY <3>1, <3>2
    <2>. QED BY <1>2, <2>2, <2>3, <2>4 DEF Minded
  <1>10. ASSUME NEW r \in RunIds, runs'[r].status = "running", Over(r)'
         PROVE  Finishing(r)'
    <2>1. CASE worker[w].run = r /\ worker'[w].pc \in {"finish", "deny", "close"}
      BY <1>3, <2>1 DEF Finishing
    <2>2. CASE ~(worker[w].run = r /\ worker'[w].pc \in {"finish", "deny", "close"})
      <3>1. Over(r) /\ runs[r].status = "running"
        BY <1>1, <1>2, <1>10, <2>2 DEF Tends, Over
      <3>2. PICK v \in Workers : worker[v].run = r /\ worker[v].pc \in {"finish", "deny", "close"}
        BY <3>1 DEF Calm, NoneLost, Finishing
      <3>3. CASE v = w
        <4>1. Streams # {}
          BY SyncAssumption DEF Calm, Chain, SyncInv, Streams
        <4>. QED BY <1>1, <1>10, <2>2, <3>2, <3>3, <4>1 DEF Tends
      <3>4. CASE v # w
        BY <1>3, <3>2, <3>4 DEF Finishing
      <3>. QED BY <3>3, <3>4
    <2>. QED BY <2>1, <2>2
  <1>11. NoneLost'
    BY <1>2, <1>9, <1>10 DEF NoneLost
  <1>. QED BY <1>6, <1>8, <1>11

LEMMA LoseNone ==
  ASSUME Calm, SyncInv', UNCHANGED <<cli, source, setting>>, \A r \in RunIds : RunStep(r),
         \A v \in Workers : worker'[v].pc = "deny" => jobs'[worker[v].slot] = jobs[worker[v].slot],
         \A v \in Workers : worker'[v].pc \in {"save", "deny"} \/ worker[v].pc \in {"finish", "deny", "close"}
           => worker'[v] = worker[v],
         \A r \in RunIds, s \in Streams : Closed(r, s) /\ ~Closed(r, s)' => Untold(r, s) /\ Minded(r, s)',
         \A r \in RunIds, s \in Streams : Minded(r, s) => Minded(r, s)',
         \A r \in RunIds : runs'[r].status = "running" =>
           \/ runs[r].status = "running" /\ (Over(r)' => Over(r))
           \/ ~Over(r)' /\ \A s \in Streams : Minded(r, s)'
  PROVE  Untouched' /\ OwnDenied' /\ NoneLost'
PROOF
  <1>1. Slots' = Slots /\ Streams' = Streams /\ RunIds' = RunIds
    BY SameSetting
  <1>2. Untouched'
    <2>1. \A r \in RunIds : runs'[r].status # "deleted"
      BY DEF RunStep, Outcomes, Calm, Untouched
    <2>. QED BY <1>1, <2>1 DEF Untouched, Calm
  <1>3. ASSUME NEW v \in Workers, worker'[v].pc = "deny", ~Syncs(v)'
        PROVE  StreamOf(v)' \in worker'[v].todo \cup worker'[v].failing
               \/ runs'[worker'[v].run].streams[StreamOf(v)'] \in {"done", "failed"}
    <2>1. worker'[v] = worker[v] /\ worker[v].pc = "deny" /\ worker[v].slot \in Slots
          /\ worker[v].run \in RunIds
      BY <1>3, Busy DEF Calm, Chain
    <2>2. jobs'[worker[v].slot] = jobs[worker[v].slot]
      BY <1>3
    <2>3. StreamOf(v)' = StreamOf(v) /\ ~Syncs(v) /\ StreamOf(v) # NoStream
      BY <1>3, <2>1, <2>2 DEF StreamOf, Syncs
    <2>4. PICK q \in RunIds, s \in Streams : q = worker[v].run /\ s = StreamOf(v)
      <3>1. jobs[worker[v].slot] \in Job
        BY <2>1 DEF Calm, Chain, SyncInv, TypeOK
      <3>. QED BY <2>1, <2>3, <3>1 DEF Job, StreamOf
    <2>5. s \in worker[v].todo \cup worker[v].failing \/ Closed(q, s)
      BY <2>1, <2>3, <2>4 DEF Calm, OwnDenied
    <2>6. ~Untold(q, s)
      <3>1. Bears(v) /\ JobFits(v)
        BY <2>1 DEF Bears, Denies, Calm, Chain, ChainInv
      <3>2. Carries(worker[v].slot)
        BY <2>1, <2>3, <3>1, Holds DEF Calm, Chain
      <3>. QED BY <2>1, <2>3, <2>4, <3>1, <3>2 DEF Untold, Of, JobFits, StreamOf
    <2>7. Closed(q, s) => Closed(q, s)'
      BY <2>6
    <2>. QED BY <2>1, <2>3, <2>4, <2>5, <2>7 DEF Closed
  <1>4. OwnDenied'
    BY <1>3 DEF OwnDenied, Closed
  <1>5. ASSUME NEW r \in RunIds, NEW s \in Streams, runs'[r].status = "running", ~Closed(r, s)'
        PROVE  Minded(r, s)'
    BY <1>5 DEF Calm, NoneLost
  <1>6. ASSUME NEW r \in RunIds, runs'[r].status = "running", Over(r)'
        PROVE  Finishing(r)'
    <2>1. PICK v \in Workers : worker[v].run = r /\ worker[v].pc \in {"finish", "deny", "close"}
      BY <1>6 DEF Calm, NoneLost, Finishing
    <2>. QED BY <2>1 DEF Finishing
  <1>7. NoneLost'
    BY <1>1, <1>5, <1>6 DEF NoneLost
  <1>. QED BY <1>2, <1>4, <1>7

(* A page that is not touched is still carried.                            *)
LEMMA CarriesOn ==
  ASSUME Calm, NEW j \in Slots, Carries(j), jobs'[j] = jobs[j],
         \A v \in Workers : worker[v].pc # "idle" /\ worker[v].slot = j => worker'[v] = worker[v]
  PROVE  Carries(j)'
PROOF
  <1>1. ASSUME NEW v \in Workers, worker[v].pc # "idle", worker[v].slot = j, Bears(v)
        PROVE  worker'[v].pc # "idle" /\ worker'[v].slot = j /\ Bears(v)'
    BY <1>1 DEF Bears, Denies, Retries, GivesUp
  <1>. QED BY <1>1 DEF Carries

(* A sync that goes on with the same stream still watches it.              *)
LEMMA WatchesOn ==
  ASSUME Calm, NEW v \in Workers, Syncs(v), jobs'[worker[v].slot].stream = jobs[worker[v].slot].stream,
         worker'[v] = worker[v], NEW s, Watches(v, s)
  PROVE  Syncs(v)' /\ worker'[v].run = worker[v].run /\ Watches(v, s)'
  BY DEF Syncs, StreamOf, Watches, Denies

LEMMA AskLosesNone ==
  ASSUME Calm, SyncInv', UNCHANGED <<worker, cli, source, setting, runs>>,
         NEW k \in Slots \cup {0}, Fills(k)
  PROVE  Untouched' /\ OwnDenied' /\ NoneLost'
PROOF
  <1>1. Slots' = Slots /\ Streams' = Streams /\ (k \in Slots => k # 0)
    BY SameSetting DEF Slots
  <1>6. ASSUME NEW v \in Workers, worker[v].pc # "idle"
        PROVE  jobs'[worker[v].slot] = jobs[worker[v].slot]
    BY <1>1, <1>6, Busy DEF Fills, Has, Calm, Chain
  <1>2. ASSUME NEW r \in RunIds, NEW s \in Streams, Minded(r, s) PROVE Minded(r, s)'
    <2>1. ASSUME NEW j \in Slots, Carries(j), Of(j, r, s) PROVE Carries(j)' /\ Of(j, r, s)'
      <3>1. jobs'[j] = jobs[j]
        BY <1>1, <2>1, Carried DEF Fills, Live, Calm, Chain
      <3>. QED BY <2>1, <3>1, CarriesOn DEF Of
    <2>2. ASSUME NEW v \in Workers, Syncs(v), worker[v].run = r, Watches(v, s)
          PROVE  Syncs(v)' /\ worker'[v].run = r /\ Watches(v, s)'
      <3>1. jobs'[worker[v].slot] = jobs[worker[v].slot]
        BY <1>6, <2>2 DEF Syncs
      <3>. QED BY <2>2, <3>1, WatchesOn
    <2>. QED BY <1>1, <1>2, <2>1, <2>2 DEF Minded
  <1>3. \A r \in RunIds : RunStep(r)
    BY RunsSame
  <1>4. \A r \in RunIds : Over(r)' => Over(r)
    BY <1>1 DEF Over
  <1>5. \A r \in RunIds, s \in Streams : Closed(r, s) => Closed(r, s)'
    BY DEF Closed
  <1>. QED BY <1>2, <1>3, <1>4, <1>5, <1>6, LoseNone

LEMMA OwnJobLosesNone ==
  ASSUME Calm, SyncInv', NEW w \in Workers, NEW j \in Slots, NEW x,
         jobs' = [jobs EXCEPT ![j] = x], UNCHANGED <<cli, source, setting, runs>>,
         \A v \in Workers \ {w} : worker'[v] = worker[v],
         \A v \in Workers : v # w /\ worker[v].pc # "idle" => worker[v].slot # j,
         worker[w].pc # "idle" => worker[w].slot = j,
         worker'[w].pc \in {"idle", "sync", "page"},
         worker[w].pc \in PagePcs \cup {"idle", "ended"},
         Carries(j) => /\ x.run = jobs[j].run /\ x.stream = jobs[j].stream
                       /\ x.status = "pending" \/ (worker'[w].pc = "page" /\ worker'[w].slot = j)
  PROVE  Untouched' /\ OwnDenied' /\ NoneLost'
PROOF
  <1>1. Slots' = Slots /\ Streams' = Streams /\ 0 \in Slots \cup {0}
    BY SameSetting
  <1>2. jobs'[j] = x /\ \A i \in Slots \ {j} : jobs'[i] = jobs[i]
    BY DEF Calm, Chain, SyncInv, TypeOK
  <1>3. ASSUME NEW v \in Workers, v # w, worker[v].pc # "idle"
        PROVE  jobs'[worker[v].slot] = jobs[worker[v].slot]
    BY <1>2, <1>3, Busy DEF Calm, Chain
  <1>4. ASSUME NEW r \in RunIds, NEW s \in Streams, Minded(r, s) PROVE Minded(r, s)'
    <2>1. ASSUME NEW i \in Slots, Carries(i), Of(i, r, s) PROVE Carries(i)' /\ Of(i, r, s)'
      <3>1. CASE i = j
        <4>1. Of(j, r, s)' /\ jobs'[j].stream # NoStream
          BY <1>2, <2>1, <3>1 DEF Of, Carries
        <4>2. CASE x.status = "pending"
          BY <1>2, <3>1, <4>1, <4>2 DEF Carries
        <4>3. CASE worker'[w].pc = "page" /\ worker'[w].slot = j
          BY <3>1, <4>1, <4>3 DEF Carries, Bears, PagePcs
        <4>. QED BY <2>1, <3>1, <4>2, <4>3
      <3>2. CASE i # j
        BY <1>2, <2>1, <3>2, CarriesOn DEF Of
      <3>. QED BY <3>1, <3>2
    <2>2. ASSUME NEW v \in Workers, Syncs(v), worker[v].run = r, Watches(v, s)
          PROVE  Syncs(v)' /\ worker'[v].run = r /\ Watches(v, s)'
      <3>1. v # w
        BY <2>2 DEF Watches, Denies, PagePcs
      <3>. QED BY <1>3, <2>2, <3>1, WatchesOn DEF Syncs
    <2>. QED BY <1>1, <1>4, <2>1, <2>2 DEF Minded
  <1>5. \A r \in RunIds : RunStep(r)
    BY RunsSame
  <1>6. \A r \in RunIds : Over(r)' => Over(r)
    BY <1>1 DEF Over
  <1>7. \A r \in RunIds, s \in Streams : Closed(r, s) => Closed(r, s)'
    BY DEF Closed
  <1>8. \A v \in Workers : worker'[v].pc \in {"save", "deny"} \/ worker[v].pc \in {"finish", "deny", "close"}
          => worker'[v] = worker[v]
    BY DEF PagePcs
  <1>9. \A v \in Workers : worker'[v].pc = "deny" => jobs'[worker[v].slot] = jobs[worker[v].slot]
    BY <1>3, <1>8
  <1>. QED BY <1>1, <1>4, <1>5, <1>6, <1>7, <1>8, <1>9, LoseNone

(* Who is not at work on a stream leaves it in the hands it is in.         *)
LEMMA QueueKeeps ==
  ASSUME Calm, setting' = setting, NEW w \in Workers, NEW k \in Slots \cup {0}, Fills(k),
         \A v \in Workers \ {w} : worker'[v] = worker[v]
  PROVE  /\ \A v \in Workers : worker[v].pc # "idle" =>
              jobs'[worker[v].slot] = jobs[worker[v].slot]
         /\ \A r \in RunIds, s \in Streams :
              /\ Minded(r, s)
              /\ \A j \in Slots : Carries(j) /\ Of(j, r, s) => worker[w].pc = "idle" \/ j # worker[w].slot
              /\ worker[w].run = r => ~Watches(w, s)
              => Minded(r, s)'
PROOF
  <1>1. Slots' = Slots /\ (k \in Slots => k # 0)
    BY SameSetting DEF Slots
  <1>2. ASSUME NEW j \in Slots, jobs[j].status # "free" PROVE jobs'[j] = jobs[j]
    BY <1>1, <1>2 DEF Fills
  <1>3. ASSUME NEW v \in Workers, worker[v].pc # "idle"
        PROVE  jobs'[worker[v].slot] = jobs[worker[v].slot]
    BY <1>2, <1>3, Busy DEF Has, Calm, Chain
  <1>4. ASSUME NEW r \in RunIds, NEW s \in Streams, Minded(r, s),
               \A j \in Slots : Carries(j) /\ Of(j, r, s) =>
                 worker[w].pc = "idle" \/ j # worker[w].slot,
               worker[w].run = r => ~Watches(w, s)
        PROVE  Minded(r, s)'
    <2>1. ASSUME NEW j \in Slots, Carries(j), Of(j, r, s) PROVE Carries(j)' /\ Of(j, r, s)'
      <3>1. jobs'[j] = jobs[j]
        BY <1>2, <2>1, Carried DEF Live, Calm, Chain
      <3>. QED BY <1>4, <2>1, <3>1, CarriesOn DEF Of
    <2>2. ASSUME NEW v \in Workers, Syncs(v), worker[v].run = r, Watches(v, s)
          PROVE  Syncs(v)' /\ worker'[v].run = r /\ Watches(v, s)'
      <3>1. v # w
        BY <1>4, <2>2
      <3>. QED BY <1>3, <2>2, <3>1, WatchesOn DEF Syncs
    <2>. QED BY <1>1, <1>4, <2>1, <2>2 DEF Minded
  <1>. QED BY <1>3, <1>4

LEMMA FanOutLosesNone ==
  ASSUME Calm, SyncInv', NEW w \in Workers, NEW s \in Streams, FanOut(w, s),
         \A r \in RunIds : RunStep(r)
  PROVE  Untouched' /\ OwnDenied' /\ NoneLost'
PROOF
  <1>1. /\ worker[w] \in Local /\ JobFits(w) /\ Fresh(w) /\ worker[w].pc = "fanout"
        /\ s \in worker[w].todo /\ worker[w].run \in RunIds /\ UNCHANGED <<cli, source, setting>>
    BY Busy DEF Calm, Chain, ChainInv, SyncInv, TypeOK, FanOut
  <1>2. PICK q \in RunIds : q = worker[w].run
    BY <1>1
  <1>3. Syncs(w) /\ Untold(q, s)
    BY <1>1, <1>2 DEF JobFits, Syncs, Fresh
  <1> DEFINE left == worker[w].todo \ {s}
             f == IF left # {} THEN [worker[w] EXCEPT !.todo = left]
                  ELSE [worker[w] EXCEPT !.pc = "state", !.todo = {}, !.to = "active"]
  <1>4. /\ f.slot = worker[w].slot /\ f.run = q
        /\ \/ f.pc = "fanout" /\ f.todo = left
           \/ f.pc = "state" /\ left = {}
    BY <1>1, <1>2 DEF Local
  <1>5. worker'[w] = f /\ \A v \in Workers \ {w} : worker'[v] = worker[v]
    BY Stepped DEF FanOut, Calm
  <1>. HIDE DEF f
  <1>6. NoteAll(q, {s}, "running") /\ Enqueue(Queued(q, s, 0))
    BY <1>2 DEF FanOut
  <1>7. PICK k \in Slots : /\ Fills(k) /\ jobs'[k].status = "pending"
                           /\ jobs'[k].run = q /\ jobs'[k].stream = s
    BY <1>6, QueuedJob DEF Calm
  <1>8. /\ Slots' = Slots /\ Streams' = Streams
        /\ s # NoStream
    BY <1>1, SameSetting, SettingType DEF Calm, Chain, SyncInv, Streams
  <1>9. Minded(q, s)'
    BY <1>7, <1>8 DEF Minded, Carries, Of
  <1>10. /\ \A r \in RunIds : runs'[r].status = runs[r].status
         /\ \A r \in RunIds, t \in Streams :
              runs'[r].streams[t] = IF r = q /\ t \in {s} /\ runs[q].status # "deleted"
                                    THEN "running" ELSE runs[r].streams[t]
    BY <1>6, NotedStreams DEF Calm
  <1>11. /\ \A v \in Workers : worker[v].pc # "idle" =>
              jobs'[worker[v].slot] = jobs[worker[v].slot]
         /\ \A r \in RunIds, t \in Streams :
              /\ Minded(r, t)
              /\ \A j \in Slots : Carries(j) /\ Of(j, r, t) => worker[w].pc = "idle" \/ j # worker[w].slot
              /\ worker[w].run = r => ~Watches(w, t)
              => Minded(r, t)'
    BY <1>1, <1>5, <1>7, QueueKeeps
  <1>12. ASSUME NEW r \in RunIds, NEW t \in Streams, Minded(r, t) PROVE Minded(r, t)'
    <2>1. CASE r = q /\ t = s
      BY <1>9, <2>1
    <2>2. CASE r = q /\ Watches(w, t) /\ t # s
      <3>1. t \in left
        BY <1>1, <2>2 DEF Watches, Denies
      <3>2. worker'[w].pc = "fanout" /\ t \in worker'[w].todo /\ worker'[w].slot = worker[w].slot
        BY <1>4, <1>5, <3>1
      <3>3. StreamOf(w)' = NoStream
        BY <1>1, <1>3, <1>11, <3>2 DEF StreamOf, Syncs
      <3>. QED BY <1>4, <1>5, <2>2, <3>2, <3>3 DEF Minded, Syncs, Watches
    <2>3. CASE r # q \/ ~Watches(w, t)
      <3>1. \A j \in Slots : Carries(j) => j # worker[w].slot
        BY <1>3 DEF Syncs, Carries, StreamOf
      <3>. QED BY <1>2, <1>11, <1>12, <2>3, <3>1
    <2>. QED BY <2>1, <2>2, <2>3
  <1>13. \A r \in RunIds : Over(r)' => Over(r)
    BY <1>8, <1>10 DEF Over
  <1>14. \A r \in RunIds, t \in Streams : Closed(r, t) /\ ~Closed(r, t)' => Untold(r, t) /\ Minded(r, t)'
    BY <1>3, <1>9, <1>10 DEF Closed
  <1>15. \A v \in Workers : worker'[v].pc \in {"save", "deny"} \/ worker[v].pc \in {"finish", "deny", "close"}
           => worker'[v] = worker[v]
    BY <1>1, <1>4, <1>5
  <1>16. \A v \in Workers : worker'[v].pc = "deny" => jobs'[worker[v].slot] = jobs[worker[v].slot]
    BY <1>11, <1>15
  <1>. QED BY <1>1, <1>10, <1>12, <1>13, <1>14, <1>15, <1>16, LoseNone

LEMMA NextPageLosesNone ==
  ASSUME Calm, SyncInv', NEW w \in Workers, NextPage(w), \A r \in RunIds : RunStep(r)
  PROVE  Untouched' /\ OwnDenied' /\ NoneLost'
PROOF
  <1>1. /\ worker[w].pc = "next" /\ worker[w].pc \in PagePcs
        /\ UNCHANGED <<cli, source, setting, runs>>
    BY DEF NextPage, PagePcs
  <1>2. /\ worker[w] \in Local /\ worker[w].run \in RunIds /\ StreamOf(w) \in Streams
        /\ JobFits(w)
    BY <1>1, InPage DEF Calm, Chain, ChainInv
  <1>3. PICK q \in RunIds, s \in Streams : q = worker[w].run /\ s = StreamOf(w)
    BY <1>2
  <1>4. worker'[w] = [worker[w] EXCEPT !.pc = "ended", !.next = {}]
        /\ \A v \in Workers \ {w} : worker'[v] = worker[v]
    BY Stepped DEF NextPage, Calm
  <1>5. worker'[w].pc = "ended"
    BY <1>2, <1>4 DEF Local
  <1>6. PICK c : Enqueue(Queued(q, s, c))
    BY <1>3 DEF NextPage
  <1>7. PICK k \in Slots : /\ Fills(k) /\ jobs'[k].status = "pending"
                           /\ jobs'[k].run = q /\ jobs'[k].stream = s
    BY <1>6, QueuedJob DEF Calm
  <1>8. Slots' = Slots /\ Streams' = Streams /\ s # NoStream
    BY <1>1, SameSetting, SettingType DEF Calm, Chain, SyncInv, Streams
  <1>9. Minded(q, s)'
    BY <1>7, <1>8 DEF Minded, Carries, Of
  <1>10. /\ \A v \in Workers : worker[v].pc # "idle" =>
              jobs'[worker[v].slot] = jobs[worker[v].slot]
         /\ \A r \in RunIds, t \in Streams :
              /\ Minded(r, t)
              /\ \A j \in Slots : Carries(j) /\ Of(j, r, t) => worker[w].pc = "idle" \/ j # worker[w].slot
              /\ worker[w].run = r => ~Watches(w, t)
              => Minded(r, t)'
    BY <1>1, <1>4, <1>7, QueueKeeps
  <1>11. ASSUME NEW r \in RunIds, NEW t \in Streams, Minded(r, t) PROVE Minded(r, t)'
    <2>1. CASE r = q /\ t = s
      BY <1>9, <2>1
    <2>2. CASE ~(r = q /\ t = s)
      <3>1. ASSUME NEW j \in Slots, Of(j, r, t) PROVE j # worker[w].slot
        BY <1>1, <1>2, <1>3, <1>8, <2>2, <3>1 DEF Of, JobFits, StreamOf
      <3>2. ~Watches(w, t)
        BY <1>1 DEF Watches, Denies
      <3>. QED BY <1>10, <1>11, <3>1, <3>2
    <2>. QED BY <2>1, <2>2
  <1>12. \A r \in RunIds : Over(r)' => Over(r)
    BY <1>1, <1>8 DEF Over
  <1>13. \A r \in RunIds, t \in Streams : Closed(r, t) => Closed(r, t)'
    BY <1>1 DEF Closed
  <1>14. \A v \in Workers : worker'[v].pc \in {"save", "deny"} \/ worker[v].pc \in {"finish", "deny", "close"}
           => worker'[v] = worker[v]
    BY <1>1, <1>4, <1>5
  <1>15. \A v \in Workers : worker'[v].pc = "deny" => jobs'[worker[v].slot] = jobs[worker[v].slot]
    BY <1>10, <1>14
  <1>. QED BY <1>1, <1>11, <1>12, <1>13, <1>14, <1>15, LoseNone

LEMMA StartLosesNone ==
  ASSUME Calm, SyncInv', NEW w \in Workers, StartRun(w), source.present /\ source.enabled,
         \A r \in RunIds : RunStep(r)
  PROVE  Untouched' /\ OwnDenied' /\ NoneLost'
PROOF
  <1>1. PICK q \in RunIds : /\ runs[q].status = "none"
                            /\ runs' = [runs EXCEPT ![q].status = "running"]
                            /\ Step(w, [worker[w] EXCEPT !.pc = "tools", !.run = q])
    BY DEF StartRun
  <1>2. /\ worker[w] \in Local /\ JobFits(w) /\ worker[w].pc = "sync" /\ jobs' = jobs
        /\ UNCHANGED <<cli, source, setting>> /\ runs \in [RunIds -> Run] /\ runs[q] \in Run
    BY DEF Calm, Chain, ChainInv, SyncInv, TypeOK, StartRun
  <1>3. /\ Slots' = Slots /\ Streams' = Streams /\ RunIds' = RunIds /\ Streams # {}
        /\ 0 \in Slots \cup {0} /\ Fills(0)
    BY <1>2, SameSetting, SyncAssumption DEF Calm, Chain, SyncInv, Streams, Fills
  <1>4. worker'[w] = [worker[w] EXCEPT !.pc = "tools", !.run = q]
        /\ \A v \in Workers \ {w} : worker'[v] = worker[v]
    BY <1>1, Stepped DEF Calm
  <1>5. worker'[w].pc = "tools" /\ worker'[w].run = q /\ worker'[w].slot = worker[w].slot
    BY <1>2, <1>4 DEF Local
  <1>6. \A r \in RunIds : /\ runs'[r].streams = runs[r].streams
                          /\ r # q => runs'[r] = runs[r]
    BY <1>1, <1>2 DEF Run
  <1>7. Syncs(w)'
    BY <1>2, <1>5 DEF Syncs, StreamOf, JobFits
  <1>8. \A s \in Streams : Minded(q, s)'
    BY <1>5, <1>7 DEF Minded, Watches
  <1>9. ~Over(q)'
    BY <1>1, <1>3, <1>6 DEF Over, Calm, Chain, ChainInv, RunsFit
  <1>10. ASSUME NEW r \in RunIds, NEW t \in Streams, Minded(r, t) PROVE Minded(r, t)'
    <2>1. \A j \in Slots : Carries(j) => j # worker[w].slot
      BY <1>2 DEF Carries, JobFits, StreamOf
    <2>2. ~Watches(w, t)
      BY <1>2 DEF Watches, Denies
    <2>. QED BY <1>2, <1>3, <1>4, <1>10, <2>1, <2>2, QueueKeeps
  <1>11. \A r \in RunIds : r # q => (Over(r)' => Over(r))
    BY <1>3, <1>6 DEF Over
  <1>12. \A r \in RunIds, t \in Streams : Closed(r, t) => Closed(r, t)'
    BY <1>6 DEF Closed
  <1>13. \A v \in Workers : worker'[v].pc \in {"save", "deny"} \/ worker[v].pc \in {"finish", "deny", "close"}
           => worker'[v] = worker[v]
    BY <1>2, <1>4, <1>5
  <1>. QED BY <1>2, <1>6, <1>8, <1>9, <1>10, <1>11, <1>12, <1>13, LoseNone

LEMMA JobLosesNone ==
  ASSUME Calm, SyncInv', NEW w \in Workers,
         (\E j \in Slots : Claim(w, j)) \/ Settle(w) \/ Postpone(w)
  PROVE  Untouched' /\ OwnDenied' /\ NoneLost'
PROOF
  <1>1. ASSUME NEW j \in Slots, Claim(w, j)
        PROVE  Untouched' /\ OwnDenied' /\ NoneLost'
    <2> DEFINE x == [jobs[j] EXCEPT !.status = "running", !.attempts = @ + 1]
               pc == IF jobs[j].stream = NoStream THEN "sync" ELSE "page"
    <2>1. /\ jobs[j] \in Job /\ jobs[j].status = "pending" /\ worker[w].pc = "idle"
          /\ UNCHANGED <<cli, source, setting, runs>> /\ jobs' = [jobs EXCEPT ![j] = x]
      BY <1>1 DEF Claim, Calm, Chain, SyncInv, TypeOK
    <2>2. x.stream = jobs[j].stream /\ x.run = jobs[j].run
      BY <2>1 DEF Job
    <2>. HIDE DEF x
    <2>3. /\ worker'[w] = [Idle EXCEPT !.pc = pc, !.slot = j, !.run = jobs[j].run]
          /\ \A v \in Workers \ {w} : worker'[v] = worker[v]
      BY <1>1, Stepped DEF Claim, Calm
    <2>4. worker'[w].pc = pc /\ worker'[w].slot = j
      BY <2>3 DEF Idle
    <2>5. \A v \in Workers : v # w /\ worker[v].pc # "idle" => worker[v].slot # j
      BY <2>1, Busy DEF Has, Calm, Chain
    <2>6. Carries(j) => jobs[j].stream # NoStream
      BY DEF Carries
    <2>7. pc \in {"sync", "page"} /\ (jobs[j].stream # NoStream => pc = "page")
      OBVIOUS
    <2>. HIDE DEF pc
    <2>8. /\ worker'[w].pc \in {"idle", "sync", "page"}
          /\ worker[w].pc \in PagePcs \cup {"idle", "ended"}
          /\ worker[w].pc # "idle" => worker[w].slot = j
      BY <2>1, <2>4, <2>7
    <2>9. Carries(j) => /\ x.run = jobs[j].run /\ x.stream = jobs[j].stream
                        /\ x.status = "pending" \/ (worker'[w].pc = "page" /\ worker'[w].slot = j)
      BY <2>2, <2>4, <2>6, <2>7
    <2>10. jobs' = [jobs EXCEPT ![j] = x] /\ UNCHANGED <<cli, source, setting, runs>>
      BY <2>1
    <2>11. \A v \in Workers \ {w} : worker'[v] = worker[v]
      BY <2>3
    <2>. QED BY <2>5, <2>8, <2>9, <2>10, <2>11, OwnJobLosesNone
  <1>2. CASE Settle(w) \/ Postpone(w)
    <2>1. PICK j \in Slots : j = worker[w].slot
      BY <1>2, Busy DEF Settle, Postpone, Calling, Calm, Chain
    <2>2. /\ worker[w].pc \in PagePcs \cup {"idle", "ended"} /\ worker[w].pc # "idle"
          /\ Step(w, Idle) /\ UNCHANGED <<cli, source, setting, runs>>
      BY <1>2 DEF Settle, Postpone, Calling, PagePcs
    <2>3. /\ jobs[j] \in Job /\ jobs[j].status = "running"
          /\ \A v \in Workers : v # w /\ worker[v].pc # "idle" => worker[v].slot # j
      BY <2>1, <2>2, Busy DEF Has, Calm, Chain
    <2>4. worker'[w].pc = "idle" /\ \A v \in Workers \ {w} : worker'[v] = worker[v]
      BY <2>2, Stepped DEF Idle, Calm
    <2>5. Carries(j) => Bears(w)
      BY <2>3 DEF Carries
    <2>6. PICK x : /\ jobs' = [jobs EXCEPT ![j] = x]
                   /\ Carries(j) => /\ x.run = jobs[j].run /\ x.stream = jobs[j].stream
                                    /\ x.status = "pending"
      <3>1. CASE Settle(w)
        <4> DEFINE y == IF worker[w].ok THEN FreeSlot
                        ELSE IF jobs[j].attempts >= MaxAttempts
                             THEN [jobs[j] EXCEPT !.status = "dead"]
                        ELSE [jobs[j] EXCEPT !.status = "pending"]
        <4>1. jobs' = [jobs EXCEPT ![j] = y] /\ worker[w].pc = "ended"
          BY <2>1, <3>1 DEF Settle
        <4>2. ASSUME Carries(j) PROVE y = [jobs[j] EXCEPT !.status = "pending"]
          <5>1. Retries(w)
            BY <2>5, <4>1, <4>2 DEF Bears, PagePcs, Denies
          <5>. QED BY <2>1, <5>1 DEF Retries, GivesUp
        <4>. HIDE DEF y
        <4>3. Carries(j) => /\ y.run = jobs[j].run /\ y.stream = jobs[j].stream
                            /\ y.status = "pending"
          BY <2>3, <4>2 DEF Job
        <4>. QED BY <4>1, <4>3
      <3>2. CASE Postpone(w)
        <4> DEFINE y == Postponed(jobs[j])
        <4>1. jobs' = [jobs EXCEPT ![j] = y]
          BY <2>1, <3>2 DEF Postpone
        <4>2. y.run = jobs[j].run /\ y.stream = jobs[j].stream /\ y.status = "pending"
          BY <2>3 DEF Postponed, Job
        <4>. HIDE DEF y
        <4>. QED BY <4>1, <4>2
      <3>. QED BY <1>2, <3>1, <3>2
    <2>. QED BY <2>1, <2>2, <2>3, <2>4, <2>6, OwnJobLosesNone
  <1>. QED BY <1>1, <1>2

LEMMA OverStep ==
  ASSUME Calm, [Next]_vars, Alone'
  PROVE  Untouched' /\ OwnDenied' /\ NoneLost'
PROOF
  <1>1. SyncInv' /\ bounds \in Limits
    BY Steps DEF Calm, Chain, SyncInv, TypeOK
  <1>2. ~Crash
    BY <1>1 DEF Crash, Alone, Limits, Calm
  <1>3. \A r \in RunIds : RunStep(r)
    BY <1>2, ChainStep DEF Calm
  <1>4. CASE Elsewhere
    <2>1. /\ ~(Pause \/ Enable \/ RemoveDocuments \/ RemoveRows)
          /\ \A command \in setting.commands : ~CliReads(command)
      BY <1>1 DEF Pause, Enable, RemoveDocuments, RemoveRows, CliReads, Alone, Limits, Calm, Untouched
    <2>2. UNCHANGED <<worker, cli, source, setting, runs>>
      BY <1>4, <2>1 DEF Elsewhere, RequestSync, Rest, vars, Change
    <2>3. CASE jobs' = jobs
      <3>1. Fills(0) /\ 0 \in Slots \cup {0}
        BY <2>3 DEF Fills
      <3>. QED BY <1>1, <2>2, <3>1, AskLosesNone
    <2>4. CASE Enqueue(Queued(0, NoStream, 0))
      <3>1. PICK k \in Slots : Fills(k)
        BY <2>4, QueuedJob DEF Calm
      <3>. QED BY <1>1, <2>2, <3>1, AskLosesNone
    <2>. QED BY <1>4, <2>1, <2>3, <2>4 DEF Elsewhere, RequestSync, Rest, vars, Change
  <1>. QED BY <1>1, <1>2, <1>3, <1>4, Branches, GoingsLoseNone, FanOutLosesNone,
              NextPageLosesNone, StartLosesNone, JobLosesNone

LEMMA OverNext == SyncInv /\ ChainInv /\ OverInv /\ [Next]_vars => OverInv'
PROOF
  <1> SUFFICES ASSUME SyncInv, ChainInv, OverInv, [Next]_vars, Alone'
               PROVE  Untouched' /\ OwnDenied' /\ NoneLost'
    BY DEF OverInv
  <1>1. Alone
    <2>1. bounds \in Limits
      BY DEF SyncInv, TypeOK
    <2>2. ASSUME NEW w \in Workers, Handle(w) PROVE bounds' = bounds
      BY <2>2 DEF Handle, Claim, Settle, StartRun, ToolsFit, ToolsFail, FanOut, GetSource,
         SaveSource, ReadRun, FinishRun, DenyNote, DenyCheck, BeginPage, Fetch, IndexPage, MarkSeen,
         NextPage, Reconcile, DeleteDoomed, StreamDone, Postpone, Unauthorized, Unavailable,
         Refused
    <2>3. ASSUME \/ \E command \in setting.commands : CliReads(command)
                 \/ \E s \in Streams, i \in Items : Change(s, i)
                 \/ Crash
          PROVE  bounds'.crashes >= bounds.crashes /\ bounds'.commands >= bounds.commands
      BY <2>1, <2>3 DEF CliReads, Change, Crash, Limits
    <2>4. \/ bounds' = bounds
          \/ bounds'.crashes >= bounds.crashes /\ bounds'.commands >= bounds.commands
      BY <2>2, <2>3 DEF Next, RequestSync, Pause, Enable, RemoveDocuments, RemoveRows, Rest, vars
    <2>. QED BY <2>1, <2>4 DEF Alone, Limits
  <1>2. Calm
    BY <1>1 DEF Calm, Chain, OverInv, Alone
  <1>. QED BY <1>2, OverStep

LEMMA OverBegins == Init => OverInv
PROOF
  <1> SUFFICES ASSUME Init PROVE Untouched /\ OwnDenied /\ NoneLost
    BY DEF OverInv
  <1>1. \A w \in Workers : worker[w].pc = "idle"
    BY DEF Init, Idle
  <1>2. \A r \in RunIds : runs[r].status = "none"
    BY DEF Init, NoRun
  <1>. QED BY <1>1, <1>2 DEF Init, Untouched, OwnDenied, NoneLost

(* "... or finishes the stream and, when every stream is done, the run"    *)
(* (jobs.py): once nothing is queued or at work no run is left running,    *)
(* whatever the calls answered - unless the operator or a crash came       *)
(* across.                                                                 *)
THEOREM RunsEnd == Spec => []QuietMeansOver
PROOF
  <1>1. ASSUME SyncInv, ChainInv, OverInv PROVE QuietMeansOver
    <2> SUFFICES ASSUME Quiet, bounds.commands = 0, bounds.crashes = 0,
                        NEW r \in RunIds, runs[r].status = "running"
                 PROVE  FALSE
      BY DEF QuietMeansOver
    <2>1. NoneLost
      BY <1>1 DEF OverInv, Alone
    <2>2. \A s \in Streams : ~Minded(r, s)
      BY DEF Minded, Quiet, Carries, Syncs
    <2>3. Over(r)
      BY <2>1, <2>2 DEF NoneLost, Closed, Over
    <2>. QED BY <2>1, <2>3 DEF NoneLost, Finishing, Quiet
  <1>. QED BY <1>1, ChainAlways, Beginning, Steps, ChainBegins, ChainNext, OverBegins, OverNext,
              PTL DEF Spec

-----------------------------------------------------------------------------
(* The order of runs: one sync at a time, which is at the last run there   *)
(* is; a run that has not begun is blank.                                  *)
SyncFirst == \A w \in Workers :
  /\ worker[w].pc \in {"sync", "tools", "fanout"} => StreamOf(w) = NoStream
  /\ worker[w].pc \in {"tools", "fanout"} => Last(worker[w].run)

Blank == \A r \in RunIds : runs[r].status = "none" =>
  /\ \A q \in r..setting.runs : runs[q].status = "none"
  /\ \A s \in Streams : seen[r][s] = {} /\ runs[r].streams[s] = "none"

OrderInv == OneSync /\ SyncFirst /\ Blank

(* What the pages of run r have been through before cursor c.              *)
Reached(r, s, c) == live[s] \ After(s, c) \subseteq seen[r][s] \cap index[s]

(* What a worker has in hand of stream s, whose page begins at c.          *)
Brings(f, r, s, c) ==
  /\ f.page \subseteq live[s] /\ f.doomed \cap live[s] = {}
  /\ runs[r].status = "running" =>
       /\ f.pc \in {"index", "mark"} =>
            f.page = Page(s, c) /\ f.next = NextCursor(s, c) /\ f.whole = (f.next = {})
       /\ f.pc = "mark" => f.page \subseteq index[s]
       /\ f.pc = "next" => \A d \in f.next : Reached(r, s, d)
       /\ f.pc \in {"reconcile", "delete", "done"} => live[s] \subseteq seen[r][s] \cap index[s]
       /\ f.pc = "delete" => index[s] \ live[s] \subseteq f.doomed
       /\ f.pc = "done" => index[s] = live[s]

(* While nothing comes across a run, its pages are the only ones, what     *)
(* they have seen and indexed is what the source has before their cursors, *)
(* and the index of a stream that is done is the source.                   *)
Covers(r) ==
  /\ \A j \in Slots : Live(j) /\ jobs[j].stream # NoStream =>
       /\ jobs[j].run = r
       /\ runs[r].status = "running" => Reached(r, jobs[j].stream, jobs[j].cursor)
  /\ \A s \in Streams :
       /\ seen[r][s] \subseteq live[s]
       /\ Succeeds(r) \/ runs[r].streams[s] = "done" => index[s] = live[s]
  /\ \A w \in Workers : worker[w].pc \in PagePcs => Brings(worker[w], r, StreamOf(w), CursorOf(w))

Covering(r) ==
  /\ Last(r) /\ cli.pc # "purged"
  /\ runs[r].status = "running" \/ (runs[r].status # "deleted" /\ Succeeds(r))

(* A page that is delivered again after its run has ended harms nothing if *)
(* each item is asked for.                                                 *)
Trusted == Checker \/ bounds.crashes = 0

CoverInv == Trusted => \A r \in exact : Covering(r) => Covers(r)

-----------------------------------------------------------------------------
(* What the list tool answers.  The items up to one are more than those up *)
(* to one before it.                                                       *)
LEMMA UpTo ==
  ASSUME NEW S, S \subseteq 1..setting.items, SyncInv, NEW i \in S, NEW k \in S, k < i
  PROVE  /\ Cardinality({h \in S : h <= k}) \in Nat /\ Cardinality({h \in S : h <= i}) \in Nat
         /\ Cardinality({h \in S : h <= k}) < Cardinality({h \in S : h <= i})
         /\ Cardinality({h \in S : h <= k}) > 0
PROOF
  <1> DEFINE K == {h \in S : h <= k}
             I == {h \in S : h <= i}
  <1>1. S \subseteq Int /\ IsFiniteSet(S)
    <2>1. PICK n \in Int : n = setting.items
      BY SettingType DEF SyncInv
    <2>2. IsFiniteSet(1..n)
      BY FS_Interval
    <2>3. S \in SUBSET (1..n) /\ S \subseteq Int
      BY <2>1
    <2>. QED BY <2>2, <2>3, FS_Subset
  <1>2. K \in SUBSET I /\ i \in I /\ i \notin K /\ k \in K
    <2>1. i \in Int /\ k \in Int /\ \A h \in S : h \in Int
      BY <1>1
    <2>2. i \in I /\ i \notin K /\ k \in K
      BY <2>1
    <2>3. \A h \in S : h <= k => h <= i
      BY <2>1
    <2>4. K \subseteq I
      BY <2>3
    <2>. QED BY <2>2, <2>4
  <1>3. IsFiniteSet(I) /\ IsFiniteSet(K)
    BY <1>1, FS_Subset
  <1>. HIDE DEF K, I
  <1>4. Cardinality(K) <= Cardinality(I) /\ Cardinality(K) # Cardinality(I)
    BY <1>2, <1>3, FS_Subset
  <1>5. Cardinality(K) \in Nat /\ Cardinality(I) \in Nat /\ Cardinality(K) # 0
    BY <1>2, <1>3, FS_CardinalityType, FS_EmptySet
  <1>. QED BY <1>4, <1>5 DEF K, I

LEMMA UpToOne ==
  ASSUME NEW S, S \subseteq 1..setting.items, SyncInv, NEW i \in S
  PROVE  Cardinality({h \in S : h <= i}) \in Nat \ {0}
PROOF
  <1> DEFINE I == {h \in S : h <= i}
  <1>1. PICK n \in Int : n = setting.items
    BY SettingType DEF SyncInv
  <1>2. IsFiniteSet(1..n)
    BY FS_Interval
  <1>3. IsFiniteSet(I) /\ i \in I
    <2>1. S \subseteq 1..n /\ i \in Int
      BY <1>1
    <2>2. i \in I
      BY <2>1
    <2>3. I \in SUBSET (1..n)
      BY <2>1
    <2>. QED BY <1>2, <2>2, <2>3, FS_Subset
  <1>. HIDE DEF I
  <1>4. Cardinality(I) \in Nat /\ Cardinality(I) # 0
    BY <1>3, FS_CardinalityType, FS_EmptySet
  <1>. QED BY <1>4 DEF I

LEMMA Smallest ==
  ASSUME NEW S, S \subseteq Nat, S # {}
  PROVE  \E x \in S : \A y \in S : x <= y
PROOF
  <1> DEFINE Less == OpToRel(<, Nat)
  <1>1. \A x, y \in Nat : <<y, x>> \in Less <=> y < x
    BY Zenon DEF OpToRel
  <1>2. IsWellFoundedOn(Less, Nat)
    BY NatLessThanWellFounded
  <1>. HIDE DEF Less
  <1>3. PICK x \in S : \A y \in S : ~(<<y, x>> \in Less)
    BY <1>2, WFMin
  <1>4. ASSUME NEW y \in S PROVE x <= y
    <2>1. ~(y < x) /\ x \in Nat /\ y \in Nat
      BY <1>1, <1>3
    <2>. QED BY <2>1
  <1>. QED BY <1>4

(* A page is what lies between its cursor and the next.                    *)
LEMMA Listed ==
  ASSUME SyncInv, NEW s \in Streams, NEW c \in 0..setting.items
  PROVE  /\ Page(s, c) \subseteq live[s]
         /\ NextCursor(s, c) = {} => After(s, c) \subseteq Page(s, c)
         /\ \A d \in NextCursor(s, c) : After(s, c) \ After(s, d) \subseteq Page(s, c)
         /\ live[s] \subseteq After(s, 0)
PROOF
  <1>1. live[s] \subseteq 1..setting.items /\ setting.items \in Nat /\ c \in Nat
    BY SettingType DEF SyncInv, TypeOK, Items
  <1>2. After(s, c) \subseteq live[s]
    BY DEF After
  <1>3. Page(s, c) \subseteq live[s]
    BY <1>2 DEF Page
  <1>4. live[s] \subseteq After(s, 0)
    <2>1. ASSUME NEW i \in live[s] PROVE i \in After(s, 0)
      <3>1. Cardinality({h \in live[s] : h <= i}) > 0
        BY <1>1, UpToOne
      <3>2. i > 0
        BY <1>1
      <3>. QED BY <3>1, <3>2 DEF After
    <2>. QED BY <2>1
  <1>5. CASE setting.byOffset
    <2>1. NextCursor(s, c) = IF After(s, c) = {} THEN {} ELSE {c + 1}
      BY <1>5 DEF NextCursor
    <2>2. ASSUME NEW i \in After(s, c), i \notin After(s, c + 1), NEW k \in After(s, c)
          PROVE  i <= k
      <3>1. i \in live[s] /\ k \in live[s] /\ i \in Nat /\ k \in Nat
        BY <1>1, <1>2
      <3>2. /\ Cardinality({h \in live[s] : h <= i}) > c
            /\ ~(Cardinality({h \in live[s] : h <= i}) > c + 1)
            /\ Cardinality({h \in live[s] : h <= k}) > c
        BY <1>5, <2>2, <3>1 DEF After
      <3>3. ~(k < i)
        <4>1. SUFFICES ASSUME k < i PROVE FALSE
          OBVIOUS
        <4>2. /\ Cardinality({h \in live[s] : h <= k}) \in Nat
              /\ Cardinality({h \in live[s] : h <= i}) \in Nat
              /\ Cardinality({h \in live[s] : h <= k}) < Cardinality({h \in live[s] : h <= i})
          BY <1>1, <3>1, <4>1, UpTo
        <4>. QED BY <1>1, <3>2, <4>2
      <3>. QED BY <3>1, <3>3
    <2>3. ASSUME NEW d \in NextCursor(s, c), NEW i \in After(s, c), i \notin After(s, d)
          PROVE  i \in Page(s, c)
      <3>1. d = c + 1
        BY <2>1
      <3>. QED BY <2>2, <2>3, <3>1 DEF Page
    <2>4. NextCursor(s, c) = {} => After(s, c) \subseteq Page(s, c)
      BY <2>1
    <2>5. \A d \in NextCursor(s, c) : After(s, c) \ After(s, d) \subseteq Page(s, c)
      BY <2>3
    <2>. QED BY <1>3, <1>4, <2>4, <2>5
  <1>6. CASE ~setting.byOffset
    <2>1. NextCursor(s, c) = IF After(s, c) = Page(s, c) THEN {} ELSE Page(s, c)
      BY <1>6 DEF NextCursor
    <2>2. ASSUME NEW d \in Page(s, c), NEW i \in After(s, c), i \notin After(s, d)
          PROVE  i \in Page(s, c)
      <3>1. d \in After(s, c) /\ d <= i /\ \A k \in After(s, c) : d <= k
        BY <2>2 DEF Page
      <3>2. d \in Nat /\ i \in Nat /\ i \in live[s]
        BY <1>1, <1>2, <3>1
      <3>3. ~(i > d)
        BY <1>6, <2>2, <3>2 DEF After
      <3>4. i = d
        BY <3>1, <3>2, <3>3
      <3>. QED BY <2>2, <3>4
    <2>3. ASSUME NEW i \in After(s, c) PROVE Page(s, c) # {}
      <3>1. PICK x \in After(s, c) : \A y \in After(s, c) : x <= y
        BY <1>1, <1>2, <2>3, Smallest
      <3>. QED BY <3>1 DEF Page
    <2>4. NextCursor(s, c) = {} => After(s, c) \subseteq Page(s, c)
      BY <2>1, <2>3
    <2>5. \A d \in NextCursor(s, c) : After(s, c) \ After(s, d) \subseteq Page(s, c)
      BY <2>1, <2>2
    <2>. QED BY <1>3, <1>4, <2>4, <2>5
  <1>. QED BY <1>5, <1>6

-----------------------------------------------------------------------------
(* Jobs stay what they are while they wait or run; a new one is queued.    *)
SameJob(j) == /\ jobs'[j].run = jobs[j].run /\ jobs'[j].stream = jobs[j].stream
              /\ jobs'[j].cursor = jobs[j].cursor
JobsFrom == \A j \in Slots : Live(j)' => Live(j) /\ SameJob(j)

Opens(k, r, s, c) ==
  /\ ~Live(k) /\ \A j \in Slots \ {k} : jobs'[j] = jobs[j]
  /\ jobs'[k].run = r /\ jobs'[k].stream = s /\ jobs'[k].cursor = c

Asking == ~SyncQueued /\ Enqueue(Queued(0, NoStream, 0)) /\ UNCHANGED worker

LEMMA OpensOne ==
  ASSUME SyncInv, NEW r, NEW s, NEW c, Enqueue(Queued(r, s, c))
  PROVE  \E k \in Slots : Opens(k, r, s, c)
PROOF
  <1> DEFINE job == Queued(r, s, c)
  <1>1. PICK k \in Slots : jobs[k].status = "free" /\ jobs' = [jobs EXCEPT ![k] = job]
    BY DEF Enqueue, FirstFree
  <1>2. job.run = r /\ job.stream = s /\ job.cursor = c
    BY DEF Queued, FreeSlot
  <1>. HIDE DEF job
  <1>3. jobs'[k] = job /\ \A j \in Slots \ {k} : jobs'[j] = jobs[j]
    BY <1>1 DEF SyncInv, TypeOK
  <1>. QED BY <1>1, <1>2, <1>3 DEF Opens, Live

LEMMA OwnJob ==
  ASSUME SyncInv, NEW j \in Slots, NEW x, Live(j), jobs' = [jobs EXCEPT ![j] = x],
         x.status \in {"pending", "running"} =>
           x.run = jobs[j].run /\ x.stream = jobs[j].stream /\ x.cursor = jobs[j].cursor
  PROVE  JobsFrom
PROOF
  <1>1. jobs'[j] = x /\ \A i \in Slots : i # j => jobs'[i] = jobs[i]
    BY DEF SyncInv, TypeOK
  <1>. QED BY <1>1 DEF JobsFrom, SameJob, Live

LEMMA JobsWork ==
  ASSUME SyncInv, NEW w \in Workers,
         jobs' = jobs \/ Settle(w) \/ Postpone(w) \/ \E j \in Slots : Claim(w, j)
  PROVE  JobsFrom
PROOF
  <1>1. ASSUME jobs' = jobs PROVE JobsFrom
    BY <1>1 DEF JobsFrom, SameJob, Live
  <1>2. ASSUME NEW j \in Slots, Claim(w, j) PROVE JobsFrom
    <2> DEFINE x == [jobs[j] EXCEPT !.status = "running", !.attempts = @ + 1]
    <2>1. jobs[j] \in Job /\ Live(j) /\ jobs' = [jobs EXCEPT ![j] = x]
      BY <1>2 DEF Claim, Live, SyncInv, TypeOK
    <2>2. x.run = jobs[j].run /\ x.stream = jobs[j].stream /\ x.cursor = jobs[j].cursor
      BY <2>1 DEF Job
    <2>. HIDE DEF x
    <2>. QED BY <2>1, <2>2, OwnJob
  <1>3. ASSUME Settle(w) PROVE JobsFrom
    <2>1. Has(w)
      BY <1>3, Busy DEF Settle
    <2>2. PICK j \in Slots : j = worker[w].slot
      BY <2>1 DEF Has
    <2> DEFINE x == IF worker[w].ok THEN FreeSlot
                    ELSE IF jobs[j].attempts >= MaxAttempts THEN [jobs[j] EXCEPT !.status = "dead"]
                    ELSE [jobs[j] EXCEPT !.status = "pending"]
    <2>3. jobs[j] \in Job /\ Live(j)
      BY <2>1, <2>2 DEF Has, Live, SyncInv, TypeOK
    <2>4. x.status \in {"pending", "running"} =>
            x.run = jobs[j].run /\ x.stream = jobs[j].stream /\ x.cursor = jobs[j].cursor
      BY <2>3 DEF Job, FreeSlot
    <2>5. jobs' = [jobs EXCEPT ![j] = x]
      BY <1>3, <2>2 DEF Settle
    <2>. HIDE DEF x
    <2>. QED BY <2>3, <2>4, <2>5, OwnJob
  <1>4. ASSUME Postpone(w) PROVE JobsFrom
    <2>1. worker[w].pc # "idle"
      BY <1>4 DEF Postpone, Calling
    <2>2. Has(w)
      BY <2>1, Busy
    <2>3. PICK j \in Slots : j = worker[w].slot
      BY <2>2 DEF Has
    <2> DEFINE x == Postponed(jobs[j])
    <2>4. jobs[j] \in Job /\ Live(j)
      BY <2>2, <2>3 DEF Has, Live, SyncInv, TypeOK
    <2>5. x.run = jobs[j].run /\ x.stream = jobs[j].stream /\ x.cursor = jobs[j].cursor
      BY <2>4 DEF Job, Postponed
    <2>6. jobs' = [jobs EXCEPT ![j] = x]
      BY <1>4, <2>3 DEF Postpone
    <2>. HIDE DEF x
    <2>. QED BY <2>4, <2>5, <2>6, OwnJob
  <1>. QED BY <1>1, <1>2, <1>3, <1>4

LEMMA JobsStep ==
  ASSUME SyncInv, [Next]_vars
  PROVE  \/ JobsFrom \/ Asking
         \/ \E w \in Workers : NextPage(w) \/ \E s \in Streams : FanOut(w, s)
PROOF
  <1>1. ASSUME jobs' = jobs PROVE JobsFrom
    BY <1>1 DEF JobsFrom, SameJob, Live
  <1>5. ASSUME Crash PROVE JobsFrom
    <2>1. ASSUME NEW j \in Slots, Live(j)' PROVE Live(j) /\ SameJob(j)
      <3>1. jobs[j] \in Job
        BY DEF SyncInv, TypeOK
      <3>. QED BY <1>5, <2>1, <3>1 DEF Crash, Live, SameJob, Job
    <2>. QED BY <2>1 DEF JobsFrom
  <1>6. ASSUME RequestSync \/ Enable PROVE JobsFrom \/ Asking
    <2>1. jobs' = jobs \/ Asking
      BY <1>6 DEF RequestSync, Enable, Asking
    <2>. QED BY <1>1, <2>1
  <1>7. ASSUME NEW w \in Workers, Handle(w)
        PROVE  \/ JobsFrom \/ NextPage(w) \/ \E s \in Streams : FanOut(w, s)
    <2>1. \/ jobs' = jobs \/ Settle(w) \/ Postpone(w) \/ \E j \in Slots : Claim(w, j)
          \/ NextPage(w) \/ \E s \in Streams : FanOut(w, s)
      BY <1>7 DEF Handle, StartRun, ToolsFit, ToolsFail, GetSource,
         SaveSource, ReadRun, FinishRun, DenyNote, DenyCheck, BeginPage, Fetch, IndexPage, MarkSeen,
         Reconcile, DeleteDoomed, StreamDone, Unauthorized, Unavailable, Refused
    <2>. QED BY <2>1, JobsWork
  <1>8. \/ RequestSync \/ Enable \/ Crash \/ jobs' = jobs \/ \E w \in Workers : Handle(w)
    BY DEF Next, CliReads, Pause, RemoveDocuments, RemoveRows, Change, Rest, vars
  <1>. QED BY <1>1, <1>5, <1>6, <1>7, <1>8

LEMMA JobKept ==
  ASSUME SyncInv, [Next]_vars, NEW j \in Slots, Live(j), Live(j)'
  PROVE  SameJob(j)
PROOF
  <1>1. ASSUME NEW r, NEW s, NEW c, Enqueue(Queued(r, s, c)) PROVE SameJob(j)
    <2>1. PICK k \in Slots : Opens(k, r, s, c)
      BY <1>1, OpensOne
    <2>. QED BY <2>1 DEF Opens, SameJob
  <1>. QED BY <1>1, JobsStep DEF JobsFrom, Asking, NextPage, FanOut

-----------------------------------------------------------------------------
(* Only StartRun begins a run; what has not begun is left as it is.        *)
Opening(w) == StartRun(w) /\ source.present /\ source.enabled
Unbegun == \A r \in RunIds :
  /\ runs'[r].status = "none" <=> runs[r].status = "none"
  /\ runs[r].status = "none" =>
       /\ runs'[r] = runs[r]
       /\ \A s \in Streams : seen'[r][s] \in {seen[r][s], {}}

LEMMA NoteBegun ==
  ASSUME SyncInv, NEW q \in RunIds, runs[q].status # "none", seen' = seen, NEW S,
         NEW outcome \in {"running", "done", "failed"}, NoteAll(q, S, outcome)
  PROVE  Unbegun
PROOF
  <1>1. \A r \in RunIds : r # q => runs'[r] = runs[r]
    BY DEF NoteAll, SyncInv, TypeOK
  <1>. QED BY <1>1, Noted DEF Unbegun

LEMMA WorkBegun ==
  ASSUME SyncInv, NEW w \in Workers, Handle(w), ~Opening(w)
  PROVE  Unbegun
PROOF
  <1>1. ASSUME runs' = runs, seen' = seen PROVE Unbegun
    BY <1>1 DEF Unbegun
  <1>2. ASSUME runs' = runs, worker[w].pc = "mark",
               seen' = [seen EXCEPT ![worker[w].run][StreamOf(w)] = Marked(w)]
        PROVE  Unbegun
    <2>1. worker[w].run \in RunIds /\ runs[worker[w].run].status # "none"
      BY <1>2, Busy
    <2>2. \A r \in RunIds : r # worker[w].run => seen'[r] = seen[r]
      BY <1>2, <2>1 DEF SyncInv, TypeOK
    <2>. QED BY <1>2, <2>1, <2>2 DEF Unbegun
  <1>3. ASSUME NEW f \in setting.failures, ToolsFail(w, f) PROVE Unbegun
    <2>1. worker[w].run \in RunIds /\ runs[worker[w].run].status # "none"
      BY <1>3, Busy DEF ToolsFail
    <2>2. CASE f = "unauthorized"
      BY <1>1, <1>3, <2>2 DEF ToolsFail
    <2>3. CASE f # "unauthorized"
      <3>1. /\ \A r \in RunIds : r # worker[w].run => runs'[r] = runs[r] /\ seen'[r] = seen[r]
            /\ runs'[worker[w].run].status # "none"
        BY <1>3, <2>1, <2>3 DEF ToolsFail, SyncInv, TypeOK, Run
      <3>. QED BY <2>1, <3>1 DEF Unbegun
    <2>. QED BY <2>2, <2>3
  <1>4. ASSUME FinishRun(w) PROVE Unbegun
    <2>1. /\ worker[w].run \in RunIds /\ runs[worker[w].run].status # "none"
          /\ worker[w].outcome # "none"
      BY <1>4, Busy DEF FinishRun, Local, Outcomes
    <2>2. /\ \A r \in RunIds : r # worker[w].run => runs'[r] = runs[r] /\ seen'[r] = seen[r]
          /\ runs'[worker[w].run].status # "none"
      BY <1>4, <2>1 DEF FinishRun, SyncInv, TypeOK, Run
    <2>. QED BY <2>1, <2>2 DEF Unbegun
  <1>5. ASSUME worker[w].pc \notin {"idle", "sync", "ended"}, seen' = seen, NEW S,
               NEW outcome \in {"running", "done", "failed"},
               NoteAll(worker[w].run, S, outcome)
        PROVE  Unbegun
    <2>1. PICK q \in RunIds : q = worker[w].run /\ runs[q].status # "none"
      BY <1>5, Busy
    <2>. QED BY <1>5, <2>1, NoteBegun
  <1>6. CASE \/ \E j \in Slots : Claim(w, j)
             \/ Settle(w) \/ StartRun(w) \/ ToolsFit(w) \/ GetSource(w) \/ SaveSource(w)
             \/ ReadRun(w) \/ \E s \in Streams : DenyCheck(w, s)
             \/ Fetch(w, FALSE) \/ Fetch(w, TRUE) \/ IndexPage(w) \/ NextPage(w) \/ Reconcile(w)
             \/ DeleteDoomed(w) \/ Postpone(w) \/ Unauthorized(w)
    BY <1>1, <1>6 DEF Claim, Settle, Opening, StartRun, ToolsFit, GetSource, SaveSource, ReadRun,
       DenyCheck, Fetch, IndexPage, NextPage, Reconcile, DeleteDoomed, Postpone, Unauthorized
  <1>7. CASE DenyNote(w)
    BY <1>5, <1>7 DEF DenyNote
  <1>8. ASSUME NEW s \in Streams, FanOut(w, s) PROVE Unbegun
    BY <1>5, <1>8 DEF FanOut
  <1>9. CASE BeginPage(w)
    BY <1>1, <1>5, <1>9 DEF BeginPage, Note
  <1>10. CASE StreamDone(w)
    BY <1>5, <1>10 DEF StreamDone, Note
  <1>11. CASE Unavailable(w) \/ Refused(w)
    BY <1>1, <1>5, <1>11 DEF Unavailable, Refused, Note, Calling
  <1>12. CASE MarkSeen(w)
    BY <1>2, <1>12 DEF MarkSeen
  <1>. QED BY <1>3, <1>4, <1>6, <1>7, <1>8, <1>9, <1>10, <1>11, <1>12 DEF Handle

LEMMA Begun ==
  ASSUME SyncInv, [Next]_vars
  PROVE  Unbegun \/ \E w \in Workers : Opening(w)
PROOF
  <1>1. CASE RemoveRows
    <2>1. \A r \in RunIds : runs[r] \in Run
      BY DEF SyncInv, TypeOK
    <2>2. \A r \in RunIds : runs[r].status # "none" => runs'[r].status = "deleted"
      BY <1>1, <2>1 DEF RemoveRows, Run
    <2>3. \A r \in RunIds : runs[r].status = "none" => runs'[r] = runs[r]
      BY <1>1 DEF RemoveRows
    <2>4. setting' = setting /\ \A r \in RunIds : \A s \in Streams : seen'[r][s] = {}
      BY <1>1 DEF RemoveRows
    <2>. QED BY <2>2, <2>3, <2>4 DEF Unbegun
  <1>2. CASE runs' = runs /\ seen' = seen
    BY <1>2 DEF Unbegun
  <1>3. \/ RemoveRows
        \/ runs' = runs /\ seen' = seen
        \/ \E w \in Workers : Handle(w)
    BY DEF Next, RequestSync, CliReads, Pause, Enable, RemoveDocuments, Change, Crash, Rest, vars
  <1>. QED BY <1>1, <1>2, <1>3, WorkBegun

-----------------------------------------------------------------------------
(* What queues a page is none of a sync's jobs.                            *)
LEMMA OneSyncStays ==
  ASSUME SyncInv, OneSync, [Next]_vars, setting' = setting
  PROVE  OneSync'
PROOF
  <1>1. Slots' = Slots
    BY SameSetting
  <1>2. CASE JobsFrom
    BY <1>1, <1>2 DEF JobsFrom, SameJob, OneSync, Live
  <1>3. CASE Asking
    <2>1. PICK k \in Slots : Opens(k, 0, NoStream, 0)
      BY <1>3, OpensOne DEF Asking
    <2>2. \A j \in Slots : ~(Live(j) /\ jobs[j].stream = NoStream)
      BY <1>3 DEF Asking, SyncQueued, Live
    <2>3. \A j \in Slots : j # k => ~(Live(j)' /\ jobs'[j].stream = NoStream)
      BY <2>1, <2>2 DEF Opens, Live
    <2>. QED BY <1>1, <2>3 DEF OneSync
  <1>4. ASSUME NEW r, NEW s \in Streams, NEW c, Enqueue(Queued(r, s, c)) PROVE OneSync'
    <2>1. PICK k \in Slots : Opens(k, r, s, c)
      BY <1>4, OpensOne
    <2>2. \A j \in Slots : Live(j)' /\ jobs'[j].stream = NoStream => Live(j) /\ jobs'[j] = jobs[j]
      BY <2>1, NotNone DEF Opens, Live
    <2>. QED BY <1>1, <2>2 DEF OneSync
  <1>5. ASSUME NEW w \in Workers, NEW s \in Streams, FanOut(w, s) PROVE OneSync'
    BY <1>4, <1>5 DEF FanOut
  <1>6. ASSUME NEW w \in Workers, NextPage(w) PROVE OneSync'
    <2>1. StreamOf(w) \in Streams
      BY <1>6, Busy DEF NextPage, PagePcs
    <2>. QED BY <1>4, <1>6, <2>1 DEF NextPage
  <1>. QED BY <1>2, <1>3, <1>5, <1>6, JobsStep

(* A worker that stands still has the job it had.                          *)
LEMMA JobStands ==
  ASSUME SyncInv, SyncInv', [Next]_vars, setting' = setting, NEW w \in Workers,
         worker'[w].pc # "idle", worker[w].pc # "idle", worker'[w].slot = worker[w].slot
  PROVE  StreamOf(w)' = StreamOf(w) /\ CursorOf(w)' = CursorOf(w)
PROOF
  <1>1. PICK j \in Slots : j = worker[w].slot /\ Live(j)
    BY DEF SyncInv, WorkersOK, Has, Live
  <1>2. Live(j)'
    BY <1>1 DEF SyncInv, WorkersOK, Has, Live
  <1>. QED BY <1>1, <1>2, JobKept DEF SameJob, StreamOf, CursorOf

LEMMA LastStays ==
  ASSUME Unbegun, setting' = setting, NEW r \in RunIds, SyncInv
  PROVE  Last(r)' <=> Last(r)
PROOF
  <1>1. setting.runs \in Nat /\ setting'.runs = setting.runs
    BY SettingType DEF SyncInv
  <1>2. \A q \in (r + 1)..setting.runs : q \in RunIds
    BY <1>1 DEF RunIds
  <1>. QED BY <1>1, <1>2 DEF Last, Unbegun

(* Where a handler stands after its step.                                  *)
LEMMA PcAfter ==
  ASSUME SyncInv, NEW w \in Workers
  PROVE  /\ \A j \in Slots : Claim(w, j) => worker'[w].pc \in {"sync", "page"}
         /\ Settle(w) \/ Postpone(w) => worker'[w].pc = "idle"
         /\ Opening(w) => worker'[w].pc = "tools"
         /\ StartRun(w) /\ ~Opening(w) => worker'[w].pc = "ended"
         /\ ToolsFit(w) => worker'[w].pc = "fanout"
         /\ \A f : ToolsFail(w, f) => worker'[w].pc \in {"state", "ended"}
         /\ \A s \in Streams : FanOut(w, s) => worker'[w].pc \in {"fanout", "state"}
         /\ GetSource(w) \/ SaveSource(w) => worker'[w].pc \in {"save", "deny", "ended"}
         /\ ReadRun(w) => worker'[w].pc \in {"close", "ended"}
         /\ FinishRun(w) => worker'[w].pc = "outcome"
         /\ DenyNote(w) \/ (\E s \in Streams : DenyCheck(w, s)) => worker'[w].pc = "deny"
         /\ BeginPage(w) => worker'[w].pc \in {"fetch", "ended"}
         /\ Fetch(w, FALSE) \/ Fetch(w, TRUE) => worker'[w].pc = "index"
         /\ IndexPage(w) => worker'[w].pc = "mark"
         /\ MarkSeen(w) => worker'[w].pc \in {"next", "reconcile", "done"}
         /\ NextPage(w) => worker'[w].pc = "ended"
         /\ Reconcile(w) => worker'[w].pc = "delete"
         /\ DeleteDoomed(w) => worker'[w].pc = "done"
         /\ StreamDone(w) => worker'[w].pc = "finish"
         /\ Unauthorized(w) => worker'[w].pc = "state"
         /\ Unavailable(w) \/ Refused(w) => worker'[w].pc \in {"finish", "ended"}
PROOF
  <1>1. worker[w] \in Local
    BY DEF SyncInv, TypeOK
  <1>2. \A x : [worker[w] EXCEPT !.pc = x].pc = x
    BY <1>1 DEF Local
  <1>3. \A x : [Idle EXCEPT !.pc = x].pc = x /\ Idle.pc = "idle"
    BY DEF Idle
  <1>4. ASSUME NEW f, Step(w, f) PROVE worker'[w] = f
    BY <1>4, StepOf
  <1>5. \A ok : Ended(w, ok).pc = "ended"
    BY <1>1 DEF Ended, Local
  <1>6. AfterState(w).pc \in {"deny", "ended"}
    BY <1>1 DEF AfterState, Local
  <1>7. ASSUME NEW j \in Slots, Claim(w, j) PROVE worker'[w].pc \in {"sync", "page"}
    BY <1>4, <1>7 DEF Claim, Idle
  <1>8. Settle(w) \/ Postpone(w) => worker'[w].pc = "idle"
    BY <1>3, <1>4 DEF Settle, Postpone
  <1>9. /\ Opening(w) => worker'[w].pc = "tools"
        /\ StartRun(w) /\ ~Opening(w) => worker'[w].pc = "ended"
    <2>1. ASSUME Opening(w) PROVE worker'[w].pc = "tools"
      <3>1. PICK r \in RunIds : Step(w, [worker[w] EXCEPT !.pc = "tools", !.run = r])
        BY <2>1 DEF Opening, StartRun
      <3>2. worker'[w] = [worker[w] EXCEPT !.pc = "tools", !.run = r]
        BY <1>4, <3>1
      <3>. QED BY <1>1, <3>2 DEF Local
    <2>2. ASSUME StartRun(w), ~Opening(w) PROVE worker'[w].pc = "ended"
      BY <1>4, <1>5, <2>2 DEF Opening, StartRun
    <2>. QED BY <2>1, <2>2
  <1>10. ToolsFit(w) => worker'[w].pc = "fanout"
    <2>1. ToolsFit(w) => worker'[w] = [worker[w] EXCEPT !.pc = "fanout", !.todo = Streams]
      BY <1>4 DEF ToolsFit
    <2>. QED BY <1>1, <2>1 DEF Local
  <1>11. ASSUME NEW f, ToolsFail(w, f) PROVE worker'[w].pc \in {"state", "ended"}
    <2>1. \/ worker'[w] = [worker[w] EXCEPT !.pc = "state", !.to = "needs_reauth"]
          \/ worker'[w] = [worker[w] EXCEPT !.pc = "state", !.to = "error"]
          \/ worker'[w] = Ended(w, FALSE)
      BY <1>4, <1>11 DEF ToolsFail
    <2>. QED BY <1>1, <1>5, <2>1 DEF Local
  <1>12. ASSUME NEW s \in Streams, FanOut(w, s) PROVE worker'[w].pc \in {"fanout", "state"}
    <2>1. \/ worker'[w] = [worker[w] EXCEPT !.todo = worker[w].todo \ {s}] /\ worker[w].pc = "fanout"
          \/ worker'[w] = [worker[w] EXCEPT !.pc = "state", !.todo = {}, !.to = "active"]
      BY <1>4, <1>12 DEF FanOut
    <2>. QED BY <1>1, <2>1 DEF Local
  <1>13. ASSUME GetSource(w) \/ SaveSource(w) PROVE worker'[w].pc \in {"save", "deny", "ended"}
    <2>1. \/ worker'[w] = AfterState(w)
          \/ worker'[w] = [worker[w] EXCEPT !.pc = "save", !.row = source]
      BY <1>4, <1>13 DEF GetSource, SaveSource
    <2>. QED BY <1>1, <1>6, <2>1 DEF Local
  <1>14. /\ ReadRun(w) => worker'[w].pc \in {"close", "ended"}
         /\ FinishRun(w) => worker'[w].pc = "outcome"
    <2>1. ASSUME ReadRun(w) PROVE worker'[w].pc \in {"close", "ended"}
      <3>1. \/ \E x : worker'[w] = [worker[w] EXCEPT !.pc = "close", !.outcome = x]
            \/ worker'[w] = [worker[w] EXCEPT !.pc = "ended"]
        BY <1>4, <2>1 DEF ReadRun
      <3>. QED BY <1>1, <3>1 DEF Local
    <2>2. ASSUME FinishRun(w) PROVE worker'[w].pc = "outcome"
      <3>1. \E x, y : worker'[w] = [worker[w] EXCEPT !.pc = "outcome", !.outcome = x, !.to = y]
        BY <1>4, <2>2 DEF FinishRun
      <3>. QED BY <1>1, <3>1 DEF Local
    <2>. QED BY <2>1, <2>2
  <1>15. ASSUME DenyNote(w) \/ (\E s \in Streams : DenyCheck(w, s)) PROVE worker'[w].pc = "deny"
    <2>1. worker[w].pc = "deny" /\ \/ \E x : worker'[w] = [worker[w] EXCEPT !.failing = x]
                                   \/ \E x, y : worker'[w] = [worker[w] EXCEPT !.todo = x, !.failing = y]
      BY <1>4, <1>15 DEF DenyNote, DenyCheck
    <2>. QED BY <1>1, <2>1 DEF Local
  <1>16. BeginPage(w) => worker'[w].pc \in {"fetch", "ended"}
    BY <1>2, <1>4, <1>5 DEF BeginPage
  <1>17. ASSUME Fetch(w, FALSE) \/ Fetch(w, TRUE) PROVE worker'[w].pc = "index"
    <2>1. PICK early \in BOOLEAN : Fetch(w, early)
      BY <1>17
    <2> DEFINE next == NextCursor(StreamOf(w), CursorOf(w))
    <2>2. worker'[w] = [worker[w] EXCEPT !.pc = "index", !.page = Page(StreamOf(w), CursorOf(w)),
                                         !.next = IF early THEN {} ELSE next,
                                         !.whole = next = {} /\ ~early]
      BY <1>4, <2>1 DEF Fetch
    <2>. QED BY <1>1, <2>2 DEF Local
  <1>18. IndexPage(w) => worker'[w].pc = "mark"
    BY <1>2, <1>4 DEF IndexPage
  <1>19. ASSUME MarkSeen(w) PROVE worker'[w].pc \in {"next", "reconcile", "done"}
    <2>1. worker'[w] = [worker[w] EXCEPT !.page = {}, !.whole = FALSE,
                    !.pc = IF worker[w].next # {} THEN "next"
                           ELSE IF worker[w].whole THEN "reconcile" ELSE "done"]
      BY <1>4, <1>19 DEF MarkSeen
    <2>. QED BY <1>1, <2>1 DEF Local
  <1>20. ASSUME NextPage(w) PROVE worker'[w].pc = "ended"
    <2>1. worker'[w] = [worker[w] EXCEPT !.pc = "ended", !.next = {}]
      BY <1>4, <1>20 DEF NextPage
    <2>. QED BY <1>1, <2>1 DEF Local
  <1>21. ASSUME Reconcile(w) PROVE worker'[w].pc = "delete"
    <2>1. \E x : worker'[w] = [worker[w] EXCEPT !.pc = "delete", !.doomed = x]
      BY <1>4, <1>21 DEF Reconcile
    <2>. QED BY <1>1, <2>1 DEF Local
  <1>22. ASSUME DeleteDoomed(w) PROVE worker'[w].pc = "done"
    <2>1. worker'[w] = [worker[w] EXCEPT !.pc = "done", !.doomed = {}]
      BY <1>4, <1>22 DEF DeleteDoomed
    <2>. QED BY <1>1, <2>1 DEF Local
  <1>23. StreamDone(w) => worker'[w].pc = "finish"
    BY <1>2, <1>4 DEF StreamDone
  <1>24. ASSUME Unauthorized(w) PROVE worker'[w].pc = "state"
    <2>1. worker'[w] = [Idle EXCEPT !.pc = "state", !.to = "needs_reauth",
                                    !.slot = worker[w].slot, !.run = worker[w].run]
      BY <1>4, <1>24 DEF Unauthorized
    <2>. QED BY <2>1 DEF Idle
  <1>25. ASSUME Unavailable(w) \/ Refused(w) PROVE worker'[w].pc \in {"finish", "ended"}
    <2>1. \/ worker'[w] = [Idle EXCEPT !.pc = IF GivesUp(w) THEN "finish" ELSE "ended",
                             !.ok = FALSE, !.slot = worker[w].slot, !.run = worker[w].run]
          \/ worker'[w] = [Idle EXCEPT !.pc = "finish", !.slot = worker[w].slot,
                                       !.run = worker[w].run]
      BY <1>4, <1>25 DEF Unavailable, Refused
    <2>. QED BY <2>1 DEF Idle
  <1>. QED BY <1>7, <1>8, <1>9, <1>10, <1>11, <1>12, <1>13, <1>14, <1>15, <1>16, <1>17, <1>18,
              <1>19, <1>20, <1>21, <1>22, <1>23, <1>24, <1>25

LEMMA OnlyOne ==
  ASSUME SyncInv, [Next]_vars, NEW w \in Workers
  PROVE  \/ worker'[w] = worker[w] \/ Handle(w) \/ worker'[w] = Idle
PROOF
  <1>1. ASSUME NEW v \in Workers, Handle(v), v # w PROVE worker'[w] = worker[w]
    <2>1. \E f : Step(v, f)
      BY <1>1 DEF Handle, Claim, Settle, StartRun, ToolsFit, ToolsFail, FanOut, GetSource,
         SaveSource, ReadRun, FinishRun, DenyNote, DenyCheck, BeginPage, Fetch, IndexPage, MarkSeen,
         NextPage, Reconcile, DeleteDoomed, StreamDone, Postpone, Unauthorized, Unavailable,
         Refused
    <2>. QED BY <1>1, <2>1, StepOf
  <1>2. \/ worker' = worker \/ Crash \/ \E v \in Workers : Handle(v)
    BY DEF Next, RequestSync, CliReads, Pause, Enable, RemoveDocuments, RemoveRows, Change, Rest,
       vars
  <1>. QED BY <1>1, <1>2 DEF Crash

(* Where a sync may stand after a step.                                    *)
LEMMA AtSync ==
  ASSUME SyncInv, [Next]_vars, NEW w \in Workers, worker'[w].pc \in {"sync", "tools", "fanout"}
  PROVE  \/ worker'[w] = worker[w]
         \/ worker'[w].pc = "sync" /\ \E j \in Slots : Claim(w, j)
         \/ worker'[w].pc = "tools" /\ Opening(w)
         \/ /\ worker'[w].pc = "fanout" /\ worker[w].pc \in {"tools", "fanout"}
            /\ worker'[w].run = worker[w].run /\ worker'[w].slot = worker[w].slot
PROOF
  <1>1. Idle.pc = "idle"
    BY DEF Idle
  <1>2. CASE Handle(w)
    <2>1. \/ \E j \in Slots : Claim(w, j)
          \/ Opening(w) \/ ToolsFit(w) \/ \E s \in Streams : FanOut(w, s)
      BY <1>2, PcAfter DEF Handle
    <2>2. ASSUME NEW j \in Slots, Claim(w, j) PROVE worker'[w].pc = "sync"
      BY <2>2, PcAfter
    <2>3. Opening(w) => worker'[w].pc = "tools"
      BY PcAfter
    <2>4. worker[w] \in Local
      BY DEF SyncInv, TypeOK
    <2>5. CASE ToolsFit(w)
      <3>1. worker'[w] = [worker[w] EXCEPT !.pc = "fanout", !.todo = Streams]
        BY <2>5, StepOf DEF ToolsFit
      <3>. QED BY <2>4, <2>5, <3>1 DEF Local, ToolsFit
    <2>6. ASSUME NEW s \in Streams, FanOut(w, s)
          PROVE  /\ worker'[w].pc = "fanout" /\ worker[w].pc \in {"tools", "fanout"}
                 /\ worker'[w].run = worker[w].run /\ worker'[w].slot = worker[w].slot
      <3>1. /\ worker'[w].pc = "fanout" /\ worker[w].pc = "fanout"
        BY <2>6, PcAfter DEF FanOut
      <3>2. \/ worker'[w] = [worker[w] EXCEPT !.todo = worker[w].todo \ {s}]
            \/ worker'[w] = [worker[w] EXCEPT !.pc = "state", !.todo = {}, !.to = "active"]
        BY <2>6, StepOf DEF FanOut
      <3>. QED BY <2>4, <3>1, <3>2 DEF Local
    <2>. QED BY <2>1, <2>2, <2>3, <2>5, <2>6
  <1>. QED BY <1>1, <1>2, OnlyOne

LEMMA SyncFirstStays ==
  ASSUME SyncInv, SyncInv', OrderInv, [Next]_vars, setting' = setting
  PROVE  SyncFirst'
PROOF
  <1> SUFFICES ASSUME NEW w \in Workers, worker'[w].pc \in {"sync", "tools", "fanout"}
               PROVE  /\ StreamOf(w)' = NoStream
                      /\ worker'[w].pc \in {"tools", "fanout"} => Last(worker[w].run)'
    BY DEF SyncFirst
  <1>1. setting.runs \in Nat
    BY SettingType DEF SyncInv
  <1>2. ASSUME worker[w].pc \in {"sync", "tools", "fanout"}, worker'[w].slot = worker[w].slot
        PROVE  StreamOf(w)' = NoStream
    BY <1>2, JobStands DEF OrderInv, SyncFirst
  <1>3. ASSUME NEW v \in Workers, Opening(v), worker[w].pc \in {"sync", "tools", "fanout"}
        PROVE  v = w
    <2>1. worker[v].pc = "sync"
      BY <1>3 DEF Opening, StartRun
    <2>2. StreamOf(v) = NoStream /\ StreamOf(w) = NoStream
      BY <1>3, <2>1 DEF OrderInv, SyncFirst
    <2>3. Has(v) /\ Has(w)
      BY <1>3, <2>1, Busy
    <2>4. worker[v].slot = worker[w].slot
      BY <2>2, <2>3 DEF OrderInv, OneSync, StreamOf, Has, Live
    <2>. QED BY <1>3, <2>1, <2>3, <2>4 DEF Has
  <1>4. ASSUME worker[w].pc \in {"tools", "fanout"}, worker'[w].run = worker[w].run
        PROVE  Last(worker[w].run)'
    <2>1. PICK r \in RunIds : r = worker[w].run
      BY <1>4, Busy
    <2>2. Last(r)
      BY <1>4, <2>1 DEF OrderInv, SyncFirst
    <2>3. \A v \in Workers : ~Opening(v)
      BY <1>3, <1>4 DEF Opening, StartRun
    <2>4. Last(r)'
      BY <2>2, <2>3, Begun, LastStays
    <2>. QED BY <1>4, <2>1, <2>4
  <1>5. CASE worker'[w] = worker[w]
    BY <1>2, <1>4, <1>5
  <1>6. ASSUME NEW j \in Slots, Claim(w, j), worker'[w].pc = "sync" PROVE StreamOf(w)' = NoStream
    <2>1. /\ worker'[w].slot = j /\ jobs'[j].stream = jobs[j].stream
          /\ jobs[j].stream = NoStream
      <3>1. jobs[j] \in Job /\ jobs \in [Slots -> Job]
        BY DEF SyncInv, TypeOK
      <3>2. worker'[w] = [Idle EXCEPT !.pc = IF jobs[j].stream = NoStream THEN "sync" ELSE "page",
                                      !.slot = j, !.run = jobs[j].run]
        BY <1>6, StepOf DEF Claim
      <3>3. jobs'[j].stream = jobs[j].stream
        BY <1>6, <3>1 DEF Claim, Job
      <3>. QED BY <1>6, <3>2, <3>3 DEF Idle
    <2>. QED BY <2>1 DEF StreamOf
  <1>7. CASE Opening(w)
    <2>0. worker[w] \in Local /\ worker[w].pc = "sync"
      BY <1>7 DEF Opening, StartRun, SyncInv, TypeOK
    <2>1. PICK r \in RunIds : /\ runs[r].status = "none"
                              /\ runs' = [runs EXCEPT ![r].status = "running"]
                              /\ Step(w, [worker[w] EXCEPT !.pc = "tools", !.run = r])
      BY <1>7 DEF Opening, StartRun
    <2>2. worker'[w] = [worker[w] EXCEPT !.pc = "tools", !.run = r]
      BY <2>1, StepOf
    <2>3. worker'[w].run = r /\ worker'[w].slot = worker[w].slot
      BY <2>0, <2>2 DEF Local
    <2>4. /\ \A q \in RunIds : q # r => runs'[q] = runs[q]
          /\ runs'[r].status = "running"
      BY <2>1 DEF SyncInv, TypeOK, Run
    <2>5. \A q \in r..setting.runs : runs[q].status = "none"
      BY <2>1 DEF OrderInv, Blank
    <2>6. \A q \in (r + 1)..setting.runs : q \in RunIds /\ q # r /\ q \in r..setting.runs
      BY <1>1 DEF RunIds
    <2>7. Last(r)'
      BY <2>4, <2>5, <2>6 DEF Last
    <2>. QED BY <1>2, <2>0, <2>3, <2>7
  <1>. QED BY <1>2, <1>4, <1>5, <1>6, <1>7, AtSync

LEMMA BlankStays ==
  ASSUME SyncInv, SyncInv', OrderInv, [Next]_vars, setting' = setting
  PROVE  Blank'
PROOF
  <1>1. setting.runs \in Nat /\ RunIds' = RunIds /\ Streams' = Streams
    BY SettingType, SameSetting DEF SyncInv
  <1>2. CASE Unbegun
    <2>1. ASSUME NEW r \in RunIds, runs'[r].status = "none"
          PROVE  /\ \A q \in r..setting.runs : runs'[q].status = "none"
                 /\ \A s \in Streams : seen'[r][s] = {} /\ runs'[r].streams[s] = "none"
      <3>1. runs[r].status = "none" /\ runs'[r] = runs[r]
        BY <1>2, <2>1 DEF Unbegun
      <3>2. \A q \in r..setting.runs : runs[q].status = "none" /\ q \in RunIds
        BY <1>1, <3>1 DEF OrderInv, Blank, RunIds
      <3>. QED BY <1>2, <3>1, <3>2 DEF Unbegun, OrderInv, Blank
    <2>. QED BY <1>1, <2>1 DEF Blank
  <1>3. ASSUME NEW w \in Workers, Opening(w) PROVE Blank'
    <2>1. PICK b \in RunIds : /\ runs[b].status = "none"
                              /\ \A q \in 1..(b - 1) : runs[q].status # "none"
                              /\ runs' = [runs EXCEPT ![b].status = "running"]
      BY <1>3 DEF Opening, StartRun
    <2>2. /\ \A q \in RunIds : q # b => runs'[q] = runs[q]
          /\ runs'[b].status = "running"
      BY <2>1 DEF SyncInv, TypeOK, Run
    <2>3. seen' = seen
      BY <1>3 DEF Opening, StartRun
    <2>4. ASSUME NEW r \in RunIds, runs'[r].status = "none"
          PROVE  /\ \A q \in r..setting.runs : runs'[q].status = "none"
                 /\ \A s \in Streams : seen'[r][s] = {} /\ runs'[r].streams[s] = "none"
      <3>1. r # b /\ runs[r].status = "none" /\ runs'[r] = runs[r]
        BY <2>2, <2>4
      <3>2. r > b
        BY <1>1, <2>1, <3>1 DEF RunIds
      <3>3. \A q \in r..setting.runs : q \in RunIds /\ q # b
        BY <1>1, <3>2 DEF RunIds
      <3>. QED BY <2>2, <2>3, <3>1, <3>3 DEF OrderInv, Blank
    <2>. QED BY <1>1, <2>4 DEF Blank
  <1>. QED BY <1>2, <1>3, Begun

LEMMA OrderNext == SyncInv /\ OrderInv /\ [Next]_vars => OrderInv'
PROOF
  <1> SUFFICES ASSUME SyncInv, OrderInv, [Next]_vars PROVE OrderInv'
    OBVIOUS
  <1>1. SyncInv' /\ setting' = setting
    BY Steps, SettingStays
  <1>. QED BY <1>1, OneSyncStays, SyncFirstStays, BlankStays DEF OrderInv

LEMMA OrderBegins == Init => OrderInv
PROOF
  <1> SUFFICES ASSUME Init PROVE OrderInv
    OBVIOUS
  <1>1. \A j \in Slots : jobs[j].status = "free"
    BY DEF Init, FreeSlot
  <1>2. \A w \in Workers : worker[w].pc = "idle"
    BY DEF Init, Idle
  <1>3. Blank
    <2>1. setting \in Settings
      BY DEF Init
    <2>2. setting.runs \in Nat
      BY <2>1, SettingType
    <2>3. \A r \in RunIds : \A q \in r..setting.runs : q \in RunIds
      BY <2>2 DEF RunIds
    <2>. QED BY <2>3 DEF Init, Blank, NoRun
  <1>. QED BY <1>1, <1>2, <1>3 DEF OrderInv, OneSync, SyncFirst, Live

-----------------------------------------------------------------------------
(* What becomes of a run that has begun.                                   *)
RunGoesOn(r) ==
  /\ \/ runs'[r].status = runs[r].status
     \/ runs'[r].status \in {"failed", "deleted"}
     \/ \E w \in Workers : Closes(w, r) /\ runs'[r].status = worker[w].outcome
  /\ runs[r].status = "deleted" => runs'[r].status = "deleted"

LEMMA WorkOnRun ==
  ASSUME SyncInv, NEW w \in Workers, Handle(w), ~Opening(w), NEW r \in RunIds
  PROVE  RunGoesOn(r)
PROOF
  <1>1. ASSUME runs' = runs PROVE RunGoesOn(r)
    BY <1>1 DEF RunGoesOn
  <1>2. ASSUME worker[w].pc \notin {"idle", "sync", "ended"}, NEW S,
               NEW outcome, NoteAll(worker[w].run, S, outcome)
        PROVE  RunGoesOn(r)
    <2>1. PICK q \in RunIds : q = worker[w].run
      BY <1>2, Busy
    <2>. QED BY <1>2, <2>1, NotedRuns DEF RunGoesOn
  <1>3. ASSUME NEW f \in setting.failures, ToolsFail(w, f) PROVE RunGoesOn(r)
    <2>1. PICK q \in RunIds : q = worker[w].run
      BY <1>3, Busy DEF ToolsFail
    <2>2. CASE runs' = [runs EXCEPT ![q].status = IF @ = "deleted" THEN @ ELSE "failed"]
      <3>1. /\ runs'[q].status = IF runs[q].status = "deleted" THEN "deleted" ELSE "failed"
            /\ \A p \in RunIds : p # q => runs'[p] = runs[p]
        BY <2>2 DEF SyncInv, TypeOK, Run
      <3>. QED BY <3>1 DEF RunGoesOn
    <2>. QED BY <1>1, <1>3, <2>1, <2>2 DEF ToolsFail
  <1>4. CASE FinishRun(w)
    <2>1. PICK q \in RunIds : q = worker[w].run
      BY <1>4, Busy DEF FinishRun
    <2>2. Closes(w, q)
      BY <1>4, <2>1 DEF FinishRun, Closes
    <2>3. /\ runs'[q].status = IF runs[q].status = "deleted" THEN "deleted" ELSE worker[w].outcome
          /\ \A p \in RunIds : p # q => runs'[p] = runs[p]
      BY <1>4, <2>1 DEF FinishRun, SyncInv, TypeOK, Run
    <2>. QED BY <2>2, <2>3 DEF RunGoesOn
  <1>5. CASE StreamDone(w)
    BY <1>2, <1>5 DEF StreamDone, Note
  <1>6. CASE \/ \E j \in Slots : Claim(w, j)
             \/ Settle(w) \/ StartRun(w) \/ ToolsFit(w) \/ GetSource(w) \/ SaveSource(w)
             \/ ReadRun(w) \/ \E s \in Streams : DenyCheck(w, s)
             \/ Fetch(w, FALSE) \/ Fetch(w, TRUE) \/ IndexPage(w) \/ MarkSeen(w) \/ NextPage(w)
             \/ Reconcile(w) \/ DeleteDoomed(w) \/ Postpone(w) \/ Unauthorized(w)
    BY <1>1, <1>6 DEF Claim, Settle, Opening, StartRun, ToolsFit, GetSource, SaveSource, ReadRun,
       DenyCheck, Fetch, IndexPage, MarkSeen, NextPage, Reconcile, DeleteDoomed, Postpone,
       Unauthorized
  <1>7. CASE DenyNote(w)
    BY <1>2, <1>7 DEF DenyNote
  <1>8. ASSUME NEW s \in Streams, FanOut(w, s) PROVE RunGoesOn(r)
    BY <1>2, <1>8 DEF FanOut
  <1>9. CASE BeginPage(w)
    BY <1>1, <1>2, <1>9 DEF BeginPage, Note
  <1>10. CASE Unavailable(w) \/ Refused(w)
    BY <1>1, <1>2, <1>10 DEF Unavailable, Refused, Note, Calling
  <1>. QED BY <1>3, <1>4, <1>5, <1>6, <1>7, <1>8, <1>9, <1>10 DEF Handle

LEMMA OnRun ==
  ASSUME SyncInv, [Next]_vars, Unbegun, NEW r \in RunIds
  PROVE  RunGoesOn(r)
PROOF
  <1>1. ASSUME runs' = runs PROVE RunGoesOn(r)
    BY <1>1 DEF RunGoesOn
  <1>2. CASE RemoveRows
    <2>1. runs[r] \in Run
      BY DEF SyncInv, TypeOK
    <2>. QED BY <1>2, <2>1 DEF RemoveRows, Run, RunGoesOn
  <1>3. ASSUME NEW w \in Workers, Opening(w) PROVE FALSE
    <2>1. PICK b \in RunIds : /\ runs[b].status = "none"
                              /\ runs' = [runs EXCEPT ![b].status = "running"]
      BY <1>3 DEF Opening, StartRun
    <2>2. runs'[b].status = "running"
      BY <2>1 DEF SyncInv, TypeOK, Run
    <2>. QED BY <2>1, <2>2 DEF Unbegun
  <1>4. \/ RemoveRows
        \/ runs' = runs
        \/ \E w \in Workers : Handle(w)
    BY DEF Next, RequestSync, CliReads, Pause, Enable, RemoveDocuments, Change, Crash, Rest, vars
  <1>. QED BY <1>1, <1>2, <1>3, <1>4, WorkOnRun

(* Who will write an outcome has read the run.                             *)
LEMMA ClosesFrom ==
  ASSUME SyncInv, [Next]_vars, NEW r \in RunIds, NEW w \in Workers, Closes(w, r)'
  PROVE  \/ Closes(w, r) /\ worker'[w].outcome = worker[w].outcome
         \/ /\ ReadRun(w) /\ worker[w].run = r /\ runs' = runs
            /\ Finishes(r) /\ worker'[w].outcome = Outcome(r)
PROOF
  <1>1. worker'[w].pc = "close" /\ worker'[w].run = r
    BY DEF Closes
  <1>2. CASE worker'[w] = worker[w]
    BY <1>1, <1>2 DEF Closes
  <1>3. CASE worker'[w] # worker[w]
    <2>1. worker'[w] # Idle
      BY <1>1 DEF Idle
    <2>2. Handle(w)
      BY <1>3, <2>1, OnlyOne
    <2>3. ReadRun(w)
      BY <1>1, <2>2, PcAfter DEF Handle
    <2>4. worker[w] \in Local
      BY DEF SyncInv, TypeOK
    <2>5. \/ /\ Finishes(worker[w].run)
             /\ worker'[w] = [worker[w] EXCEPT !.pc = "close", !.outcome = Outcome(worker[w].run)]
          \/ worker'[w] = [worker[w] EXCEPT !.pc = "ended"]
      BY <2>3, StepOf DEF ReadRun
    <2>6. Finishes(r) /\ worker[w].run = r /\ worker'[w].outcome = Outcome(r)
      BY <1>1, <2>4, <2>5 DEF Local
    <2>. QED BY <2>3, <2>6 DEF ReadRun
  <1>. QED BY <1>2, <1>3

(* Success is first read, by a worker that ends the run.                   *)
LEMMA SucceedsFrom ==
  ASSUME SyncInv, [Next]_vars, NEW r \in RunIds, Succeeds(r)', ~Succeeds(r)
  PROVE  \E w \in Workers : /\ ReadRun(w) /\ worker[w].run = r
                            /\ Finishes(r) /\ Outcome(r) = "succeeded"
PROOF
  <1>1. CASE runs'[r].status = "succeeded"
    <2>1. runs[r].status # "succeeded"
      BY DEF Succeeds
    <2>2. ASSUME NEW w \in Workers, Opening(w) PROVE FALSE
      <3>1. PICK b \in RunIds : runs' = [runs EXCEPT ![b].status = "running"]
        BY <2>2 DEF Opening, StartRun
      <3>2. runs'[b].status = "running" /\ \A q \in RunIds : q # b => runs'[q] = runs[q]
        BY <3>1 DEF SyncInv, TypeOK, Run
      <3>. QED BY <1>1, <2>1, <3>2
    <2>3. RunGoesOn(r)
      BY <2>2, Begun, OnRun
    <2>. QED BY <1>1, <2>1, <2>3 DEF RunGoesOn, Succeeds
  <1>2. CASE \E w \in Workers : Closes(w, r)' /\ worker'[w].outcome = "succeeded"
    <2>1. PICK w \in Workers : Closes(w, r)' /\ worker'[w].outcome = "succeeded"
      BY <1>2
    <2>. QED BY <2>1, ClosesFrom DEF Succeeds
  <1>3. Workers' = Workers
    OBVIOUS
  <1>. QED BY <1>1, <1>2, <1>3 DEF Succeeds

-----------------------------------------------------------------------------
(* What is in hand stays good as long as the run goes on: it sees more,    *)
(* and the index gains items of the source only and loses none of them.    *)
Gains(r) ==
  /\ live' = live
  /\ runs'[r].status = "running" => runs[r].status = "running"
  /\ \A s \in Streams :
       /\ runs'[r].status = "running" => seen[r][s] \subseteq seen'[r][s]
       /\ seen'[r][s] \subseteq live[s]
       /\ index[s] \cap live[s] \subseteq index'[s]
       /\ index'[s] \subseteq index[s] \cup live[s]

LEMMA SameListing ==
  ASSUME setting' = setting, live' = live
  PROVE  \A s, c : /\ After(s, c)' = After(s, c) /\ Page(s, c)' = Page(s, c)
                   /\ NextCursor(s, c)' = NextCursor(s, c)
PROOF
  <1>1. ASSUME NEW s, NEW c PROVE After(s, c)' = After(s, c)
    BY DEF After
  <1>2. ASSUME NEW s, NEW c PROVE Page(s, c)' = Page(s, c)
    BY <1>1 DEF Page
  <1>3. ASSUME NEW s, NEW c PROVE NextCursor(s, c)' = NextCursor(s, c)
    BY <1>1, <1>2 DEF NextCursor
  <1>. QED BY <1>1, <1>2, <1>3

LEMMA StillReached ==
  ASSUME setting' = setting, NEW r, Gains(r), runs'[r].status = "running",
         NEW s \in Streams, NEW c, Reached(r, s, c)
  PROVE  Reached(r, s, c)'
PROOF
  <1>1. After(s, c)' = After(s, c)
    BY SameListing DEF Gains
  <1>2. live[s] \ After(s, c) \subseteq seen'[r][s] \cap index'[s]
    BY DEF Gains, Reached
  <1>. QED BY <1>1, <1>2 DEF Gains, Reached

LEMMA StillBrings ==
  ASSUME setting' = setting, NEW r, Gains(r), NEW s \in Streams, NEW c, NEW f,
         Brings(f, r, s, c)
  PROVE  Brings(f, r, s, c)'
PROOF
  <1>1. /\ Page(s, c)' = Page(s, c) /\ NextCursor(s, c)' = NextCursor(s, c)
        /\ live' = live
    BY SameListing DEF Gains
  <1>2. f.page \subseteq live[s] /\ f.doomed \cap live[s] = {}
    BY DEF Brings
  <1>3. ASSUME runs'[r].status = "running"
        PROVE  /\ f.pc \in {"index", "mark"} =>
                    f.page = Page(s, c) /\ f.next = NextCursor(s, c) /\ f.whole = (f.next = {})
               /\ f.pc = "mark" => f.page \subseteq index'[s]
               /\ f.pc = "next" => \A d \in f.next : Reached(r, s, d)'
               /\ f.pc \in {"reconcile", "delete", "done"} =>
                    live[s] \subseteq seen'[r][s] \cap index'[s]
               /\ f.pc = "delete" => index'[s] \ live[s] \subseteq f.doomed
               /\ f.pc = "done" => index'[s] = live[s]
    <2>1. runs[r].status = "running"
      BY <1>3 DEF Gains
    <2>2. f.pc \in {"index", "mark"} =>
            f.page = Page(s, c) /\ f.next = NextCursor(s, c) /\ f.whole = (f.next = {})
      BY <2>1 DEF Brings
    <2>3. f.pc = "mark" => f.page \subseteq index'[s]
      BY <1>2, <2>1 DEF Brings, Gains
    <2>4. ASSUME f.pc = "next", NEW d \in f.next PROVE Reached(r, s, d)'
      <3>1. Reached(r, s, d)
        BY <2>1, <2>4 DEF Brings
      <3>. QED BY <1>3, <3>1, StillReached
    <2>5. f.pc \in {"reconcile", "delete", "done"} => live[s] \subseteq seen'[r][s] \cap index'[s]
      BY <1>3, <2>1 DEF Brings, Gains
    <2>6. f.pc = "delete" => index'[s] \ live[s] \subseteq f.doomed
      BY <2>1 DEF Brings, Gains
    <2>7. f.pc = "done" => index'[s] = live[s]
      BY <2>1 DEF Brings, Gains
    <2>. QED BY <2>2, <2>3, <2>4, <2>5, <2>6, <2>7
  <1>. QED BY <1>1, <1>2, <1>3 DEF Brings

(* A run's jobs and streams after a step.                                  *)
JobsReach(r) == \A j \in Slots : Live(j)' =>
  \/ Live(j) /\ SameJob(j)
  \/ jobs'[j].stream = NoStream
  \/ jobs'[j].run = r /\ (runs'[r].status = "running" =>
                            Reached(r, jobs[j].stream, jobs[j].cursor)')
EndsFit(r) == \A s \in Streams :
  runs'[r].streams[s] = "done" =>
    Succeeds(r) \/ runs[r].streams[s] = "done" \/ index'[s] = live[s]
Handy(w, r) == worker[w].pc \in PagePcs => Brings(worker[w], r, StreamOf(w), CursorOf(w))

LEMMA CoverFrame ==
  ASSUME SyncInv, SyncInv', [Next]_vars, NEW r \in RunIds, Covers(r), Gains(r), JobsReach(r),
         EndsFit(r), \A w \in Workers : worker'[w] = worker[w] \/ Handy(w, r)'
  PROVE  Covers(r)'
PROOF
  <1>0. setting' = setting
    BY SettingStays
  <1>1. Slots' = Slots /\ Streams' = Streams
    BY <1>0, SameSetting
  <1>2. ASSUME NEW j \in Slots, Live(j)', jobs'[j].stream # NoStream
        PROVE  /\ jobs'[j].run = r
               /\ runs'[r].status = "running" => Reached(r, jobs[j].stream, jobs[j].cursor)'
    <2>1. CASE Live(j) /\ SameJob(j)
      <3>1. jobs'[j].run = r
        BY <1>2, <2>1 DEF SameJob, Covers
      <3>2. ASSUME runs'[r].status = "running"
            PROVE  Reached(r, jobs[j].stream, jobs[j].cursor)'
        <4>1. PICK s \in Streams, c \in Int : s = jobs[j].stream /\ c = jobs[j].cursor
          <5>1. jobs[j] \in Job /\ setting.items \in Nat
            BY SettingType DEF SyncInv, TypeOK
          <5>2. jobs[j].stream \in Streams /\ jobs[j].cursor \in Int
            BY <1>2, <2>1, <5>1 DEF Job, SameJob
          <5>. QED BY <5>2
        <4>2. Reached(r, s, c)
          BY <1>2, <2>1, <3>2, <4>1 DEF SameJob, Covers, Gains
        <4>3. Reached(r, s, c)'
          BY <1>0, <3>2, <4>2, StillReached
        <4>4. s = jobs'[j].stream /\ c = jobs'[j].cursor
          BY <2>1, <4>1 DEF SameJob
        <4>. QED BY <4>3, <4>4
      <3>. QED BY <3>1, <3>2
    <2>. QED BY <1>2, <2>1 DEF JobsReach
  <1>3. ASSUME NEW s \in Streams
        PROVE  /\ seen'[r][s] \subseteq live'[s]
               /\ Succeeds(r)' \/ runs'[r].streams[s] = "done" => index'[s] = live'[s]
    <2>1. Succeeds(r) \/ runs[r].streams[s] = "done" => index'[s] = live[s]
      BY DEF Covers, Gains
    <2>2. ASSUME Succeeds(r)', ~Succeeds(r) PROVE runs[r].streams[s] = "done"
      <3>1. Finishes(r) /\ Outcome(r) = "succeeded"
        BY <2>2, SucceedsFrom
      <3>2. runs[r].streams[s] # "failed"
        BY <3>1 DEF Outcome
      <3>. QED BY <3>1, <3>2 DEF Finishes, Over
    <2>3. Succeeds(r)' \/ runs'[r].streams[s] = "done" => index'[s] = live[s]
      BY <2>1, <2>2 DEF EndsFit
    <2>. QED BY <2>3 DEF Gains
  <1>4. ASSUME NEW w \in Workers, worker'[w].pc \in PagePcs
        PROVE  Brings(worker[w], r, StreamOf(w), CursorOf(w))'
    <2>1. CASE Handy(w, r)'
      BY <1>4, <2>1 DEF Handy
    <2>2. CASE worker'[w] = worker[w]
      <3>1. worker[w].pc # "idle" /\ worker'[w].pc # "idle"
        BY <1>4, <2>2 DEF PagePcs
      <3>2. StreamOf(w)' = StreamOf(w) /\ CursorOf(w)' = CursorOf(w)
        BY <1>0, <2>2, <3>1, JobStands
      <3>3. PICK f, s, c : f = worker[w] /\ s = StreamOf(w) /\ c = CursorOf(w)
        OBVIOUS
      <3>4. Brings(f, r, s, c) /\ s \in Streams
        BY <1>4, <2>2, <3>1, <3>3, Busy DEF Covers
      <3>5. Brings(f, r, s, c)'
        BY <1>0, <3>4, StillBrings
      <3>. QED BY <2>2, <3>2, <3>3, <3>5
    <2>. QED BY <1>4, <2>1, <2>2
  <1>. QED BY <1>1, <1>2, <1>3, <1>4 DEF Covers

-----------------------------------------------------------------------------
LEMMA WasCovering ==
  ASSUME SyncInv, [Next]_vars, Unbegun, NEW r \in RunIds, Covering(r)'
  PROVE  /\ Covering(r)
         /\ runs'[r].status = "running" => runs[r].status = "running"
PROOF
  <1>1. cli'.pc # "purged" /\ Last(r)' /\ RunGoesOn(r)
    BY OnRun DEF Covering
  <1>2. ASSUME NEW w \in Workers, Closes(w, r) PROVE worker[w].outcome \in Outcomes
    BY DEF SyncInv, TypeOK, Local
  <1>3. /\ runs[r].status = "running" \/ (runs[r].status # "deleted" /\ Succeeds(r))
        /\ runs'[r].status = "running" => runs[r].status = "running"
    <2>1. CASE runs'[r].status = "running"
      BY <1>1, <1>2, <2>1 DEF RunGoesOn, Outcomes
    <2>2. CASE runs'[r].status # "running"
      <3>1. runs[r].status # "deleted" /\ Succeeds(r)'
        BY <1>1, <2>2 DEF Covering, RunGoesOn
      <3>. QED BY <2>2, <3>1, SucceedsFrom DEF Finishes
    <2>. QED BY <2>1, <2>2
  <1>4. Last(r)
    BY <1>1, LastStays, SettingStays
  <1>5. ASSUME cli.pc = "purged" PROVE FALSE
    <2>1. ~RemoveRows
      <3>1. runs[r] \in Run
        BY DEF SyncInv, TypeOK
      <3>2. ASSUME RemoveRows PROVE runs'[r].status \in {"none", "deleted"}
        BY <3>1, <3>2 DEF RemoveRows, Run
      <3>. QED BY <3>2 DEF Covering, Last
    <2>2. ASSUME NEW w \in Workers, Handle(w) PROVE cli' = cli
      BY <2>2 DEF Handle, Claim, Settle, StartRun, ToolsFit, ToolsFail, FanOut, GetSource,
         SaveSource, ReadRun, FinishRun, DenyNote, DenyCheck, BeginPage, Fetch, IndexPage, MarkSeen,
         NextPage, Reconcile, DeleteDoomed, StreamDone, Postpone, Unauthorized, Unavailable,
         Refused
    <2>3. cli' = cli
      BY <1>5, <2>1, <2>2 DEF Next, RequestSync, CliReads, Pause, Enable, RemoveDocuments, Change,
                             Crash, Rest, vars
    <2>. QED BY <1>1, <1>5, <2>3
  <1>. QED BY <1>3, <1>4, <1>5 DEF Covering

(* What the worker at a page of a run has.                                 *)
LEMMA AtPage ==
  ASSUME SyncInv, NEW r \in RunIds, Covers(r), NEW w \in Workers, worker[w].pc \in PagePcs
  PROVE  /\ worker[w] \in Local /\ worker[w].run = r
         /\ StreamOf(w) \in Streams /\ CursorOf(w) \in 0..setting.items
         /\ Brings(worker[w], r, StreamOf(w), CursorOf(w))
         /\ runs[r].status = "running" => Reached(r, StreamOf(w), CursorOf(w))
PROOF
  <1>1. worker[w].pc # "idle"
    BY DEF PagePcs
  <1>2. /\ worker[w] \in Local /\ worker[w].slot \in Slots /\ jobs[worker[w].slot] \in Job
        /\ Has(w) /\ StreamOf(w) \in Streams
    BY <1>1, Busy
  <1>3. Live(worker[w].slot) /\ jobs[worker[w].slot].stream # NoStream
    BY <1>2, NotNone DEF Has, Live, StreamOf
  <1>4. worker[w].run = jobs[worker[w].slot].run
    BY <1>2 DEF Has
  <1>5. CursorOf(w) \in 0..setting.items
    BY <1>2 DEF Job, CursorOf
  <1>. QED BY <1>2, <1>3, <1>4, <1>5 DEF Covers, StreamOf, CursorOf

(* A worker goes on with its page.                                         *)
LEMMA Hands ==
  ASSUME SyncInv, SyncInv', [Next]_vars, NEW w \in Workers, worker[w].pc # "idle",
         NEW r, NEW s, NEW c, NEW f, s = StreamOf(w), c = CursorOf(w), f = worker'[w],
         f.pc # "idle", f.slot = worker[w].slot, Brings(f, r, s, c)'
  PROVE  Handy(w, r)'
PROOF
  <1>1. StreamOf(w)' = s /\ CursorOf(w)' = c
    BY JobStands, SettingStays
  <1>. QED BY <1>1 DEF Handy

(* Steps that leave what is listed, seen and indexed alone, or end the run. *)
Leaves(r) ==
  /\ live' = live /\ index' = index
  /\ runs'[r].status = "running" => runs[r].status = "running"
  /\ \A s \in Streams :
       /\ seen'[r][s] = seen[r][s] \/ (seen'[r][s] = {} /\ runs'[r].status # "running")
       /\ runs'[r].streams[s] = "done" => runs[r].streams[s] = "done"

LEMMA CoversBeside ==
  ASSUME SyncInv, SyncInv', [Next]_vars, NEW r \in RunIds, Covers(r), Leaves(r),
         JobsFrom \/ Asking,
         \A w \in Workers : worker'[w] = worker[w] \/ Handy(w, r)'
  PROVE  Covers(r)'
PROOF
  <1>1. Gains(r)
    BY DEF Gains, Covers, Leaves
  <1>2. JobsReach(r)
    <2>1. CASE JobsFrom
      BY <2>1 DEF JobsFrom, JobsReach
    <2>2. CASE Asking
      <3>1. PICK k \in Slots : Opens(k, 0, NoStream, 0)
        BY <2>2, OpensOne DEF Asking
      <3>. QED BY <3>1 DEF Opens, JobsReach, Live, SameJob
    <2>. QED BY <2>1, <2>2
  <1>3. EndsFit(r)
    BY DEF EndsFit, Leaves
  <1>. QED BY <1>1, <1>2, <1>3, CoverFrame

(* The steps of a handler that is not at a page, and those that leave one. *)
Aside(w) ==
  \/ \E j \in Slots : Claim(w, j)
  \/ Settle(w) \/ (StartRun(w) /\ ~Opening(w)) \/ ToolsFit(w)
  \/ \E f \in setting.failures : ToolsFail(w, f)
  \/ GetSource(w) \/ SaveSource(w) \/ DenyNote(w) \/ \E s \in Streams : DenyCheck(w, s)
  \/ BeginPage(w) \/ Postpone(w) \/ Unauthorized(w) \/ Unavailable(w) \/ Refused(w)

LEMMA AsideLeaves ==
  ASSUME SyncInv, NEW r \in RunIds, NEW w \in Workers, Aside(w)
  PROVE  Leaves(r)
PROOF
  <1>1. UNCHANGED <<live, index>>
    BY DEF Aside, Claim, Settle, StartRun, ToolsFit, ToolsFail, GetSource, SaveSource, DenyNote,
       DenyCheck, BeginPage, Postpone, Unauthorized, Unavailable, Refused
  <1>2. ASSUME runs' = runs, seen' = seen PROVE Leaves(r)
    BY <1>1, <1>2 DEF Leaves
  <1>3. ASSUME worker[w].pc \notin {"idle", "sync", "ended"}, NEW S, seen' = seen,
               NoteAll(worker[w].run, S, "failed")
        PROVE  Leaves(r)
    <2>1. PICK q \in RunIds : q = worker[w].run
      BY <1>3, Busy
    <2>. QED BY <1>1, <1>3, <2>1, NotedRuns DEF Leaves
  <1>4. ASSUME NEW f \in setting.failures, ToolsFail(w, f) PROVE Leaves(r)
    <2>1. PICK q \in RunIds : q = worker[w].run
      BY <1>4, Busy DEF ToolsFail
    <2>2. CASE f = "unauthorized"
      BY <1>2, <1>4, <2>2 DEF ToolsFail
    <2>3. CASE f # "unauthorized"
      <3>1. /\ runs' = [runs EXCEPT ![q].status = IF @ = "deleted" THEN @ ELSE "failed"]
            /\ seen' = [seen EXCEPT ![q] = [s \in Streams |-> {}]]
        BY <1>4, <2>1, <2>3 DEF ToolsFail
      <3>2. /\ runs'[q].status \in {"failed", "deleted"} /\ runs'[q].streams = runs[q].streams
            /\ \A s \in Streams : seen'[q][s] = {}
            /\ \A p \in RunIds : p # q => runs'[p] = runs[p] /\ seen'[p] = seen[p]
        BY <3>1 DEF SyncInv, TypeOK, Run
      <3>. QED BY <1>1, <3>2 DEF Leaves
    <2>. QED BY <2>2, <2>3
  <1>5. CASE \/ \E j \in Slots : Claim(w, j)
             \/ Settle(w) \/ (StartRun(w) /\ ~Opening(w)) \/ ToolsFit(w) \/ GetSource(w)
             \/ SaveSource(w) \/ \E s \in Streams : DenyCheck(w, s)
    BY <1>2, <1>5 DEF Claim, Settle, Opening, StartRun, ToolsFit, GetSource, SaveSource, DenyCheck
  <1>6. CASE DenyNote(w) \/ BeginPage(w)
    BY <1>2, <1>3, <1>6 DEF DenyNote, BeginPage, Note
  <1>7. CASE Postpone(w) \/ Unauthorized(w) \/ Unavailable(w) \/ Refused(w)
    BY <1>2, <1>3, <1>7 DEF Postpone, Unauthorized, Unavailable, Refused, Note, Calling
  <1>. QED BY <1>4, <1>5, <1>6, <1>7 DEF Aside

LEMMA AsideHandy ==
  ASSUME SyncInv, SyncInv', [Next]_vars, NEW r \in RunIds, Covers(r), live' = live,
         NEW w \in Workers, Aside(w)
  PROVE  Handy(w, r)'
PROOF
  <1>1. SUFFICES ASSUME worker'[w].pc \in PagePcs PROVE Handy(w, r)'
    BY DEF Handy
  <1>2. worker[w] \in Local
    BY DEF SyncInv, TypeOK
  <1>3. BeginPage(w) \/ \E j \in Slots : Claim(w, j)
    BY <1>1, PcAfter DEF Aside, PagePcs
  <1>4. CASE BeginPage(w)
    <2>1. worker'[w].pc = "fetch" /\ worker[w].pc = "page"
      BY <1>1, <1>4, PcAfter DEF BeginPage, PagePcs
    <2>2. worker'[w] = [worker[w] EXCEPT !.pc = "fetch"]
      <3>1. \/ worker'[w] = [worker[w] EXCEPT !.pc = "fetch"]
            \/ worker'[w] = Ended(w, TRUE)
        BY <1>4, StepOf DEF BeginPage
      <3>. QED BY <1>2, <2>1, <3>1 DEF Ended, Local
    <2>3. PICK f, s, c : f = worker'[w] /\ s = StreamOf(w) /\ c = CursorOf(w)
      OBVIOUS
    <2>4. /\ f.pc = "fetch" /\ f.page = worker[w].page /\ f.doomed = worker[w].doomed
          /\ f.slot = worker[w].slot
      BY <1>2, <2>2, <2>3 DEF Local
    <2>5. Brings(worker[w], r, s, c)
      BY <2>1, <2>3, AtPage DEF PagePcs
    <2>6. Brings(f, r, s, c)'
      BY <2>4, <2>5 DEF Brings
    <2>. QED BY <2>1, <2>3, <2>4, <2>6, Hands
  <1>5. ASSUME NEW j \in Slots, Claim(w, j) PROVE Handy(w, r)'
    <2>1. worker'[w] = [Idle EXCEPT !.pc = IF jobs[j].stream = NoStream THEN "sync" ELSE "page",
                                    !.slot = j, !.run = jobs[j].run]
      BY <1>5, StepOf DEF Claim
    <2>2. worker'[w].pc = "page" /\ worker'[w].page = {} /\ worker'[w].doomed = {}
      BY <1>1, <2>1 DEF Idle, PagePcs
    <2>. QED BY <2>2 DEF Handy, Brings
  <1>. QED BY <1>3, <1>4, <1>5

LEMMA CoversAside ==
  ASSUME SyncInv, SyncInv', [Next]_vars, NEW r \in RunIds, Covers(r), NEW w \in Workers, Aside(w)
  PROVE  Covers(r)'
PROOF
  <1>1. Leaves(r)
    BY AsideLeaves
  <1>2. Handy(w, r)'
    BY <1>1, AsideHandy DEF Leaves
  <1>3. \A v \in Workers \ {w} : worker'[v] = worker[v]
    <2>1. \E f : Step(w, f)
      BY DEF Aside, Claim, Settle, StartRun, ToolsFit, ToolsFail, GetSource, SaveSource, DenyNote,
         DenyCheck, BeginPage, Postpone, Unauthorized, Unavailable, Refused
    <2>. QED BY <2>1, StepOf
  <1>4. JobsFrom
    <2>1. jobs' = jobs \/ Settle(w) \/ Postpone(w) \/ \E j \in Slots : Claim(w, j)
      BY DEF Aside, StartRun, ToolsFit, ToolsFail, GetSource, SaveSource, DenyNote, DenyCheck,
         BeginPage, Unauthorized, Unavailable, Refused
    <2>. QED BY <2>1, JobsWork
  <1>. QED BY <1>1, <1>2, <1>3, <1>4, CoversBeside

-----------------------------------------------------------------------------
(* The steps of a page.                                                    *)
LEMMA CoversFetch ==
  ASSUME SyncInv, SyncInv', [Next]_vars, NEW r \in RunIds, Covers(r),
         NEW w \in Workers, NEW early \in BOOLEAN, Fetch(w, early), r \in exact'
  PROVE  Covers(r)'
PROOF
  <1>1. worker[w].pc \in PagePcs /\ worker[w].pc # "idle"
    BY DEF Fetch, PagePcs
  <1>2. /\ worker[w] \in Local /\ worker[w].run = r
        /\ Brings(worker[w], r, StreamOf(w), CursorOf(w))
    BY <1>1, AtPage
  <1>3. ~early
    BY <1>2 DEF Fetch
  <1>4. PICK s \in Streams, c \in 0..setting.items : s = StreamOf(w) /\ c = CursorOf(w)
    BY <1>1, AtPage
  <1>5. PICK f : f = worker'[w]
    OBVIOUS
  <1>6. /\ f.pc = "index" /\ f.page = Page(s, c) /\ f.next = NextCursor(s, c)
        /\ f.whole = (f.next = {}) /\ f.doomed = worker[w].doomed /\ f.slot = worker[w].slot
    <2> DEFINE next == NextCursor(s, c)
    <2>1. f = [worker[w] EXCEPT !.pc = "index", !.page = Page(s, c), !.next = next,
                                !.whole = next = {}]
      BY <1>3, <1>4, <1>5, StepOf DEF Fetch
    <2>. HIDE DEF next
    <2>2. /\ f.pc = "index" /\ f.page = Page(s, c) /\ f.next = next
          /\ f.whole = (next = {}) /\ f.doomed = worker[w].doomed /\ f.slot = worker[w].slot
      BY <1>2, <2>1 DEF Local
    <2>. QED BY <2>2 DEF next
  <1>7. UNCHANGED <<runs, seen, jobs, index, live, setting>>
    BY DEF Fetch
  <1>8. Page(s, c)' = Page(s, c) /\ NextCursor(s, c)' = NextCursor(s, c)
    BY <1>7, SameListing
  <1>9. Page(s, c) \subseteq live[s]
    BY Listed
  <1>10. Brings(f, r, s, c)'
    BY <1>2, <1>4, <1>6, <1>7, <1>8, <1>9 DEF Brings
  <1>11. Handy(w, r)'
    BY <1>1, <1>4, <1>5, <1>6, <1>10, Hands
  <1>12. \A v \in Workers \ {w} : worker'[v] = worker[v]
    BY StepOf DEF Fetch
  <1>13. JobsFrom /\ Leaves(r)
    BY <1>7, JobsWork DEF Leaves
  <1>. QED BY <1>11, <1>12, <1>13, CoversBeside

LEMMA CoversIndex ==
  ASSUME SyncInv, SyncInv', [Next]_vars, NEW r \in RunIds, Covers(r),
         NEW w \in Workers, IndexPage(w)
  PROVE  Covers(r)'
PROOF
  <1>1. worker[w].pc \in PagePcs /\ worker[w].pc # "idle" /\ worker[w].pc = "index"
    BY DEF IndexPage, PagePcs
  <1>2. /\ worker[w] \in Local /\ worker[w].run = r
        /\ Brings(worker[w], r, StreamOf(w), CursorOf(w))
    BY <1>1, AtPage
  <1>3. PICK s \in Streams, c \in 0..setting.items : s = StreamOf(w) /\ c = CursorOf(w)
    BY <1>1, AtPage
  <1>4. PICK f : f = worker'[w]
    OBVIOUS
  <1>5. /\ f.pc = "mark" /\ f.page = worker[w].page /\ f.next = worker[w].next
        /\ f.whole = worker[w].whole /\ f.doomed = worker[w].doomed /\ f.slot = worker[w].slot
    <2>1. f = [worker[w] EXCEPT !.pc = "mark"]
      BY <1>4, StepOf DEF IndexPage
    <2>. QED BY <1>2, <2>1 DEF Local
  <1>6. UNCHANGED <<runs, seen, jobs, live, setting>>
    BY DEF IndexPage
  <1>7. worker[w].page \subseteq live[s]
    BY <1>2, <1>3 DEF Brings
  <1>8. /\ index'[s] = index[s] \cup worker[w].page
        /\ \A t \in Streams : t # s => index'[t] = index[t]
    <2>1. PICK gone : /\ gone \subseteq worker[w].page \ live[s]
                      /\ index' = [index EXCEPT ![s] = @ \cup (worker[w].page \ gone)]
      BY <1>3 DEF IndexPage
    <2>2. gone = {}
      BY <1>7, <2>1
    <2>. QED BY <2>1, <2>2 DEF SyncInv, TypeOK
  <1>9. Page(s, c)' = Page(s, c) /\ NextCursor(s, c)' = NextCursor(s, c)
    BY <1>6, SameListing
  <1>10. Brings(f, r, s, c)'
    BY <1>1, <1>2, <1>3, <1>5, <1>6, <1>7, <1>8, <1>9 DEF Brings
  <1>11. Handy(w, r)'
    BY <1>1, <1>3, <1>4, <1>5, <1>10, Hands
  <1>12. \A v \in Workers \ {w} : worker'[v] = worker[v]
    BY StepOf DEF IndexPage
  <1>13. Gains(r)
    BY <1>6, <1>7, <1>8 DEF Gains, Covers
  <1>14. JobsReach(r) /\ EndsFit(r)
    BY <1>6, JobsWork DEF JobsFrom, JobsReach, EndsFit
  <1>. QED BY <1>11, <1>12, <1>13, <1>14, CoverFrame

LEMMA CoversMark ==
  ASSUME SyncInv, SyncInv', [Next]_vars, NEW r \in RunIds, Covers(r),
         NEW w \in Workers, MarkSeen(w)
  PROVE  Covers(r)'
PROOF
  <1>1. worker[w].pc \in PagePcs /\ worker[w].pc # "idle" /\ worker[w].pc = "mark"
    BY DEF MarkSeen, PagePcs
  <1>2. /\ worker[w] \in Local /\ worker[w].run = r
        /\ Brings(worker[w], r, StreamOf(w), CursorOf(w))
        /\ runs[r].status = "running" => Reached(r, StreamOf(w), CursorOf(w))
    BY <1>1, AtPage
  <1>3. PICK s \in Streams, c \in 0..setting.items : s = StreamOf(w) /\ c = CursorOf(w)
    BY <1>1, AtPage
  <1>4. PICK f : f = worker'[w]
    OBVIOUS
  <1>5. /\ f.pc = IF worker[w].next # {} THEN "next"
                  ELSE IF worker[w].whole THEN "reconcile" ELSE "done"
        /\ f.page = {} /\ f.next = worker[w].next
        /\ f.doomed = worker[w].doomed /\ f.slot = worker[w].slot
    <2>1. f = [worker[w] EXCEPT !.page = {}, !.whole = FALSE,
                    !.pc = IF worker[w].next # {} THEN "next"
                           ELSE IF worker[w].whole THEN "reconcile" ELSE "done"]
      BY <1>4, StepOf DEF MarkSeen
    <2>. QED BY <1>2, <2>1 DEF Local
  <1>6. UNCHANGED <<runs, index, jobs, live, setting>>
    BY DEF MarkSeen
  <1>7. worker[w].page \subseteq live[s]
    BY <1>2, <1>3 DEF Brings
  <1>8. /\ seen'[r][s] = seen[r][s] \cup worker[w].page
        /\ \A t \in Streams : t # s => seen'[r][t] = seen[r][t]
    <2>1. seen' = [seen EXCEPT ![r][s] = seen[r][s] \cup worker[w].page]
      BY <1>2, <1>3 DEF MarkSeen, Marked
    <2>. QED BY <2>1 DEF SyncInv, TypeOK
  <1>9. \A d : After(s, d)' = After(s, d)
    BY <1>6, SameListing
  <1>10. ASSUME runs[r].status = "running"
         PROVE  /\ f.pc = "next" => \A d \in f.next : Reached(r, s, d)'
                /\ f.pc # "next" => f.pc = "reconcile" /\ live[s] \subseteq seen'[r][s] \cap index[s]
    <2>1. /\ worker[w].page = Page(s, c) /\ worker[w].next = NextCursor(s, c)
          /\ worker[w].whole = (worker[w].next = {})
          /\ worker[w].page \subseteq index[s]
      BY <1>1, <1>2, <1>3, <1>10 DEF Brings
    <2>2. live[s] \ After(s, c) \subseteq seen[r][s] \cap index[s]
      BY <1>2, <1>3, <1>10 DEF Reached
    <2>3. ASSUME NEW d \in f.next PROVE Reached(r, s, d)'
      <3>1. d \in NextCursor(s, c)
        BY <1>5, <2>1
      <3>2. After(s, c) \ After(s, d) \subseteq Page(s, c)
        BY <3>1, Listed
      <3>3. live[s] \ After(s, d) \subseteq seen'[r][s] \cap index[s]
        BY <1>8, <2>1, <2>2, <3>2
      <3>. QED BY <1>6, <1>9, <3>3 DEF Reached
    <2>4. ASSUME f.pc # "next"
          PROVE  f.pc = "reconcile" /\ live[s] \subseteq seen'[r][s] \cap index[s]
      <3>1. NextCursor(s, c) = {} /\ f.pc = "reconcile"
        BY <1>5, <2>1, <2>4
      <3>2. After(s, c) \subseteq Page(s, c)
        BY <3>1, Listed
      <3>. QED BY <1>8, <2>1, <2>2, <3>1, <3>2
    <2>. QED BY <2>3, <2>4
  <1>11. f.pc \in {"next", "reconcile", "done"}
    BY <1>5
  <1>12. Brings(f, r, s, c)'
    BY <1>2, <1>3, <1>5, <1>6, <1>10, <1>11 DEF Brings
  <1>13. Handy(w, r)'
    BY <1>1, <1>3, <1>4, <1>5, <1>11, <1>12, Hands
  <1>14. \A v \in Workers \ {w} : worker'[v] = worker[v]
    BY StepOf DEF MarkSeen
  <1>15. Gains(r)
    BY <1>6, <1>7, <1>8 DEF Gains, Covers
  <1>16. JobsReach(r) /\ EndsFit(r)
    BY <1>6, JobsWork DEF JobsFrom, JobsReach, EndsFit
  <1>. QED BY <1>13, <1>14, <1>15, <1>16, CoverFrame

LEMMA CoversReconcile ==
  ASSUME SyncInv, SyncInv', [Next]_vars, ChainInv, Trusted, NEW r \in RunIds, Covers(r),
         runs[r].status = "running" \/ Succeeds(r),
         NEW w \in Workers, Reconcile(w), r \in exact'
  PROVE  Covers(r)'
PROOF
  <1>1. worker[w].pc \in PagePcs /\ worker[w].pc # "idle" /\ worker[w].pc = "reconcile"
    BY DEF Reconcile, PagePcs
  <1>2. /\ worker[w] \in Local /\ worker[w].run = r
        /\ Brings(worker[w], r, StreamOf(w), CursorOf(w))
    BY <1>1, AtPage
  <1>3. PICK s \in Streams, c \in 0..setting.items : s = StreamOf(w) /\ c = CursorOf(w)
    BY <1>1, AtPage
  <1>4. PICK f : f = worker'[w]
    OBVIOUS
  <1>5. ~Suspended(w) /\ f = [worker[w] EXCEPT !.pc = "delete", !.doomed = Doomed(w)]
    <2>1. PICK kept : /\ Step(w, [worker[w] EXCEPT !.pc = "delete", !.doomed = Doomed(w) \ kept])
                      /\ exact' = IF Suspended(w) \/ kept # {} THEN exact \ {r} ELSE exact
      BY <1>2 DEF Reconcile
    <2>2. ~Suspended(w) /\ kept = {}
      BY <2>1
    <2>3. Doomed(w) \ kept = Doomed(w)
      BY <2>2
    <2>. QED BY <1>4, <2>1, <2>2, <2>3, StepOf
  <1>6. /\ f.pc = "delete" /\ f.doomed = Doomed(w) /\ f.page = worker[w].page
        /\ f.slot = worker[w].slot
    BY <1>2, <1>5 DEF Local
  <1>7. UNCHANGED <<runs, seen, index, jobs, live, setting>>
    BY DEF Reconcile
  <1>8. Missing(w) = index[s] \ seen[r][s] /\ seen[r][s] \subseteq live[s]
    BY <1>2, <1>3 DEF Missing, Covers
  <1>9. Doomed(w) = IF Checker THEN Missing(w) \ live[s] ELSE Missing(w)
    BY <1>3, <1>5 DEF Doomed
  <1>10. ASSUME ~Checker PROVE runs[r].status = "running"
    <2>1. bounds.crashes = 0
      BY <1>10 DEF Trusted
    <2>2. StreamOf(w) # NoStream /\ Bears(w)
      BY <1>1, <1>3, NotNone DEF Bears
    <2>3. PICK j \in Slots : j = worker[w].slot /\ Carries(j)
      BY <1>1, <2>2, Holds
    <2>4. runs[r].streams[s] # "done"
      <3>1. jobs[j].run = r /\ jobs[j].stream = s
        BY <1>1, <1>2, <1>3, <2>3, Busy DEF Has, StreamOf
      <3>. QED BY <2>1, <2>3, <3>1 DEF ChainInv, NotDone
    <2>. QED BY <2>1, <2>4 DEF ChainInv, RunsFit
  <1>11. runs[r].status = "running" => live[s] \subseteq seen[r][s] \cap index[s]
    BY <1>1, <1>2, <1>3 DEF Brings
  <1>12. f.doomed \cap live[s] = {}
    BY <1>6, <1>8, <1>9, <1>10, <1>11
  <1>13. index[s] \ live[s] \subseteq f.doomed
    BY <1>6, <1>8, <1>9
  <1>14. Brings(f, r, s, c)'
    BY <1>2, <1>3, <1>6, <1>7, <1>11, <1>12, <1>13 DEF Brings
  <1>15. Handy(w, r)'
    BY <1>1, <1>3, <1>4, <1>6, <1>14, Hands
  <1>16. \A v \in Workers \ {w} : worker'[v] = worker[v]
    <2>1. \E g : Step(w, g)
      BY DEF Reconcile
    <2>. QED BY <2>1, StepOf
  <1>17. JobsFrom /\ Leaves(r)
    BY <1>7, JobsWork DEF Leaves
  <1>. QED BY <1>15, <1>16, <1>17, CoversBeside

LEMMA CoversDelete ==
  ASSUME SyncInv, SyncInv', [Next]_vars, NEW r \in RunIds, Covers(r),
         NEW w \in Workers, DeleteDoomed(w)
  PROVE  Covers(r)'
PROOF
  <1>1. worker[w].pc \in PagePcs /\ worker[w].pc # "idle" /\ worker[w].pc = "delete"
    BY DEF DeleteDoomed, PagePcs
  <1>2. /\ worker[w] \in Local /\ worker[w].run = r
        /\ Brings(worker[w], r, StreamOf(w), CursorOf(w))
    BY <1>1, AtPage
  <1>3. PICK s \in Streams, c \in 0..setting.items : s = StreamOf(w) /\ c = CursorOf(w)
    BY <1>1, AtPage
  <1>4. PICK f : f = worker'[w]
    OBVIOUS
  <1>5. /\ f.pc = "done" /\ f.page = worker[w].page /\ f.doomed = {}
        /\ f.slot = worker[w].slot
    <2>1. f = [worker[w] EXCEPT !.pc = "done", !.doomed = {}]
      BY <1>4, StepOf DEF DeleteDoomed
    <2>. QED BY <1>2, <2>1 DEF Local
  <1>6. UNCHANGED <<runs, seen, jobs, live, setting>>
    BY DEF DeleteDoomed
  <1>7. worker[w].doomed \cap live[s] = {}
    BY <1>2, <1>3 DEF Brings
  <1>8. /\ index'[s] = index[s] \ worker[w].doomed
        /\ \A t \in Streams : t # s => index'[t] = index[t]
    BY <1>3 DEF DeleteDoomed, SyncInv, TypeOK
  <1>9. runs[r].status = "running" =>
          /\ live[s] \subseteq seen[r][s] \cap index[s]
          /\ index[s] \ live[s] \subseteq worker[w].doomed
    BY <1>1, <1>2, <1>3 DEF Brings
  <1>10. runs[r].status = "running" => /\ live[s] \subseteq seen[r][s] \cap index'[s]
                                       /\ index'[s] = live[s]
    BY <1>7, <1>8, <1>9
  <1>11. Brings(f, r, s, c)'
    BY <1>2, <1>3, <1>5, <1>6, <1>10 DEF Brings
  <1>12. Handy(w, r)'
    BY <1>1, <1>3, <1>4, <1>5, <1>11, Hands
  <1>13. \A v \in Workers \ {w} : worker'[v] = worker[v]
    BY StepOf DEF DeleteDoomed
  <1>14. Gains(r)
    BY <1>6, <1>7, <1>8 DEF Gains, Covers
  <1>15. JobsReach(r) /\ EndsFit(r)
    BY <1>6, JobsWork DEF JobsFrom, JobsReach, EndsFit
  <1>. QED BY <1>12, <1>13, <1>14, <1>15, CoverFrame

LEMMA CoversDone ==
  ASSUME SyncInv, SyncInv', [Next]_vars, NEW r \in RunIds, Covers(r),
         runs[r].status = "running" \/ Succeeds(r),
         NEW w \in Workers, StreamDone(w)
  PROVE  Covers(r)'
PROOF
  <1>1. worker[w].pc \in PagePcs /\ worker[w].pc # "idle" /\ worker[w].pc = "done"
    BY DEF StreamDone, PagePcs
  <1>2. /\ worker[w].run = r /\ Brings(worker[w], r, StreamOf(w), CursorOf(w))
    BY <1>1, AtPage
  <1>3. UNCHANGED <<index, seen, jobs, live, setting>>
    BY DEF StreamDone
  <1>4. /\ runs'[r].status = runs[r].status
        /\ \A s \in Streams : runs'[r].streams[s] = "done" =>
                                runs[r].streams[s] = "done" \/ s = StreamOf(w)
    <2>1. NoteAll(r, {StreamOf(w)}, "done")
      BY <1>2 DEF StreamDone, Note
    <2>. QED BY <2>1, NotedRuns
  <1>5. runs[r].status = "running" => index[StreamOf(w)] = live[StreamOf(w)]
    BY <1>1, <1>2 DEF Brings
  <1>6. EndsFit(r)
    BY <1>3, <1>4, <1>5 DEF EndsFit
  <1>7. worker'[w].pc = "finish" /\ \A v \in Workers \ {w} : worker'[v] = worker[v]
    BY PcAfter, StepOf DEF StreamDone
  <1>8. Handy(w, r)'
    BY <1>7 DEF Handy, PagePcs
  <1>9. Gains(r)
    BY <1>3, <1>4 DEF Gains, Covers
  <1>10. JobsReach(r)
    BY <1>3, JobsWork DEF JobsFrom, JobsReach
  <1>. QED BY <1>6, <1>7, <1>8, <1>9, <1>10, CoverFrame

(* A page is queued: the next one, or the first one of a stream.           *)
LEMMA CoversQueued ==
  ASSUME SyncInv, SyncInv', [Next]_vars, NEW r \in RunIds, Covers(r),
         Leaves(r), NEW s \in Streams, NEW c, Enqueue(Queued(r, s, c)),
         runs[r].status = "running" => Reached(r, s, c),
         \A w \in Workers : worker'[w] = worker[w] \/ Handy(w, r)'
  PROVE  Covers(r)'
PROOF
  <1>1. Gains(r)
    BY DEF Gains, Covers, Leaves
  <1>2. EndsFit(r)
    BY DEF EndsFit, Leaves
  <1>3. PICK k \in Slots : Opens(k, r, s, c)
    BY OpensOne
  <1>4. runs'[r].status = "running" => Reached(r, jobs[k].stream, jobs[k].cursor)'
    <2>1. ASSUME runs'[r].status = "running" PROVE Reached(r, s, c)'
      BY <1>1, <2>1, StillReached, SettingStays DEF Gains
    <2>. QED BY <1>3, <2>1 DEF Opens
  <1>5. JobsReach(r)
    BY <1>3, <1>4 DEF Opens, JobsReach, Live, SameJob
  <1>. QED BY <1>1, <1>2, <1>5, CoverFrame

LEMMA CoversNext ==
  ASSUME SyncInv, SyncInv', [Next]_vars, NEW r \in RunIds, Covers(r),
         NEW w \in Workers, NextPage(w)
  PROVE  Covers(r)'
PROOF
  <1>1. worker[w].pc \in PagePcs /\ worker[w].pc # "idle" /\ worker[w].pc = "next"
    BY DEF NextPage, PagePcs
  <1>2. /\ worker[w].run = r /\ Brings(worker[w], r, StreamOf(w), CursorOf(w))
    BY <1>1, AtPage
  <1>3. PICK s \in Streams : s = StreamOf(w)
    BY <1>1, AtPage
  <1>4. PICK d \in worker[w].next : Enqueue(Queued(r, s, d))
    BY <1>2, <1>3 DEF NextPage
  <1>5. runs[r].status = "running" => Reached(r, s, d)
    BY <1>1, <1>2, <1>3 DEF Brings
  <1>6. Leaves(r)
    BY DEF NextPage, Leaves
  <1>7. worker'[w].pc = "ended" /\ \A v \in Workers \ {w} : worker'[v] = worker[v]
    BY PcAfter, StepOf DEF NextPage
  <1>8. Handy(w, r)'
    BY <1>7 DEF Handy, PagePcs
  <1>. QED BY <1>4, <1>5, <1>6, <1>7, <1>8, CoversQueued

(* Two runs are not both the last.                                         *)
LEMMA OneLast ==
  ASSUME SyncInv, NEW q \in RunIds, NEW r \in RunIds, Last(q), Last(r)
  PROVE  q = r
PROOF
  <1>1. setting.runs \in Nat
    BY SettingType DEF SyncInv
  <1>. QED BY <1>1 DEF Last, RunIds

LEMMA CoversFanOut ==
  ASSUME SyncInv, SyncInv', [Next]_vars, OrderInv, NEW r \in RunIds, Covers(r), Last(r),
         NEW w \in Workers, NEW s \in Streams, FanOut(w, s)
  PROVE  Covers(r)'
PROOF
  <1>1. worker[w].run \in RunIds /\ Last(worker[w].run)
    BY Busy DEF FanOut, OrderInv, SyncFirst
  <1>2. worker[w].run = r
    BY <1>1, OneLast
  <1>3. Enqueue(Queued(r, s, 0)) /\ NoteAll(r, {s}, "running")
    BY <1>2 DEF FanOut
  <1>4. Reached(r, s, 0)
    <2>1. 0 \in 0..setting.items
      BY SettingType DEF SyncInv
    <2>2. live[s] \subseteq After(s, 0)
      BY <2>1, Listed
    <2>. QED BY <2>2 DEF Reached
  <1>5. Leaves(r)
    BY <1>3, NotedRuns DEF FanOut, Leaves
  <1>6. worker'[w].pc \in {"fanout", "state"} /\ \A v \in Workers \ {w} : worker'[v] = worker[v]
    <2>1. \E f : Step(w, f)
      BY DEF FanOut
    <2>. QED BY <2>1, PcAfter, StepOf
  <1>7. Handy(w, r)'
    BY <1>6 DEF Handy, PagePcs
  <1>. QED BY <1>3, <1>4, <1>5, <1>6, <1>7, CoversQueued

LEMMA CoversFinish ==
  ASSUME SyncInv, SyncInv', [Next]_vars, NEW r \in RunIds, Covers(r),
         NEW w \in Workers, ReadRun(w) \/ FinishRun(w)
  PROVE  Covers(r)'
PROOF
  <1>1. UNCHANGED <<index, jobs, live>>
    BY DEF ReadRun, FinishRun
  <1>2. Handy(w, r)' /\ \A v \in Workers \ {w} : worker'[v] = worker[v]
    <2>1. worker'[w].pc \in {"close", "outcome", "ended"} /\ \E f : Step(w, f)
      BY PcAfter DEF ReadRun, FinishRun
    <2>. QED BY <2>1, StepOf DEF Handy, PagePcs
  <1>3. Leaves(r)
    <2>1. CASE ReadRun(w)
      BY <2>1 DEF ReadRun, Leaves
    <2>2. CASE FinishRun(w)
      <3>1. PICK q \in RunIds : q = worker[w].run
        BY <2>2, Busy DEF FinishRun
      <3>2. worker[w].outcome \in Outcomes
        BY DEF SyncInv, TypeOK, Local
      <3>3. /\ runs'[q].status \in Outcomes \cup {"deleted"}
            /\ runs'[q].streams = runs[q].streams
            /\ \A p \in RunIds : p # q => runs'[p] = runs[p]
        BY <2>2, <3>1, <3>2 DEF FinishRun, SyncInv, TypeOK, Run
      <3>4. /\ \A s \in Streams : seen'[q][s] = {}
            /\ \A p \in RunIds : p # q => seen'[p] = seen[p]
        BY <2>2, <3>1 DEF FinishRun, SyncInv, TypeOK
      <3>. QED BY <1>1, <3>3, <3>4 DEF Leaves, Outcomes
    <2>. QED BY <2>1, <2>2
  <1>4. JobsFrom
    BY <1>1, JobsWork
  <1>. QED BY <1>2, <1>3, <1>4, CoversBeside

(* A run begins while no page of another is left.                          *)
LEMMA CoversOpening ==
  ASSUME SyncInv, SyncInv', [Next]_vars, OrderInv, NEW r \in RunIds, r \in exact',
         Covering(r)', NEW w \in Workers, Opening(w)
  PROVE  Covers(r)'
PROOF
  <1>0. Slots' = Slots /\ Streams' = Streams /\ setting' = setting /\ setting.runs \in Nat
    BY SettingStays, SameSetting, SettingType DEF SyncInv
  <1>1. PICK b \in RunIds : /\ runs[b].status = "none"
                            /\ runs' = [runs EXCEPT ![b].status = "running"]
                            /\ exact' = IF Underway THEN {} ELSE exact \cup {b}
    BY DEF Opening, StartRun
  <1>2. UNCHANGED <<jobs, seen, index, live>>
    BY DEF Opening, StartRun
  <1>3. /\ runs'[b].status = "running" /\ runs'[b].streams = runs[b].streams
        /\ \A q \in RunIds : q # b => runs'[q] = runs[q]
    BY <1>1 DEF SyncInv, TypeOK, Run
  <1>4. r = b
    <2>1. Last(r)' /\ runs'[r].status # "none"
      BY DEF Covering, Last
    <2>2. ~(b > r)
      <3>1. SUFFICES ASSUME b > r PROVE FALSE
        OBVIOUS
      <3>2. b \in (r + 1)..setting.runs
        BY <1>0, <3>1 DEF RunIds
      <3>. QED BY <1>0, <1>3, <2>1, <3>2 DEF Last
    <2>3. ~(b < r)
      <3>1. SUFFICES ASSUME b < r PROVE FALSE
        OBVIOUS
      <3>2. r \in b..setting.runs
        BY <1>0, <3>1 DEF RunIds
      <3>3. runs[r].status = "none" /\ r # b
        BY <1>0, <1>1, <3>1, <3>2 DEF OrderInv, Blank, RunIds
      <3>. QED BY <1>3, <2>1, <3>3
    <2>. QED BY <1>0, <2>2, <2>3 DEF RunIds
  <1>5. \A j \in Slots : ~(Live(j) /\ jobs[j].stream # NoStream)
    <2>1. ~Underway
      BY <1>1
    <2>. QED BY <2>1 DEF Underway, Live
  <1>6. \A j \in Slots : ~(Live(j)' /\ jobs'[j].stream # NoStream)
    BY <1>2, <1>5 DEF Live
  <1>7. \A s \in Streams : seen'[r][s] = {} /\ runs'[r].streams[s] = "none"
    BY <1>1, <1>2, <1>3, <1>4 DEF OrderInv, Blank
  <1>8. ASSUME NEW v \in Workers, worker'[v].pc \in PagePcs PROVE FALSE
    <2>1. v # w
      BY <1>8, PcAfter DEF PagePcs
    <2>2. worker'[v] = worker[v]
      <3>1. \E f : Step(w, f)
        BY DEF Opening, StartRun
      <3>. QED BY <2>1, <3>1, StepOf
    <2>3. worker[v].pc \in PagePcs /\ worker[v].pc # "idle"
      BY <1>8, <2>2 DEF PagePcs
    <2>4. Has(v)
      BY <2>3, Busy
    <2>5. worker[v].slot \in Slots /\ Live(worker[v].slot)
          /\ jobs[worker[v].slot].stream \in Streams
      BY <2>3, <2>4 DEF Has, Live
    <2>. QED BY <1>5, <2>5, NotNone
  <1>9. ~Succeeds(r)'
    <2>1. runs[r].status # "running"
      BY <1>1, <1>4
    <2>2. ASSUME NEW v \in Workers, Closes(v, r) PROVE FALSE
      BY <1>1, <1>4, <2>2, Busy DEF Closes
    <2>3. ~Succeeds(r)
      BY <1>1, <1>4, <2>2 DEF Succeeds
    <2>. QED BY <2>1, <2>3, SucceedsFrom DEF Finishes
  <1>. QED BY <1>0, <1>3, <1>4, <1>6, <1>7, <1>8, <1>9 DEF Covers

(* The operator, the source, a crash.                                      *)
LEMMA CoversElsewhere ==
  ASSUME SyncInv, SyncInv', [Next]_vars, NEW r \in RunIds, r \in exact', Covers(r),
         Covering(r)', Elsewhere \/ Crash
  PROVE  Covers(r)'
PROOF
  <1>1. ~RemoveRows
    <2>1. runs[r] \in Run
      BY DEF SyncInv, TypeOK
    <2>2. ASSUME RemoveRows PROVE runs'[r].status \in {"none", "deleted"}
      BY <2>1, <2>2 DEF RemoveRows, Run
    <2>. QED BY <2>2 DEF Covering, Last
  <1>2. ~RemoveDocuments
    <2>1. cli \in [pc: {"idle", "read", "purged"}, command: {"pause", "enable", "remove"},
                   row: Source]
      BY DEF SyncInv, TypeOK
    <2>. QED BY <2>1 DEF RemoveDocuments, Covering
  <1>3. \A s \in Streams, i \in Items : ~Change(s, i)
    BY DEF Change
  <1>4. UNCHANGED <<runs, seen, index, live>>
    BY <1>1, <1>2, <1>3 DEF Elsewhere, RequestSync, CliReads, Pause, Enable, Crash, Rest, vars
  <1>5. \A w \in Workers : worker'[w] = worker[w] \/ worker'[w] = Idle
    BY <1>1, <1>2, <1>3 DEF Elsewhere, RequestSync, CliReads, Pause, Enable, Crash, Rest, vars
  <1>6. \A w \in Workers : worker'[w] = worker[w] \/ Handy(w, r)'
    BY <1>5 DEF Idle, Handy, PagePcs
  <1>7. JobsFrom \/ Asking
    <2>1. CASE Crash
      <3>1. ASSUME NEW j \in Slots, Live(j)' PROVE Live(j) /\ SameJob(j)
        <4>1. jobs[j] \in Job
          BY DEF SyncInv, TypeOK
        <4>. QED BY <2>1, <3>1, <4>1 DEF Crash, Live, SameJob, Job
      <3>. QED BY <3>1 DEF JobsFrom
    <2>2. CASE jobs' = jobs
      BY <2>2 DEF JobsFrom, SameJob, Live
    <2>3. jobs' = jobs \/ Asking \/ Crash
      BY <1>1, <1>2, <1>3 DEF Elsewhere, RequestSync, CliReads, Pause, Enable, Rest, vars, Asking
    <2>. QED BY <2>1, <2>2, <2>3
  <1>8. Leaves(r)
    BY <1>4 DEF Leaves
  <1>. QED BY <1>6, <1>7, <1>8, CoversBeside

LEMMA Ways ==
  ASSUME [Next]_vars
  PROVE  \/ Elsewhere \/ Crash
         \/ \E w \in Workers :
              \/ Aside(w) \/ Opening(w) \/ ReadRun(w) \/ FinishRun(w) \/ NextPage(w)
              \/ \E s \in Streams : FanOut(w, s)
              \/ \E early \in BOOLEAN : Fetch(w, early)
              \/ IndexPage(w) \/ MarkSeen(w) \/ Reconcile(w) \/ DeleteDoomed(w) \/ StreamDone(w)
PROOF
  <1>1. ASSUME NEW w \in Workers, Handle(w)
        PROVE  \/ Aside(w) \/ Opening(w) \/ ReadRun(w) \/ FinishRun(w) \/ NextPage(w)
               \/ \E s \in Streams : FanOut(w, s)
               \/ \E early \in BOOLEAN : Fetch(w, early)
               \/ IndexPage(w) \/ MarkSeen(w) \/ Reconcile(w) \/ DeleteDoomed(w) \/ StreamDone(w)
    BY <1>1 DEF Handle, Aside
  <1>. QED BY <1>1 DEF Next, Elsewhere

(* exact only loses runs, but for the one that begins.                     *)
LEMMA ExactFrom ==
  ASSUME [Next]_vars, \A w \in Workers : ~Opening(w)
  PROVE  exact' \subseteq exact
PROOF
  <1>1. ASSUME NEW w \in Workers, Handle(w) PROVE exact' \subseteq exact
    <2>1. CASE StartRun(w) \/ Fetch(w, FALSE) \/ Fetch(w, TRUE) \/ Reconcile(w)
      BY <2>1 DEF StartRun, Opening, Fetch, Reconcile
    <2>2. CASE ~(StartRun(w) \/ Fetch(w, FALSE) \/ Fetch(w, TRUE) \/ Reconcile(w))
      BY <1>1, <2>2 DEF Handle, Claim, Settle, ToolsFit, ToolsFail, FanOut, GetSource,
         SaveSource, ReadRun, FinishRun, DenyNote, DenyCheck, BeginPage, IndexPage, MarkSeen,
         NextPage, DeleteDoomed, StreamDone, Postpone, Unauthorized, Unavailable, Refused
    <2>. QED BY <2>1, <2>2
  <1>. QED BY <1>1 DEF Next, RequestSync, CliReads, Pause, Enable, RemoveDocuments, RemoveRows,
                       Change, Crash, Rest, vars

LEMMA CoverNext == SyncInv /\ OrderInv /\ ChainInv /\ CoverInv /\ [Next]_vars => CoverInv'
PROOF
  <1> SUFFICES ASSUME SyncInv, OrderInv, ChainInv, CoverInv, [Next]_vars, Trusted',
                      NEW r \in exact', Covering(r)'
               PROVE  Covers(r)'
    BY DEF CoverInv
  <1>1. SyncInv' /\ setting' = setting
    BY Steps, SettingStays
  <1>2. r \in RunIds
    BY <1>1, SameSetting DEF SyncInv, TypeOK
  <1>3. Trusted
    BY <1>1, SameSetting, NoCrash DEF Trusted
  <1>4. ASSUME NEW w \in Workers, Opening(w) PROVE Covers(r)'
    BY <1>1, <1>2, <1>4, CoversOpening
  <1>5. CASE \A w \in Workers : ~Opening(w)
    <2>1. Unbegun
      BY <1>5, Begun
    <2>2. Covering(r) /\ (runs'[r].status = "running" => runs[r].status = "running")
      BY <1>2, <2>1, WasCovering
    <2>3. Last(r) /\ (runs[r].status = "running" \/ Succeeds(r))
      BY <2>2 DEF Covering
    <2>4. Covers(r)
      BY <1>3, <1>5, <2>2, ExactFrom DEF CoverInv
    <2>5. CASE Elsewhere \/ Crash
      BY <1>1, <1>2, <2>4, <2>5, CoversElsewhere
    <2>6. ASSUME NEW w \in Workers, Aside(w) PROVE Covers(r)'
      BY <1>1, <1>2, <2>4, <2>6, CoversAside
    <2>7. ASSUME NEW w \in Workers, ReadRun(w) \/ FinishRun(w) PROVE Covers(r)'
      BY <1>1, <1>2, <2>4, <2>7, CoversFinish
    <2>8. ASSUME NEW w \in Workers, NextPage(w) PROVE Covers(r)'
      BY <1>1, <1>2, <2>4, <2>8, CoversNext
    <2>9. ASSUME NEW w \in Workers, NEW s \in Streams, FanOut(w, s) PROVE Covers(r)'
      BY <1>1, <1>2, <2>3, <2>4, <2>9, CoversFanOut
    <2>10. ASSUME NEW w \in Workers, NEW early \in BOOLEAN, Fetch(w, early) PROVE Covers(r)'
      BY <1>1, <1>2, <2>4, <2>10, CoversFetch
    <2>11. ASSUME NEW w \in Workers, IndexPage(w) PROVE Covers(r)'
      BY <1>1, <1>2, <2>4, <2>11, CoversIndex
    <2>12. ASSUME NEW w \in Workers, MarkSeen(w) PROVE Covers(r)'
      BY <1>1, <1>2, <2>4, <2>12, CoversMark
    <2>13. ASSUME NEW w \in Workers, Reconcile(w) PROVE Covers(r)'
      BY <1>1, <1>2, <1>3, <2>3, <2>4, <2>13, CoversReconcile
    <2>14. ASSUME NEW w \in Workers, DeleteDoomed(w) PROVE Covers(r)'
      BY <1>1, <1>2, <2>4, <2>14, CoversDelete
    <2>15. ASSUME NEW w \in Workers, StreamDone(w) PROVE Covers(r)'
      BY <1>1, <1>2, <2>3, <2>4, <2>15, CoversDone
    <2>. QED BY <1>5, <2>5, <2>6, <2>7, <2>8, <2>9, <2>10, <2>11, <2>12, <2>13, <2>14, <2>15, Ways
  <1>. QED BY <1>4, <1>5

(* A run that succeeds, and that nothing came across, leaves the items of  *)
(* its source in the index and no others - if each item that is missing is *)
(* asked for, or the server never dies.  A server that dies has a page     *)
(* delivered again when its run is over, which without that question       *)
(* deletes what its run has forgotten that it saw.                         *)
THEOREM SourceCovered == Spec => []((Checker \/ bounds.crashes = 0) => CoversSource)
PROOF
  <1>1. Init => CoverInv
    BY DEF Init, CoverInv
  <1>2. SyncInv /\ CoverInv => ((Checker \/ bounds.crashes = 0) => CoversSource)
    <2> SUFFICES ASSUME SyncInv, CoverInv, Trusted, Quiet, NEW r \in exact, Last(r),
                        runs[r].status = "succeeded"
                 PROVE  index = live
      BY DEF CoversSource, Trusted
    <2>1. Covers(r)
      BY DEF CoverInv, Covering, Quiet, Succeeds
    <2>2. \A s \in Streams : index[s] = live[s]
      BY <2>1 DEF Covers, Succeeds
    <2>. QED BY <2>2 DEF SyncInv, TypeOK
  <1>3. Spec => [](SyncInv /\ ChainInv /\ OrderInv /\ CoverInv)
    BY <1>1, Beginning, Steps, ChainBegins, ChainNext, OrderBegins, OrderNext, CoverNext, PTL
       DEF Spec
  <1>. QED BY <1>2, <1>3, PTL

-----------------------------------------------------------------------------
(* What a run comes to for good.                                           *)

(* A page that waits, or that a worker may still go on with.               *)
Pursues(w) == worker[w].pc \in PagePcs \/ Retries(w)
Proceeds(j) ==
  /\ jobs[j].stream # NoStream
  /\ \/ jobs[j].status = "pending"
     \/ \E w \in Workers : worker[w].pc # "idle" /\ worker[w].slot = j /\ Pursues(w)

Undenied == \A w \in Workers : Denies(w) => "unauthorized" \in setting.failures

(* A page proceeds because it did, or because it has just been queued.     *)
LEMMA Pursuing ==
  ASSUME Chain, SyncInv', [Next]_vars, ~Crash, NEW v \in Workers,
         StreamOf(v) # NoStream, worker'[v].pc # "idle", worker[v].pc # "idle",
         worker'[v].slot = worker[v].slot, Pursues(v)'
  PROVE  Pursues(v)
PROOF
  <1>1. JobFits(v)
    BY DEF Chain, ChainInv
  <1>2. worker[v].pc \notin {"sync", "tools", "fanout"}
    BY <1>1 DEF JobFits
  <1>3. ASSUME NEW w \in Workers, Goings(w) PROVE Pursues(v)
    <2>1. Goes(w) /\ jobs' = jobs
      BY <1>3, GoingsGo
    <2>2. CASE v # w
      <3>1. worker'[v] = worker[v]
        BY <2>1, <2>2 DEF Goes
      <3>. QED BY <2>1, <3>1 DEF Pursues, Retries, GivesUp
    <2>3. CASE v = w
      <3>1. GivesUp(v)' <=> GivesUp(v)
        BY <2>1, <2>3 DEF Goes, GivesUp
      <3>. QED BY <1>2, <2>1, <2>3, <3>1 DEF Goes, Pursues, Retries, CallPcs, PagePcs
    <2>. QED BY <2>2, <2>3
  <1>4. ASSUME worker'[v] = worker[v], jobs'[worker[v].slot] = jobs[worker[v].slot]
        PROVE  Pursues(v)
    BY <1>4 DEF Pursues, Retries, GivesUp
  <1>5. ASSUME NEW w \in Workers,
               \/ StartRun(w) /\ source.present /\ source.enabled
               \/ \E s \in Streams : FanOut(w, s)
               \/ NextPage(w)
               \/ \E j \in Slots : Claim(w, j)
               \/ Settle(w) \/ Postpone(w),
               v = w
        PROVE  Pursues(v)
    <2>1. ~Settle(w) /\ ~Postpone(w) /\ \A j \in Slots : ~Claim(w, j)
      BY <1>5, PcAfter DEF Claim, Chain
    <2>2. NextPage(w)
      BY <1>2, <1>5, <2>1 DEF StartRun, FanOut
    <2>. QED BY <1>5, <2>2 DEF NextPage, Pursues, PagePcs
  <1>6. ASSUME NEW w \in Workers, w # v,
               \/ StartRun(w) /\ source.present /\ source.enabled
               \/ \E s \in Streams : FanOut(w, s)
               \/ NextPage(w)
               \/ \E j \in Slots : Claim(w, j)
               \/ Settle(w) \/ Postpone(w)
        PROVE  Pursues(v)
    <2>1. \E f : Step(w, f)
      BY <1>6 DEF StartRun, FanOut, NextPage, Claim, Settle, Postpone
    <2>2. worker'[v] = worker[v]
      BY <1>6, <2>1, StepOf DEF Chain
    <2>3. /\ worker[v].slot \in Slots /\ jobs[worker[v].slot].status = "running"
          /\ worker[w].pc # "idle" => worker[w].slot # worker[v].slot
          /\ jobs[worker[v].slot] \in Job
      BY <1>6, Busy DEF Has, Chain
    <2>4. CASE \E s \in Streams : FanOut(w, s) \/ NextPage(w)
      <3>1. PICK r, s, c : Enqueue(Queued(r, s, c))
        BY <2>4 DEF FanOut, NextPage
      <3>2. PICK k \in Slots : Opens(k, r, s, c)
        BY <3>1, OpensOne DEF Chain
      <3>3. jobs'[worker[v].slot] = jobs[worker[v].slot]
        BY <2>3, <3>2 DEF Opens, Live
      <3>. QED BY <1>4, <2>2, <3>3
    <2>5. CASE StartRun(w)
      BY <1>4, <2>2, <2>5 DEF StartRun
    <2>6. ASSUME NEW j \in Slots, Claim(w, j) PROVE Pursues(v)
      <3>1. j # worker[v].slot
        BY <2>3, <2>6 DEF Claim
      <3>2. jobs'[worker[v].slot] = jobs[worker[v].slot]
        BY <2>3, <2>6, <3>1 DEF Claim, Chain, SyncInv, TypeOK
      <3>. QED BY <1>4, <2>2, <3>2
    <2>7. CASE Settle(w) \/ Postpone(w)
      <3>1. worker[w].pc # "idle"
        BY <2>7 DEF Settle, Postpone, Calling
      <3>2. jobs'[worker[v].slot] = jobs[worker[v].slot]
        BY <2>3, <2>7, <3>1 DEF Settle, Postpone, Chain, SyncInv, TypeOK
      <3>. QED BY <1>4, <2>2, <3>2
    <2>8. NextPage(w) => \E s \in Streams : FanOut(w, s) \/ NextPage(w)
      BY SyncAssumption DEF Chain, SyncInv, Streams
    <2>. QED BY <1>6, <2>4, <2>5, <2>6, <2>7, <2>8
  <1>7. CASE Elsewhere
    <2>1. worker' = worker
      BY <1>7 DEF Elsewhere, RequestSync, Pause, Enable, RemoveDocuments, RemoveRows, Rest, vars,
         CliReads, Change
    <2>2. PICK i \in Slots : i = worker[v].slot /\ jobs[i].status = "running"
      BY Busy DEF Has, Chain
    <2>3. jobs' = jobs \/ Enqueue(Queued(0, NoStream, 0))
      BY <1>7 DEF Elsewhere, RequestSync, Pause, Enable, RemoveDocuments, RemoveRows, Rest, vars,
         CliReads, Change
    <2>4. jobs'[i] = jobs[i]
      <3>1. ASSUME Enqueue(Queued(0, NoStream, 0)) PROVE jobs'[i] = jobs[i]
        <4>1. PICK k \in Slots : Opens(k, 0, NoStream, 0)
          BY <3>1, OpensOne DEF Chain
        <4>. QED BY <2>2, <4>1 DEF Opens, Live
      <3>. QED BY <2>3, <3>1
    <2>. QED BY <1>4, <2>1, <2>2, <2>4
  <1>. QED BY <1>3, <1>5, <1>6, <1>7, Branches

LEMMA Pursued ==
  ASSUME SyncInv, NEW w \in Workers, worker[w].pc \in PagePcs
  PROVE  /\ worker[w].slot \in Slots /\ Proceeds(worker[w].slot) /\ Live(worker[w].slot)
         /\ jobs[worker[w].slot].run = worker[w].run /\ StreamOf(w) \in Streams
         /\ worker[w].run \in RunIds
PROOF
  <1>1. worker[w].pc \notin {"idle", "sync", "ended"}
    BY DEF PagePcs
  <1>2. Has(w) /\ StreamOf(w) \in Streams /\ worker[w].run \in RunIds
    BY <1>1, Busy
  <1>. QED BY <1>1, <1>2, NotNone DEF Has, Proceeds, Pursues, StreamOf, Live

LEMMA Proceeding ==
  ASSUME SyncInv, NEW j \in Slots, Proceeds(j)
  PROVE  Carries(j) /\ Live(j)
PROOF
  <1>1. Carries(j)
    BY DEF Proceeds, Carries, Pursues, Bears
  <1>. QED BY <1>1, Carried

LEMMA SlotStays ==
  ASSUME Chain, SyncInv', [Next]_vars, ~Crash, NEW v \in Workers, worker'[v].pc # "idle"
  PROVE  \/ worker[v].pc # "idle" /\ worker'[v].slot = worker[v].slot
         \/ \E i \in Slots : Claim(v, i) /\ worker'[v].slot = i
PROOF
  <1>1. ASSUME worker'[v] = worker[v]
        PROVE  worker[v].pc # "idle" /\ worker'[v].slot = worker[v].slot
    BY <1>1
  <1>2. ASSUME NEW w \in Workers, Goings(w)
        PROVE  worker[v].pc # "idle" /\ worker'[v].slot = worker[v].slot
    <2>1. Goes(w)
      BY <1>2, GoingsGo
    <2>. QED BY <2>1 DEF Goes
  <1>3. ASSUME NEW w \in Workers,
               \/ StartRun(w) /\ source.present /\ source.enabled
               \/ \E s \in Streams : FanOut(w, s)
               \/ NextPage(w)
        PROVE  worker[v].pc # "idle" /\ worker'[v].slot = worker[v].slot
    <2>1. PICK f : Step(w, f)
      BY <1>3 DEF StartRun, FanOut, NextPage
    <2>2. worker[w].pc # "idle" /\ worker[w] \in Local
      BY <1>3 DEF StartRun, FanOut, NextPage, Chain, SyncInv, TypeOK
    <2>3. worker'[w].slot = worker[w].slot
      <3>1. CASE StartRun(w) /\ source.present /\ source.enabled
        <4>1. PICK q \in RunIds : worker'[w] = [worker[w] EXCEPT !.pc = "tools", !.run = q]
          BY <3>1, StepOf DEF StartRun, Chain
        <4>. QED BY <2>2, <4>1 DEF Local
      <3>2. ASSUME NEW s \in Streams, FanOut(w, s) PROVE worker'[w].slot = worker[w].slot
        <4>1. worker'[w] = [worker[w] EXCEPT !.todo = worker[w].todo \ {s}]
              \/ worker'[w] = [worker[w] EXCEPT !.pc = "state", !.todo = {}, !.to = "active"]
          BY <3>2, StepOf DEF FanOut, Chain
        <4>. QED BY <2>2, <4>1 DEF Local
      <3>3. CASE NextPage(w)
        <4>1. worker'[w] = [worker[w] EXCEPT !.pc = "ended", !.next = {}]
          BY <3>3, StepOf DEF NextPage, Chain
        <4>. QED BY <2>2, <4>1 DEF Local
      <3>. QED BY <1>3, <3>1, <3>2, <3>3
    <2>4. \A u \in Workers \ {w} : worker'[u] = worker[u]
      BY <2>1, StepOf DEF Chain
    <2>. QED BY <1>1, <2>2, <2>3, <2>4
  <1>4. ASSUME NEW w \in Workers, Settle(w) \/ Postpone(w)
        PROVE  worker[v].pc # "idle" /\ worker'[v].slot = worker[v].slot
    <2>1. worker'[w].pc = "idle" /\ \E f : Step(w, f)
      BY <1>4, PcAfter DEF Settle, Postpone, Chain
    <2>. QED BY <1>1, <2>1, StepOf DEF Chain
  <1>5. ASSUME NEW w \in Workers, NEW i \in Slots, Claim(w, i)
        PROVE  \/ worker[v].pc # "idle" /\ worker'[v].slot = worker[v].slot
               \/ Claim(v, i) /\ worker'[v].slot = i
    <2>1. /\ worker'[w] = [Idle EXCEPT !.pc = IF jobs[i].stream = NoStream THEN "sync" ELSE "page",
                                       !.slot = i, !.run = jobs[i].run]
          /\ \A u \in Workers \ {w} : worker'[u] = worker[u]
      BY <1>5, StepOf DEF Claim, Chain
    <2>2. worker'[w].slot = i
      BY <2>1 DEF Idle
    <2>. QED BY <1>1, <1>5, <2>1, <2>2
  <1>6. CASE Elsewhere
    <2>1. worker' = worker
      BY <1>6 DEF Elsewhere, RequestSync, Pause, Enable, RemoveDocuments, RemoveRows, Rest, vars,
         CliReads, Change
    <2>. QED BY <1>1, <2>1
  <1>. QED BY <1>2, <1>3, <1>4, <1>5, <1>6, Branches

LEMMA ProceedsFrom ==
  ASSUME Chain, SyncInv', [Next]_vars, ~Crash, NEW j \in Slots, Proceeds(j)'
  PROVE  \/ Proceeds(j) /\ SameJob(j)
         \/ \E w \in Workers, s \in Streams : FanOut(w, s) /\ Opens(j, worker[w].run, s, 0)
         \/ \E w \in Workers : /\ NextPage(w)
                               /\ \E c \in worker[w].next : Opens(j, worker[w].run, StreamOf(w), c)
PROOF
  <1>1. Live(j)'
    <2>1. ASSUME NEW w \in Workers, worker'[w].pc # "idle", worker'[w].slot = j
          PROVE  jobs'[j].status = "running"
      BY <2>1 DEF SyncInv, WorkersOK, Has
    <2>. QED BY <2>1 DEF Proceeds, Live
  <1>2. ASSUME NEW r, NEW s, NEW c, Enqueue(Queued(r, s, c))
        PROVE  (Live(j) /\ SameJob(j)) \/ Opens(j, r, s, c)
    <2>1. PICK k \in Slots : Opens(k, r, s, c)
      BY <1>2, OpensOne DEF Chain
    <2>. QED BY <1>1, <2>1 DEF Opens, Live, SameJob
  <1>3. ASSUME Live(j), SameJob(j) PROVE Proceeds(j)
    <2>1. jobs[j].stream # NoStream
      BY <1>3 DEF SameJob, Proceeds
    <2>2. SUFFICES ASSUME jobs[j].status = "running"
                   PROVE  \E w \in Workers : worker[w].pc # "idle" /\ worker[w].slot = j /\ Pursues(w)
      BY <1>3, <2>1 DEF Live, Proceeds
    <2>3. CASE jobs'[j].status = "pending"
      <3>1. PICK w \in Workers : Settle(w) \/ Postpone(w) \/ \E i \in Slots : Claim(w, i)
        <4>1. \/ jobs' = jobs \/ \E r, s, c : Enqueue(Queued(r, s, c))
              \/ \E w \in Workers : Settle(w) \/ Postpone(w) \/ \E i \in Slots : Claim(w, i)
          BY Branches DEF Elsewhere, Goings, RequestSync, Pause, Enable, RemoveDocuments,
             RemoveRows, Rest, vars, CliReads, Change, StartRun, ToolsFit, ToolsFail, GetSource,
             SaveSource, ReadRun, FinishRun, DenyNote, DenyCheck, BeginPage, Fetch, IndexPage, MarkSeen,
             Reconcile, DeleteDoomed, StreamDone, Unauthorized, Unavailable, Refused, FanOut,
             NextPage
        <4>2. jobs' # jobs
          BY <2>2, <2>3
        <4>3. ASSUME NEW r, NEW s, NEW c, Enqueue(Queued(r, s, c)) PROVE FALSE
          <5>1. PICK k \in Slots : Opens(k, r, s, c)
            BY <4>3, OpensOne DEF Chain
          <5>. QED BY <2>2, <2>3, <5>1 DEF Opens, Live
        <4>. QED BY <4>1, <4>2, <4>3
      <3>2. ASSUME NEW i \in Slots, Claim(w, i) PROVE FALSE
        <4>1. jobs'[j].status = IF i = j THEN "running" ELSE jobs[j].status
          BY <3>2 DEF Claim, Chain, SyncInv, TypeOK, Job
        <4>. QED BY <2>2, <2>3, <4>1
      <3>3. worker[w].pc # "idle" /\ worker[w].slot \in Slots
        BY <3>1, <3>2, Busy DEF Settle, Postpone, Calling, Chain
      <3>4. worker[w].slot = j
        BY <2>2, <2>3, <3>1, <3>2, <3>3 DEF Settle, Postpone, Chain, SyncInv, TypeOK
      <3>5. CASE Postpone(w)
        BY <3>3, <3>4, <3>5 DEF Postpone, Calling, Pursues, PagePcs
      <3>6. CASE Settle(w)
        <4>1. jobs'[j] = IF worker[w].ok THEN FreeSlot
                         ELSE IF jobs[j].attempts >= MaxAttempts THEN [jobs[j] EXCEPT !.status = "dead"]
                         ELSE [jobs[j] EXCEPT !.status = "pending"]
          BY <3>4, <3>6 DEF Settle, Chain, SyncInv, TypeOK
        <4>2. jobs[j] \in Job
          BY DEF Chain, SyncInv, TypeOK
        <4>3. ~worker[w].ok /\ ~GivesUp(w)
          BY <2>3, <3>4, <4>1, <4>2 DEF FreeSlot, Job, GivesUp
        <4>. QED BY <3>3, <3>4, <3>6, <4>3 DEF Settle, Pursues, Retries
      <3>. QED BY <3>1, <3>2, <3>5, <3>6
    <2>4. CASE jobs'[j].status # "pending"
      <3>1. PICK v \in Workers : worker'[v].pc # "idle" /\ worker'[v].slot = j /\ Pursues(v)'
        BY <2>4 DEF Proceeds
      <3>2. worker[v].pc # "idle" /\ worker[v].slot = j
        BY <2>2, <3>1, SlotStays DEF Claim
      <3>3. StreamOf(v) # NoStream
        BY <2>1, <3>2 DEF StreamOf
      <3>. QED BY <3>1, <3>2, <3>3, Pursuing
    <2>. QED BY <2>3, <2>4
  <1>4. CASE JobsFrom
    BY <1>1, <1>3, <1>4 DEF JobsFrom
  <1>5. CASE Asking
    <2>1. ~Opens(j, 0, NoStream, 0)
      BY DEF Opens, Proceeds
    <2>. QED BY <1>2, <1>3, <1>5, <2>1 DEF Asking
  <1>7. ASSUME NEW w \in Workers, NextPage(w)
        PROVE  \/ Proceeds(j) /\ SameJob(j)
               \/ \E c \in worker[w].next : Opens(j, worker[w].run, StreamOf(w), c)
    BY <1>2, <1>3, <1>7 DEF NextPage
  <1>6. ASSUME NEW w \in Workers, NEW s \in Streams, FanOut(w, s)
        PROVE  (Proceeds(j) /\ SameJob(j)) \/ Opens(j, worker[w].run, s, 0)
    BY <1>2, <1>3, <1>6 DEF FanOut
  <1>. QED BY <1>4, <1>5, <1>7, <1>6, JobsStep DEF Chain

-----------------------------------------------------------------------------
(* What writes a stream's outcome.                                         *)
Abandons(w) ==
  /\ BeginPage(w) \/ Unavailable(w) \/ Refused(w)
  /\ NoteAll(worker[w].run, {StreamOf(w)}, "failed")

LEMMA StreamsNoted ==
  ASSUME Chain, SyncInv', [Next]_vars, ~Crash, NEW r \in RunIds, runs'[r].streams # runs[r].streams
  PROVE  \E w \in Workers : \/ Abandons(w) \/ DenyNote(w) \/ StreamDone(w)
                            \/ \E t \in Streams : FanOut(w, t)
PROOF
  <1>1. ASSUME NEW q \in RunIds, NEW x, runs' = [runs EXCEPT ![q].status = x] PROVE FALSE
    <2>1. \A p \in RunIds : runs'[p].streams = runs[p].streams
      BY <1>1 DEF Chain, SyncInv, TypeOK, Run
    <2>. QED BY <2>1
  <1>2. ASSUME NEW w \in Workers, NEW f \in setting.failures, ToolsFail(w, f) PROVE FALSE
    <2>1. PICK q \in RunIds : q = worker[w].run
      BY <1>2, Busy DEF ToolsFail, Chain
    <2>2. CASE runs' = [runs EXCEPT ![q].status = IF @ = "deleted" THEN @ ELSE "failed"]
      <3>1. PICK x : x = IF runs[q].status = "deleted" THEN runs[q].status ELSE "failed"
        OBVIOUS
      <3>2. runs' = [runs EXCEPT ![q].status = x]
        BY <2>2, <3>1
      <3>. QED BY <1>1, <3>2
    <2>. QED BY <1>2, <2>1, <2>2 DEF ToolsFail
  <1>3. ASSUME NEW w \in Workers, FinishRun(w) PROVE FALSE
    <2>1. PICK q \in RunIds : q = worker[w].run
      BY <1>3, Busy DEF FinishRun, Chain
    <2>2. PICK x : x = IF runs[q].status = "deleted" THEN runs[q].status ELSE worker[w].outcome
      OBVIOUS
    <2>3. runs' = [runs EXCEPT ![q].status = x]
      BY <1>3, <2>1, <2>2 DEF FinishRun
    <2>. QED BY <1>1, <2>3
  <1>4. ASSUME NEW w \in Workers, StartRun(w) PROVE FALSE
    <2>1. \/ runs' = runs \/ \E q \in RunIds : runs' = [runs EXCEPT ![q].status = "running"]
      BY <1>4 DEF StartRun
    <2>. QED BY <1>1, <2>1
  <1>5. ~Elsewhere
    <2>1. RemoveRows => \A q \in RunIds : runs'[q].streams = runs[q].streams
      BY DEF RemoveRows, Chain, SyncInv, TypeOK, Run
    <2>. QED BY <2>1 DEF Elsewhere, RequestSync, Pause, Enable, RemoveDocuments, Rest, vars,
                         CliReads, Change
  <1>6. ASSUME NEW w \in Workers, BeginPage(w) \/ Unavailable(w) \/ Refused(w) PROVE Abandons(w)
    BY <1>6 DEF BeginPage, Unavailable, Refused, Note, Abandons
  <1>7. runs' # runs
    OBVIOUS
  <1>. QED BY <1>2, <1>3, <1>4, <1>5, <1>6, <1>7, Branches
           DEF Goings, ToolsFit, GetSource, SaveSource, ReadRun, DenyCheck, Fetch, IndexPage,
               MarkSeen, Reconcile, DeleteDoomed, Unauthorized, NextPage, Claim, Settle, Postpone

(* Who fails a stream leaves it.                                           *)
LEMMA FailsOwn ==
  ASSUME Chain, SyncInv', [Next]_vars, ~Crash, NEW r \in RunIds, NEW s \in Streams,
         runs'[r].streams[s] = "failed", runs[r].streams[s] # "failed"
  PROVE  \E w \in Workers : /\ Notes(w, r, s) /\ worker[w].pc # "fanout"
                            /\ worker'[w].pc # "idle" /\ ~Pursues(w)'
                            /\ worker'[w].slot = worker[w].slot /\ jobs' = jobs
PROOF
  <1>1. ASSUME NEW q \in RunIds, NEW S, NEW outcome, NoteAll(q, S, outcome)
        PROVE  outcome = "failed" /\ q = r /\ s \in S
    BY <1>1, NotedRuns DEF Chain
  <1>2. ASSUME NEW w \in Workers, Goings(w), worker[w].pc # "fanout", Notes(w, r, s), ~Pursues(w)'
        PROVE  \E v \in Workers : /\ Notes(v, r, s) /\ worker[v].pc # "fanout"
                                  /\ worker'[v].pc # "idle" /\ ~Pursues(v)'
                                  /\ worker'[v].slot = worker[v].slot /\ jobs' = jobs
    BY <1>2, GoingsGo DEF Goes
  <1>3. ASSUME NEW w \in Workers, Abandons(w)
        PROVE  worker[w].pc # "fanout" /\ Notes(w, r, s) /\ ~Pursues(w)'
    <2>1. worker[w].pc \in PagePcs /\ worker[w] \in Local
      BY <1>3 DEF Abandons, BeginPage, Unavailable, Refused, Calling, PagePcs, Chain, SyncInv, TypeOK
    <2>2. PICK q \in RunIds : q = worker[w].run
      BY <2>1, Pursued DEF Chain
    <2>3. q = r /\ s \in {StreamOf(w)}
      BY <1>1, <1>3, <2>2 DEF Abandons
    <2>4. CASE BeginPage(w)
      <3>1. runs' # runs
        OBVIOUS
      <3>2. worker'[w] = Ended(w, TRUE)
        BY <2>4, <3>1, StepOf DEF BeginPage, Chain
      <3>3. worker'[w].pc = "ended" /\ worker'[w].ok
        BY <2>1, <3>2 DEF Ended, Local
      <3>. QED BY <2>1, <2>2, <2>3, <3>3 DEF Notes, Pursues, PagePcs, Retries
    <2>5. CASE Unavailable(w) \/ Refused(w)
      <3>1. Unavailable(w) => GivesUp(w)
        <4>1. runs' # runs
          OBVIOUS
        <4>. QED BY <4>1 DEF Unavailable
      <3>2. worker'[w].pc = "finish"
        <4>1. \/ worker'[w] = [Idle EXCEPT !.pc = "finish", !.ok = FALSE, !.slot = worker[w].slot,
                                           !.run = worker[w].run]
              \/ worker'[w] = [Idle EXCEPT !.pc = "finish", !.slot = worker[w].slot,
                                           !.run = worker[w].run]
          BY <2>5, <3>1, StepOf DEF Unavailable, Refused, Chain
        <4>. QED BY <4>1 DEF Idle
      <3>. QED BY <2>1, <2>2, <2>3, <3>2 DEF Notes, Pursues, PagePcs, Retries
    <2>. QED BY <1>3, <2>4, <2>5 DEF Abandons
  <1>4. ASSUME NEW w \in Workers, DenyNote(w)
        PROVE  worker[w].pc # "fanout" /\ Notes(w, r, s) /\ ~Pursues(w)'
    <2>1. worker[w].pc = "deny" /\ NoteAll(worker[w].run, worker[w].failing, "failed")
      BY <1>4 DEF DenyNote
    <2>2. PICK q \in RunIds : q = worker[w].run
      BY <2>1, Busy DEF Chain
    <2>3. q = r
      BY <1>1, <2>1, <2>2
    <2>4. worker'[w].pc = "deny"
      BY <1>4, PcAfter DEF Chain
    <2>. QED BY <2>1, <2>2, <2>3, <2>4 DEF Notes, Pursues, PagePcs, Retries
  <1>5. ASSUME NEW w \in Workers, StreamDone(w) PROVE FALSE
    <2>1. PICK q \in RunIds : q = worker[w].run
      BY <1>5, Busy DEF StreamDone, Chain
    <2>. QED BY <1>1, <1>5, <2>1 DEF StreamDone, Note
  <1>6. ASSUME NEW w \in Workers, NEW t \in Streams, FanOut(w, t) PROVE FALSE
    <2>1. PICK q \in RunIds : q = worker[w].run
      BY <1>6, Busy DEF FanOut, Chain
    <2>. QED BY <1>1, <1>6, <2>1 DEF FanOut
  <1>7. runs'[r].streams # runs[r].streams
    OBVIOUS
  <1>8. PICK w \in Workers : Abandons(w) \/ DenyNote(w)
    BY <1>5, <1>6, <1>7, StreamsNoted
  <1>. QED BY <1>2, <1>3, <1>4, <1>8 DEF Abandons, Goings

(* A stream that has failed is noted anew by its own page, or by a sync    *)
(* that comes to it.                                                       *)
LEMMA Unfails ==
  ASSUME Chain, SyncInv', [Next]_vars, ~Crash, NEW r \in RunIds, NEW s \in Streams,
         runs'[r].streams[s] # "failed", runs[r].streams[s] = "failed"
  PROVE  \E w \in Workers : /\ worker[w].run = r
                            /\ \/ worker[w].pc \in PagePcs /\ StreamOf(w) = s
                               \/ worker[w].pc = "fanout" /\ s \in worker[w].todo
PROOF
  <1>1. ASSUME NEW q \in RunIds, NEW S, NEW outcome, NoteAll(q, S, outcome)
        PROVE  outcome # "failed" /\ q = r /\ s \in S
    BY <1>1, NotedRuns DEF Chain
  <1>2. ASSUME NEW w \in Workers, Abandons(w) PROVE FALSE
    <2>1. PICK q \in RunIds : q = worker[w].run
      BY <1>2, Busy DEF Abandons, BeginPage, Unavailable, Refused, Calling, Chain
    <2>. QED BY <1>1, <1>2, <2>1 DEF Abandons
  <1>3. ASSUME NEW w \in Workers, DenyNote(w) PROVE FALSE
    <2>1. PICK q \in RunIds : q = worker[w].run
      BY <1>3, Busy DEF DenyNote, Chain
    <2>. QED BY <1>1, <1>3, <2>1 DEF DenyNote
  <1>4. ASSUME NEW w \in Workers, StreamDone(w)
        PROVE  worker[w].run = r /\ worker[w].pc \in PagePcs /\ StreamOf(w) = s
    <2>1. PICK q \in RunIds : q = worker[w].run
      BY <1>4, Busy DEF StreamDone, Chain
    <2>. QED BY <1>1, <1>4, <2>1 DEF StreamDone, Note, PagePcs
  <1>5. ASSUME NEW w \in Workers, NEW t \in Streams, FanOut(w, t)
        PROVE  worker[w].run = r /\ worker[w].pc = "fanout" /\ s \in worker[w].todo
    <2>1. PICK q \in RunIds : q = worker[w].run
      BY <1>5, Busy DEF FanOut, Chain
    <2>2. q = r /\ s \in {t}
      BY <1>1, <1>5, <2>1 DEF FanOut
    <2>. QED BY <1>5, <2>1, <2>2 DEF FanOut
  <1>6. runs'[r].streams # runs[r].streams
    OBVIOUS
  <1>. QED BY <1>2, <1>3, <1>4, <1>5, <1>6, StreamsNoted

-----------------------------------------------------------------------------
LEMMA DenialStays ==
  ASSUME Chain, Undenied, [Next]_vars, ~Crash
  PROVE  Undenied'
PROOF
  <1>1. setting' = setting /\ SyncInv'
    BY SettingStays, Steps DEF Chain
  <1>2. SUFFICES ASSUME NEW v \in Workers, Denies(v)', "unauthorized" \notin setting.failures
                 PROVE  FALSE
    BY <1>1 DEF Undenied
  <1>3. ~Denies(v)
    BY <1>2 DEF Undenied
  <1>4. worker'[v] # worker[v]
    BY <1>2, <1>3 DEF Denies
  <1>5. worker'[v].pc \in {"deny", "state", "save"}
    BY <1>2 DEF Denies
  <1>6. ASSUME NEW w \in Workers, Goings(w) PROVE FALSE
    <2>1. Goes(w)
      BY <1>1, <1>6, GoingsGo
    <2>2. v = w /\ worker[w].pc \in {"tools"} \cup CallPcs
      BY <1>2, <1>3, <1>4, <2>1 DEF Goes
    <2>3. ToolsFit(w) \/ Fetch(w, FALSE) \/ Fetch(w, TRUE) \/ MarkSeen(w) \/ Reconcile(w)
          \/ Unavailable(w) \/ Refused(w) \/ \E f \in setting.failures : ToolsFail(w, f)
      BY <1>2, <1>6, <2>2 DEF Goings, CallPcs, StartRun, GetSource, SaveSource, ReadRun, FinishRun,
         AllDenied, DenyNote, DenyCheck, BeginPage, IndexPage, DeleteDoomed, StreamDone, Unauthorized
    <2>4. PICK f \in setting.failures : ToolsFail(w, f)
      BY <1>5, <2>2, <2>3, PcAfter DEF Chain
    <2>5. f # "unauthorized"
      BY <1>2
    <2>6. worker'[w] = [worker[w] EXCEPT !.pc = "state", !.to = "error"]
          \/ worker'[w] = Ended(w, FALSE)
      BY <2>4, <2>5, StepOf DEF ToolsFail, Chain
    <2>7. worker[w] \in Local
      BY DEF Chain, SyncInv, TypeOK
    <2>8. worker'[w].pc = "ended" \/ (worker'[w].pc = "state" /\ worker'[w].to = "error")
      BY <2>6, <2>7 DEF Ended, Local
    <2>. QED BY <1>2, <2>2, <2>8 DEF Denies
  <1>7. ASSUME NEW w \in Workers, NEW s \in Streams, FanOut(w, s) PROVE FALSE
    <2>1. v = w
      BY <1>4, <1>7, StepOf DEF FanOut, Chain
    <2>2. worker[w] \in Local
      BY DEF Chain, SyncInv, TypeOK
    <2>3. worker'[w] = [worker[w] EXCEPT !.todo = worker[w].todo \ {s}]
          \/ worker'[w] = [worker[w] EXCEPT !.pc = "state", !.todo = {}, !.to = "active"]
      BY <1>7, StepOf DEF FanOut, Chain
    <2>4. worker'[w].pc = "fanout" \/ (worker'[w].pc = "state" /\ worker'[w].to = "active")
      BY <1>7, <2>2, <2>3 DEF Local, FanOut
    <2>. QED BY <1>2, <2>1, <2>4 DEF Denies
  <1>8. ASSUME NEW w \in Workers,
               \/ StartRun(w) /\ source.present /\ source.enabled
               \/ NextPage(w) \/ (\E j \in Slots : Claim(w, j)) \/ Settle(w) \/ Postpone(w)
        PROVE  FALSE
    <2>1. \E f : Step(w, f)
      BY <1>8 DEF StartRun, NextPage, Claim, Settle, Postpone
    <2>2. v = w
      BY <1>4, <2>1, StepOf DEF Chain
    <2>. QED BY <1>5, <1>8, <2>2, PcAfter DEF Opening, Chain
  <1>9. ~Elsewhere
    BY <1>4 DEF Elsewhere, RequestSync, Pause, Enable, RemoveDocuments, RemoveRows, Rest, vars,
       CliReads, Change
  <1>. QED BY <1>6, <1>7, <1>8, <1>9, Branches

(* A sync that has still to queue stream s of run r.                       *)
Awaits(w, r, s) == /\ worker[w].run = r
                   /\ worker[w].pc = "tools" \/ (worker[w].pc = "fanout" /\ s \in worker[w].todo)

(* Nobody will ever note that stream s of run r is done.                   *)
Forsaken(r, s) ==
  /\ runs[r].status # "none" /\ runs[r].streams[s] # "done"
  /\ \A j \in Slots : Proceeds(j) => ~Of(j, r, s)
  /\ \A w \in Workers : ~Awaits(w, r, s)

LEMMA AwaitedBefore ==
  ASSUME SyncInv, [Next]_vars, NEW r \in RunIds, runs[r].status # "none", NEW s \in Streams,
         NEW w \in Workers, Awaits(w, r, s)'
  PROVE  Awaits(w, r, s)
PROOF
  <1>1. worker[w] \in Local /\ worker'[w].run = r /\ worker'[w].pc \in {"tools", "fanout"}
    BY DEF Awaits, SyncInv, TypeOK
  <1>2. CASE worker'[w] = worker[w]
    BY <1>2 DEF Awaits
  <1>3. ~Opening(w)
    <2>1. SUFFICES ASSUME Opening(w) PROVE FALSE
      OBVIOUS
    <2>2. PICK b \in RunIds : /\ runs[b].status = "none"
                              /\ worker'[w] = [worker[w] EXCEPT !.pc = "tools", !.run = b]
      BY <2>1, StepOf DEF Opening, StartRun
    <2>. QED BY <1>1, <2>2 DEF Local
  <1>4. ASSUME worker'[w] # worker[w]
        PROVE  /\ worker'[w].pc = "fanout" /\ worker[w].pc \in {"tools", "fanout"}
               /\ worker[w].run = r
    BY <1>1, <1>3, <1>4, AtSync
  <1>5. ASSUME worker'[w] # worker[w], worker[w].pc = "fanout" PROVE s \in worker[w].todo
    <2>1. worker'[w].pc = "fanout" /\ s \in worker'[w].todo
      BY <1>4, <1>5 DEF Awaits
    <2>2. Handle(w)
      BY <1>5, <2>1, OnlyOne DEF Idle
    <2>3. PICK t \in Streams : FanOut(w, t)
      BY <1>5, <2>1, <2>2, PcAfter DEF Handle, ToolsFit
    <2>4. \/ worker'[w] = [worker[w] EXCEPT !.todo = worker[w].todo \ {t}]
          \/ worker'[w] = [worker[w] EXCEPT !.pc = "state", !.todo = {}, !.to = "active"]
      BY <2>3, StepOf DEF FanOut
    <2>. QED BY <1>1, <2>1, <2>4 DEF Local
  <1>. QED BY <1>2, <1>4, <1>5 DEF Awaits

LEMMA ForsakenStays ==
  ASSUME Chain, SyncInv', [Next]_vars, ~Crash, NEW r \in RunIds, NEW s \in Streams, Forsaken(r, s)
  PROVE  Forsaken(r, s)'
PROOF
  <1>1. RunStep(r) /\ SyncInv /\ Slots' = Slots
    BY ChainStep, SettingStays, SameSetting DEF Chain
  <1>2. runs'[r].status # "none"
    BY <1>1 DEF RunStep, Forsaken, Outcomes
  <1>3. ASSUME NEW w \in Workers, worker[w].pc \in PagePcs, worker[w].run = r, StreamOf(w) = s
        PROVE  FALSE
    BY <1>1, <1>3, Pursued DEF Forsaken, Of, StreamOf
  <1>4. runs'[r].streams[s] # "done"
    <2>1. ASSUME NEW w \in Workers, worker[w].pc = "done", Notes(w, r, s) PROVE FALSE
      BY <1>3, <2>1 DEF Notes, PagePcs
    <2>. QED BY <1>1, <2>1 DEF RunStep, Forsaken
  <1>5. ASSUME NEW j \in Slots, Proceeds(j)', Of(j, r, s)' PROVE FALSE
    <2>1. CASE Proceeds(j) /\ SameJob(j)
      BY <1>5, <2>1 DEF Forsaken, SameJob, Of
    <2>2. ASSUME NEW w \in Workers, NEW t \in Streams, FanOut(w, t), Opens(j, worker[w].run, t, 0)
          PROVE  FALSE
      BY <1>5, <2>2 DEF FanOut, Opens, Of, Forsaken, Awaits
    <2>3. ASSUME NEW w \in Workers, NextPage(w), NEW c, Opens(j, worker[w].run, StreamOf(w), c)
          PROVE  FALSE
      BY <1>3, <1>5, <2>3 DEF NextPage, PagePcs, Opens, Of
    <2>. QED BY <1>5, <2>1, <2>2, <2>3, ProceedsFrom
  <1>6. ASSUME NEW w \in Workers, Awaits(w, r, s)' PROVE FALSE
    BY <1>1, <1>6, AwaitedBefore DEF Forsaken
  <1>. QED BY <1>1, <1>2, <1>4, <1>5, <1>6 DEF Forsaken

(* What a page carries no sync awaits.                                     *)
LEMMA CarriedNotAwaited ==
  ASSUME Chain, NEW i \in Slots, Carries(i), NEW r, NEW s \in Streams, Of(i, r, s),
         NEW v \in Workers, Awaits(v, r, s)
  PROVE  FALSE
PROOF
  <1>1. JobFits(v) /\ Fresh(v)
    BY DEF Chain, ChainInv
  <1>2. Syncs(v)
    BY <1>1 DEF Awaits, JobFits, Syncs
  <1>3. Untold(r, s)
    BY <1>1, <1>2 DEF Awaits, Fresh
  <1>. QED BY <1>3 DEF Untold

(* There is a stream.                                                      *)
LEMMA SomeStream ==
  ASSUME SyncInv
  PROVE  \E s \in Streams : TRUE
PROOF
  <1>1. setting \in Settings
    BY DEF SyncInv, TypeOK
  <1>2. setting.streams # {}
    BY <1>1, SyncAssumption
  <1>. QED BY <1>2 DEF Streams

(* A denial has its own stream behind it, or all of them before it.        *)
LEMMA Denied ==
  ASSUME Chain, NEW w \in Workers, Denies(w)
  PROVE  \E s \in Streams : Forsaken(worker[w].run, s)
PROOF
  <1>1. /\ SyncInv /\ worker[w].pc \in {"deny", "state", "save"}
        /\ JobFits(w) /\ Fresh(w) /\ OnePage /\ NotDone
    BY DEF Denies, Chain, ChainInv
  <1>2. PICK r \in RunIds : r = worker[w].run /\ runs[r].status # "none"
    BY <1>1, Busy
  <1>3. CASE StreamOf(w) # NoStream
    <2>1. PICK i \in Slots : i = worker[w].slot /\ Carries(i)
      BY <1>1, <1>3, Holds DEF Bears
    <2>2. PICK s \in Streams : s = jobs[i].stream
      BY <1>1, <2>1, Carried
    <2>3. Of(i, r, s) /\ runs[r].streams[s] # "done"
      BY <1>1, <1>2, <1>3, <2>1, <2>2 DEF JobFits, Of, NotDone
    <2>4. ~Proceeds(i)
      <3>1. Has(w)
        BY <1>1 DEF SyncInv, WorkersOK
      <3>2. \A v \in Workers : worker[v].pc # "idle" /\ worker[v].slot = i => v = w
        BY <1>1, <2>1, <3>1 DEF Has
      <3>3. ~Pursues(w)
        BY <1>1 DEF Pursues, PagePcs, Retries
      <3>. QED BY <2>1, <3>1, <3>2, <3>3 DEF Has, Proceeds
    <2>5. ASSUME NEW j \in Slots, Proceeds(j), Of(j, r, s) PROVE FALSE
      <3>1. Carries(j)
        BY <1>1, <2>5, Proceeding
      <3>2. j = i
        BY <1>1, <2>1, <2>3, <2>5, <3>1 DEF OnePage, Of
      <3>. QED BY <2>4, <2>5, <3>2
    <2>6. \A v \in Workers : ~Awaits(v, r, s)
      BY <2>1, <2>3, CarriedNotAwaited
    <2>. QED BY <1>2, <2>2, <2>3, <2>5, <2>6 DEF Forsaken
  <1>4. CASE StreamOf(w) = NoStream
    <2>1. Syncs(w) /\ \A s \in Streams : Untold(r, s)
      BY <1>1, <1>2, <1>4 DEF Syncs, Fresh
    <2>2. PICK s \in Streams : TRUE
      BY <1>1, SomeStream
    <2>3. ASSUME NEW j \in Slots, Proceeds(j), Of(j, r, s) PROVE FALSE
      BY <1>1, <2>1, <2>3, Proceeding DEF Untold
    <2>4. ASSUME NEW v \in Workers, Awaits(v, r, s) PROVE FALSE
      <3>1. Syncs(v)
        BY <2>4 DEF Chain, ChainInv, JobFits, Awaits, Syncs
      <3>2. v = w
        BY <2>1, <3>1, LoneSync
      <3>. QED BY <1>1, <2>4, <3>2 DEF Awaits
    <2>. QED BY <1>2, <2>1, <2>3, <2>4 DEF Forsaken, Untold
  <1>. QED BY <1>3, <1>4

(* So has a page that fails its stream.                                    *)
LEMMA FailsForGood ==
  ASSUME Chain, SyncInv', [Next]_vars, ~Crash, NEW r \in RunIds, NEW s \in Streams,
         runs'[r].streams[s] = "failed", runs[r].streams[s] # "failed"
  PROVE  Forsaken(r, s)' \/ \E w \in Workers : Denies(w) /\ worker[w].run = r
PROOF
  <1>1. SyncInv /\ RunStep(r) /\ Slots' = Slots /\ OnePage
    BY ChainStep, SettingStays, SameSetting DEF Chain, ChainInv
  <1>2. PICK w \in Workers : /\ Notes(w, r, s) /\ worker[w].pc # "fanout"
                             /\ worker'[w].pc # "idle" /\ ~Pursues(w)'
                             /\ worker'[w].slot = worker[w].slot /\ jobs' = jobs
    BY FailsOwn
  <1>3. CASE worker[w].pc = "deny"
    BY <1>2, <1>3 DEF Denies, Notes
  <1>4. CASE worker[w].pc # "deny"
    <2>1. /\ runs[r].status # "none" /\ worker[w].slot \in Slots
          /\ Carries(worker[w].slot) /\ Of(worker[w].slot, r, s)
      BY <1>2, <1>4, Noting
    <2>2. PICK i \in Slots : i = worker[w].slot /\ Carries(i) /\ Of(i, r, s)
      BY <2>1
    <2>3. runs'[r].status # "none"
      BY <1>1, <2>1 DEF RunStep, Outcomes
    <2>4. ~Proceeds(i)'
      <3>1. Has(w)'
        BY <1>2 DEF SyncInv, WorkersOK
      <3>2. \A v \in Workers : worker'[v].pc # "idle" /\ worker'[v].slot = i => v = w
        BY <1>2, <2>2, <3>1 DEF Has
      <3>3. jobs'[i].status = "running"
        BY <1>2, <2>2, <3>1 DEF Has
      <3>. QED BY <1>2, <3>2, <3>3 DEF Proceeds
    <2>5. ASSUME NEW j \in Slots, Proceeds(j)', Of(j, r, s)' PROVE FALSE
      <3>1. ASSUME NEW q, NEW t, NEW c, Opens(j, q, t, c) PROVE Live(j)'
        <4>1. ASSUME NEW v \in Workers, worker'[v].pc # "idle", worker'[v].slot = j
              PROVE  jobs'[j].status = "running"
          BY <4>1 DEF SyncInv, WorkersOK, Has
        <4>. QED BY <2>5, <4>1 DEF Proceeds, Live
      <3>2. Proceeds(j) /\ SameJob(j)
        BY <1>2, <2>5, <3>1, ProceedsFrom DEF Opens, Live
      <3>3. Carries(j) /\ Of(j, r, s)
        BY <1>1, <1>2, <2>5, <3>2, Proceeding DEF Of
      <3>4. j = i
        BY <1>1, <2>2, <3>3 DEF OnePage, Of
      <3>. QED BY <2>4, <2>5, <3>4
    <2>6. ASSUME NEW v \in Workers, Awaits(v, r, s)' PROVE FALSE
      <3>1. Awaits(v, r, s)
        BY <1>1, <2>1, <2>6, AwaitedBefore
      <3>. QED BY <2>2, <3>1, CarriedNotAwaited
    <2>. QED BY <1>1, <2>3, <2>5, <2>6 DEF Forsaken
  <1>. QED BY <1>3, <1>4

(* So has a sync that finds that the tools do not fit.                     *)
LEMMA ToolsFailForGood ==
  ASSUME Chain, SyncInv', [Next]_vars, ~Crash, NEW r \in RunIds, runs'[r].status # runs[r].status,
         NEW w \in Workers, worker[w].pc = "tools", worker[w].run = r, worker'[w].pc # "tools",
         NEW s \in Streams
  PROVE  Forsaken(r, s)'
PROOF
  <1>1. /\ SyncInv /\ RunStep(r) /\ Slots' = Slots /\ JobFits(w) /\ Fresh(w)
    BY ChainStep, SettingStays, SameSetting DEF Chain, ChainInv
  <1>2. Syncs(w) /\ \A t \in Streams : Untold(r, t)
    BY <1>1 DEF JobFits, Fresh, Syncs
  <1>3. runs[r].status # "none"
    BY <1>1, Busy
  <1>4. runs'[r].status # "none" /\ runs'[r].streams = runs[r].streams
    BY <1>1, <1>3 DEF RunStep, Outcomes
  <1>5. worker'[w].pc # "fanout"
    <2>1. SUFFICES ASSUME worker'[w].pc = "fanout" PROVE FALSE
      OBVIOUS
    <2>2. Handle(w)
      BY <1>1, <2>1, OnlyOne DEF Idle
    <2>3. ToolsFit(w)
      BY <1>1, <2>1, <2>2, PcAfter DEF Handle, FanOut
    <2>. QED BY <2>3 DEF ToolsFit
  <1>6. ASSUME NEW j \in Slots, Carries(j), NEW t \in Streams, Of(j, r, t) PROVE FALSE
    BY <1>2, <1>6 DEF Untold
  <1>7. ASSUME NEW j \in Slots, Proceeds(j)', Of(j, r, s)' PROVE FALSE
    <2>1. CASE Proceeds(j) /\ SameJob(j)
      BY <1>1, <1>6, <1>7, <2>1, Proceeding DEF SameJob, Of
    <2>2. ASSUME NEW v \in Workers, NEW t \in Streams, FanOut(v, t) PROVE FALSE
      <3>1. JobFits(v) /\ v # w
        BY <2>2 DEF FanOut, Chain, ChainInv
      <3>2. Syncs(v)
        BY <2>2, <3>1 DEF FanOut, JobFits, Syncs
      <3>. QED BY <1>2, <3>1, <3>2, LoneSync
    <2>3. ASSUME NEW v \in Workers, NextPage(v), NEW c, Opens(j, worker[v].run, StreamOf(v), c)
          PROVE  FALSE
      BY <2>3 DEF NextPage
    <2>. QED BY <1>7, <2>1, <2>2, <2>3, ProceedsFrom
  <1>8. ASSUME NEW v \in Workers, Awaits(v, r, s)' PROVE FALSE
    <2>1. Awaits(v, r, s) /\ JobFits(v)
      BY <1>1, <1>3, <1>8, AwaitedBefore DEF Chain, ChainInv
    <2>2. v = w
      BY <1>2, <2>1, LoneSync DEF Awaits, JobFits, Syncs
    <2>. QED BY <1>5, <1>8, <2>2 DEF Awaits
  <1>. QED BY <1>1, <1>2, <1>4, <1>7, <1>8 DEF Forsaken, Untold

-----------------------------------------------------------------------------
(* A run of which something has failed has a stream that will never be     *)
(* done, so it does not succeed.                                           *)
Spoilt(r) == \/ \E s \in Streams : runs[r].streams[s] = "failed"
             \/ runs[r].status \in {"partial", "failed"}
             \/ \E w \in Workers : Closes(w, r) /\ worker[w].outcome # "succeeded"

SpoiltInv == bounds.crashes = 0 =>
  \A r \in RunIds : Spoilt(r) => \E s \in Streams : Forsaken(r, s)

LEMMA SpoiltNext == SyncInv /\ ChainInv /\ SpoiltInv /\ [Next]_vars => SpoiltInv'
PROOF
  <1> SUFFICES ASSUME SyncInv, ChainInv, SpoiltInv, [Next]_vars, bounds'.crashes = 0
               PROVE  (\A r \in RunIds : Spoilt(r) => \E s \in Streams : Forsaken(r, s))'
    BY DEF SpoiltInv
  <1>1. Chain /\ ~Crash /\ SyncInv' /\ RunIds' = RunIds /\ Streams' = Streams
    BY NoCrash, Steps, SettingStays, SameSetting DEF Chain
  <1>2. SUFFICES ASSUME NEW r \in RunIds, Spoilt(r)' PROVE \E s \in Streams : Forsaken(r, s)'
    BY <1>1
  <1>3. ASSUME NEW s \in Streams, Forsaken(r, s) PROVE Forsaken(r, s)'
    BY <1>1, <1>3, ForsakenStays
  <1>4. CASE Spoilt(r)
    BY <1>1, <1>3, <1>4 DEF SpoiltInv, Chain
  <1>5. ASSUME NEW s \in Streams, runs'[r].streams[s] = "failed", ~Spoilt(r)
        PROVE  \E t \in Streams : Forsaken(r, t)'
    <2>1. runs[r].streams[s] # "failed"
      BY <1>5 DEF Spoilt
    <2>2. ASSUME NEW w \in Workers, Denies(w), worker[w].run = r
          PROVE  \E t \in Streams : Forsaken(r, t)
      BY <1>1, <2>2, Denied
    <2>. QED BY <1>1, <1>3, <1>5, <2>1, <2>2, FailsForGood
  <1>6. ASSUME runs'[r].status \in {"partial", "failed"}, ~Spoilt(r)
        PROVE  \E t \in Streams : Forsaken(r, t)'
    <2>1. runs'[r].status # runs[r].status /\ RunStep(r)
      BY <1>1, <1>6, ChainStep DEF Spoilt
    <2>2. ~ \E w \in Workers : Closes(w, r) /\ runs'[r].status = worker[w].outcome
      BY <1>6 DEF Spoilt
    <2>3. PICK w \in Workers : worker[w].pc = "tools" /\ worker[w].run = r /\ worker'[w].pc # "tools"
      BY <1>6, <2>1, <2>2 DEF RunStep
    <2>4. PICK s \in Streams : TRUE
      BY <1>1, SomeStream DEF Chain
    <2>. QED BY <1>1, <2>1, <2>3, <2>4, ToolsFailForGood
  <1>7. ASSUME NEW w \in Workers, Closes(w, r)', worker'[w].outcome # "succeeded" PROVE Spoilt(r)
    <2>1. CASE Closes(w, r) /\ worker'[w].outcome = worker[w].outcome
      BY <1>7, <2>1 DEF Spoilt
    <2>2. CASE worker'[w].outcome = Outcome(r)
      BY <1>7, <2>2 DEF Outcome, Spoilt
    <2>. QED BY <1>7, <2>1, <2>2, ClosesFrom
  <1>. QED BY <1>1, <1>2, <1>4, <1>5, <1>6, <1>7 DEF Spoilt

LEMMA SpoiltBegins == Init => SpoiltInv
PROOF
  <1> SUFFICES ASSUME Init, NEW r \in RunIds, Spoilt(r) PROVE FALSE
    BY DEF SpoiltInv
  <1>1. runs[r] = NoRun /\ \A w \in Workers : worker[w].pc = "idle"
    BY DEF Init, Idle
  <1>. QED BY <1>1 DEF Spoilt, Closes, NoRun

(* Unless a denial fails the streams that others are at, who writes the    *)
(* outcome of a run writes what became of it.                              *)
Undivided == "unauthorized" \in setting.failures => \A s, t \in Streams : s = t

Firm ==
  /\ Undenied
  /\ \A r \in RunIds, s \in Streams : runs[r].streams[s] = "failed" => Forsaken(r, s)
  /\ \A r \in RunIds, w \in Workers : Closes(w, r) =>
       /\ Over(r) /\ worker[w].outcome = Outcome(r)
       /\ runs[r].status \in Outcomes => runs[r].status = Outcome(r)

FirmInv == bounds.crashes = 0 /\ Undivided => Firm

LEMMA OverStays ==
  ASSUME Chain, SyncInv', [Next]_vars, ~Crash, Undivided, Firm, NEW r \in RunIds, Over(r),
         NEW s \in Streams
  PROVE  runs'[r].streams[s] = runs[r].streams[s]
PROOF
  <1>1. SUFFICES ASSUME runs'[r].streams[s] # runs[r].streams[s] PROVE FALSE
    OBVIOUS
  <1>2. RunStep(r) /\ NotDone /\ SyncInv
    BY ChainStep DEF Chain, ChainInv
  <1>3. CASE runs[r].streams[s] = "done"
    <2>1. PICK w \in Workers : Notes(w, r, s)
      BY <1>1, <1>2 DEF RunStep
    <2>2. PICK i \in Slots : /\ i = worker[w].slot /\ Carries(i) /\ jobs[i].run = r
                             /\ worker[w].pc # "deny" => Of(i, r, s)
      BY <1>3, <2>1, Noting DEF Untold
    <2>3. jobs[i].stream = s
      <3>1. CASE worker[w].pc = "deny"
        BY <1>2, <2>2, <3>1, Carried DEF Firm, Undenied, Undivided, Denies
      <3>. QED BY <2>2, <3>1 DEF Of
    <2>. QED BY <1>2, <1>3, <2>2, <2>3 DEF NotDone
  <1>4. CASE runs[r].streams[s] = "failed"
    <2>1. Forsaken(r, s)
      BY <1>4 DEF Firm
    <2>2. PICK w \in Workers : /\ worker[w].run = r
                               /\ \/ worker[w].pc \in PagePcs /\ StreamOf(w) = s
                                  \/ worker[w].pc = "fanout" /\ s \in worker[w].todo
      BY <1>1, <1>4, Unfails
    <2>. QED BY <1>2, <2>1, <2>2, Pursued DEF Forsaken, Of, StreamOf, Awaits
  <1>. QED BY <1>3, <1>4 DEF Over

LEMMA OverEnds ==
  ASSUME Chain, SyncInv', [Next]_vars, ~Crash, Undivided, Firm, NEW r \in RunIds, Over(r)
  PROVE  Over(r)' /\ Outcome(r)' = Outcome(r)
PROOF
  <1>1. Streams' = Streams /\ \A s \in Streams : runs'[r].streams[s] = runs[r].streams[s]
    BY OverStays, SettingStays, SameSetting DEF Chain
  <1>. QED BY <1>1 DEF Over, Outcome

LEMMA FirmNext == SyncInv /\ ChainInv /\ FirmInv /\ [Next]_vars => FirmInv'
PROOF
  <1> SUFFICES ASSUME SyncInv, ChainInv, FirmInv, [Next]_vars, bounds'.crashes = 0, Undivided'
               PROVE  Firm'
    BY DEF FirmInv
  <1>1. /\ Chain /\ ~Crash /\ SyncInv' /\ setting' = setting
        /\ RunIds' = RunIds /\ Streams' = Streams
    BY NoCrash, Steps, SettingStays, SameSetting DEF Chain
  <1>2. Undivided /\ Firm
    BY <1>1 DEF Undivided, FirmInv, Chain
  <1>3. Undenied'
    BY <1>1, <1>2, DenialStays DEF Firm
  <1>4. ASSUME NEW r \in RunIds, NEW s \in Streams, runs'[r].streams[s] = "failed"
        PROVE  Forsaken(r, s)'
    <2>1. ASSUME NEW w \in Workers, Denies(w), worker[w].run = r PROVE Forsaken(r, s)
      <3>1. PICK t \in Streams : Forsaken(r, t)
        BY <1>1, <2>1, Denied
      <3>2. t = s
        BY <1>2, <2>1 DEF Firm, Undenied, Undivided
      <3>. QED BY <3>1, <3>2
    <2>2. CASE Forsaken(r, s)
      BY <1>1, <2>2, ForsakenStays
    <2>. QED BY <1>1, <1>2, <1>4, <2>1, <2>2, FailsForGood DEF Firm
  <1>5. ASSUME NEW r \in RunIds, NEW w \in Workers, Closes(w, r)'
        PROVE  /\ Over(r)' /\ worker'[w].outcome = Outcome(r)'
               /\ runs'[r].status \in Outcomes => runs'[r].status = Outcome(r)'
    <2>1. CASE Closes(w, r) /\ worker'[w].outcome = worker[w].outcome
      <3>1. Over(r)' /\ Outcome(r)' = Outcome(r) /\ worker'[w].outcome = Outcome(r)
        BY <1>1, <1>2, <2>1, OverEnds DEF Firm
      <3>2. ASSUME runs'[r].status \in Outcomes, runs'[r].status # runs[r].status
            PROVE  runs'[r].status = Outcome(r)
        <4>1. RunStep(r)
          BY <1>1, ChainStep
        <4>2. ASSUME NEW v \in Workers, worker[v].pc = "tools", worker[v].run = r PROVE FALSE
          <5>1. JobFits(v) /\ Fresh(v)
            BY <1>1 DEF Chain, ChainInv
          <5>. QED BY <2>1, <4>2, <5>1 DEF JobFits, Fresh, Syncs
        <4>3. PICK v \in Workers : Closes(v, r) /\ runs'[r].status = worker[v].outcome
          BY <3>2, <4>1, <4>2 DEF RunStep, Outcomes
        <4>. QED BY <1>2, <4>3 DEF Firm
      <3>3. runs[r].status \in Outcomes => runs[r].status = Outcome(r)
        BY <1>2, <2>1 DEF Firm
      <3>. QED BY <3>1, <3>2, <3>3
    <2>2. CASE runs' = runs /\ Finishes(r) /\ worker'[w].outcome = Outcome(r)
      <3>1. Over(r)' /\ Outcome(r)' = Outcome(r)
        BY <1>1, <2>2 DEF Finishes, Over, Outcome
      <3>2. runs'[r].status \notin Outcomes
        BY <2>2 DEF Finishes, Outcomes
      <3>. QED BY <2>2, <3>1, <3>2
    <2>. QED BY <1>5, <2>1, <2>2, ClosesFrom
  <1>. QED BY <1>1, <1>3, <1>4, <1>5 DEF Firm

LEMMA FirmBegins == Init => FirmInv
PROOF
  <1> SUFFICES ASSUME Init PROVE Firm
    BY DEF FirmInv
  <1>1. \A w \in Workers : worker[w].pc = "idle"
    BY DEF Init, Idle
  <1>2. \A r \in RunIds, s \in Streams : runs[r].streams[s] # "failed"
    BY DEF Init, NoRun
  <1>. QED BY <1>1, <1>2 DEF Firm, Undenied, Denies, Closes

(* What a run came to stays, unless the server dies: a run that succeeded  *)
(* has every stream done and none that anyone would fail; one that failed, *)
(* in part or wholly, does not succeed any more, because nobody will ever  *)
(* finish one of its streams.  Whether it failed in part or wholly changes *)
(* only if calls may be denied: who is denied fails the streams that       *)
(* others are at, and who has read the run (_maybe_finish) writes what it  *)
(* read.                                                                   *)
THEOREM RunsAreFinal == Spec => OutcomeFinal
PROOF
  <1>1. ASSUME SyncInv, ChainInv, SpoiltInv, FirmInv, [Next]_vars
        PROVE  [\A r \in RunIds :
                  bounds.crashes = 0 /\ runs[r].status \in Outcomes
                  => /\ \/ runs'[r].status \in {runs[r].status, "deleted"}
                        \/ /\ "unauthorized" \in setting.failures
                           /\ {runs[r].status, runs'[r].status} = {"partial", "failed"}
                     /\ runs[r].status = "succeeded" =>
                          \A s \in Streams : runs'[r].streams[s] = "done"]_vars
    <2> SUFFICES ASSUME NEW r \in RunIds, bounds.crashes = 0, runs[r].status \in Outcomes
                 PROVE  /\ \/ runs'[r].status \in {runs[r].status, "deleted"}
                           \/ /\ "unauthorized" \in setting.failures
                              /\ {runs[r].status, runs'[r].status} = {"partial", "failed"}
                        /\ runs[r].status = "succeeded" =>
                             \A s \in Streams : runs'[r].streams[s] = "done"
      OBVIOUS
    <2>1. Chain /\ RunsFit
      BY <1>1 DEF Chain, ChainInv
    <2>2. CASE Crash
      BY <2>1, <2>2 DEF Crash, RunsFit, Succeeds
    <2>3. CASE ~Crash
      <3>1. RunStep(r)
        BY <1>1, <2>1, <2>3, ChainStep
      <3>2. ASSUME NEW w \in Workers, worker[w].pc = "tools", worker[w].run = r PROVE FALSE
        <4>1. JobFits(w) /\ Fresh(w)
          BY <2>1 DEF Chain, ChainInv
        <4>. QED BY <3>2, <4>1 DEF JobFits, Fresh, Syncs, Outcomes
      <3>3. ~(Succeeds(r) /\ Spoilt(r))
        BY <1>1, <2>1 DEF SpoiltInv, RunsFit, Forsaken
      <3>4. ASSUME NEW w \in Workers, Closes(w, r), runs'[r].status = worker[w].outcome,
                   runs'[r].status \in Outcomes, runs'[r].status # runs[r].status
            PROVE  /\ "unauthorized" \in setting.failures
                   /\ {runs[r].status, runs'[r].status} = {"partial", "failed"}
        <4>1. runs[r].status # "succeeded" /\ runs'[r].status # "succeeded"
          BY <3>3, <3>4 DEF Succeeds, Spoilt, Outcomes
        <4>2. "unauthorized" \notin setting.failures => FALSE
          BY <1>1, <3>4 DEF FirmInv, Undivided, Firm
        <4>. QED BY <3>4, <4>1, <4>2 DEF Outcomes
      <3>5. \/ runs'[r].status \in {runs[r].status, "deleted"}
            \/ /\ "unauthorized" \in setting.failures
               /\ {runs[r].status, runs'[r].status} = {"partial", "failed"}
        BY <3>1, <3>2, <3>4 DEF RunStep, Outcomes
      <3>6. ASSUME runs[r].status = "succeeded", NEW s \in Streams
            PROVE  runs'[r].streams[s] = "done"
        <4>1. Succeeds(r) /\ runs[r].streams[s] = "done"
          BY <2>1, <3>6 DEF RunsFit, Succeeds
        <4>2. runs'[r].streams[s] = runs[r].streams[s]
          BY <2>1, <3>1, <4>1, Noting DEF RunStep
        <4>. QED BY <4>1, <4>2
      <3>. QED BY <3>5, <3>6
    <2>. QED BY <2>2, <2>3
  <1>2. Spec => [](SyncInv /\ ChainInv /\ SpoiltInv /\ FirmInv)
    BY Beginning, Steps, ChainBegins, ChainNext, SpoiltBegins, SpoiltNext, FirmBegins, FirmNext, PTL
       DEF Spec
  <1>. QED BY <1>1, <1>2, PTL DEF Spec, OutcomeFinal

-----------------------------------------------------------------------------
(* Deletions without a checker.  A listing by key skips nothing that stays *)
(* where it is, so what a page has before its cursor its run has seen, or  *)
(* the source lacked it - as long as the run's ids are not forgotten while *)
(* a page of it may go on: by a crash after the run's end, a removal, or a *)
(* denial of another stream.                                               *)
Orderly ==
  ~setting.byOffset /\ bounds.crashes = 0 /\ "remove" \notin setting.commands /\ Undivided

Got(r, s) == away[r][s] \cup seen[r][s]
Passed(r, s, c) == \A i \in Items : i <= c => i \in Got(r, s)
Traces(f, r, s) ==
  /\ f.pc \in {"index", "mark"} =>
       /\ \A d \in f.next, i \in Items : i <= d => i \in Got(r, s) \cup f.page
       /\ f.whole => Items \subseteq Got(r, s) \cup f.page
  /\ f.pc = "next" => \A d \in f.next : Passed(r, s, d)
  /\ f.pc = "reconcile" => Items \subseteq Got(r, s)
  /\ f.pc = "delete" => f.doomed \subseteq away[r][s]

Unremoved ==
  /\ cli.pc # "purged" /\ (cli.pc = "read" => cli.command # "remove")
  /\ \A r \in RunIds : runs[r].status # "deleted"
Gapless ==
  /\ \A j \in Slots : Proceeds(j) => Passed(jobs[j].run, jobs[j].stream, jobs[j].cursor)
  /\ \A w \in Workers : worker[w].pc \in PagePcs => Traces(worker[w], worker[w].run, StreamOf(w))

GaplessInv == Orderly => Unremoved /\ Gapless

(* The same, where it is known that the conditions hold.                   *)
Intact == Chain /\ Orderly /\ Firm /\ Unremoved /\ Gapless

LEMMA CliStays ==
  ASSUME Chain, Orderly, Unremoved, [Next]_vars, ~Crash
  PROVE  Unremoved'
PROOF
  <1>1. setting' = setting /\ RunIds' = RunIds /\ \A r \in RunIds : RunStep(r)
    BY SettingStays, SameSetting, ChainStep
  <1>2. ASSUME NEW r \in RunIds PROVE runs'[r].status # "deleted"
    BY <1>1 DEF RunStep, Unremoved, Outcomes
  <1>3. ASSUME NEW command \in setting.commands, CliReads(command)
        PROVE  cli'.pc # "purged" /\ (cli'.pc = "read" => cli'.command # "remove")
    BY <1>3 DEF CliReads, Orderly
  <1>4. CASE CliDone
    <2>1. cli' = [cli EXCEPT !.pc = "idle", !.row = NoRow]
      BY <1>4 DEF CliDone
    <2>2. cli'.pc = "idle"
      BY <2>1 DEF Chain, SyncInv, TypeOK
    <2>. QED BY <1>1, <1>2, <2>2 DEF Unremoved
  <1>5. CASE cli' = cli
    BY <1>1, <1>2, <1>5 DEF Unremoved
  <1>6. ASSUME NEW w \in Workers, Handle(w) PROVE cli' = cli
    BY <1>6 DEF Handle, Claim, Settle, StartRun, ToolsFit, ToolsFail, FanOut, GetSource,
       SaveSource, ReadRun, FinishRun, DenyNote, DenyCheck, BeginPage, Fetch, IndexPage, MarkSeen,
       NextPage, Reconcile, DeleteDoomed, StreamDone, Postpone, Unauthorized, Unavailable,
       Refused
  <1>7. ~RemoveDocuments /\ ~RemoveRows
    BY DEF RemoveDocuments, RemoveRows, Unremoved
  <1>8. \/ CliDone \/ cli' = cli \/ \E command \in setting.commands : CliReads(command)
    BY <1>6, <1>7 DEF Next, RequestSync, Pause, Enable, Change, Crash, Rest, vars
  <1>. QED BY <1>1, <1>2, <1>3, <1>4, <1>5, <1>8 DEF Unremoved

-----------------------------------------------------------------------------
(* A run that is not over keeps what it has seen, and what the source has  *)
(* lacked.                                                                 *)
LEMMA HistoryStays ==
  ASSUME Chain, Firm, Unremoved, [Next]_vars, ~Crash, NEW j \in Slots, Carries(j),
         NEW r \in RunIds, r = jobs[j].run, ~Over(r), NEW s \in Streams
  PROVE  away[r][s] \subseteq away'[r][s] /\ seen[r][s] \subseteq seen'[r][s]
PROOF
  <1>1. /\ runs[r].status # "none" /\ jobs[j].stream \in Streams
        /\ away \in [RunIds -> [Streams -> SUBSET Items]]
        /\ seen \in [RunIds -> [Streams -> SUBSET Items]]
    BY Carried DEF Chain, SyncInv, TypeOK
  <1>2. ASSUME NEW w \in Workers, StartRun(w)
        PROVE  away[r][s] \subseteq away'[r][s] /\ seen' = seen
    <2>1. CASE away' = away
      BY <1>2, <2>1 DEF StartRun
    <2>2. CASE away' # away
      <3>1. PICK q \in RunIds : /\ runs[q].status = "none"
                                /\ away' = [away EXCEPT ![q] = [t \in Streams |-> Items \ live[t]]]
        BY <1>2, <2>2 DEF StartRun
      <3>2. away'[r] = away[r]
        BY <1>1, <3>1
      <3>. QED BY <1>2, <3>2 DEF StartRun
    <2>. QED BY <2>1, <2>2
  <1>3. ASSUME NEW t \in Streams, NEW i \in Items, Change(t, i)
        PROVE  away[r][s] \subseteq away'[r][s] /\ seen' = seen
    <2>1. away'[r] = [away[r] EXCEPT ![t] = @ \cup {i}]
      BY <1>3 DEF Change
    <2>2. PICK f, x : f = away[r] /\ x = f[t] \cup {i} /\ away'[r] = [f EXCEPT ![t] = x]
      BY <2>1
    <2>3. f \in [Streams -> SUBSET Items] /\ f[t] \subseteq x
      BY <1>1, <2>2
    <2>4. f[s] \subseteq [f EXCEPT ![t] = x][s]
      BY <2>3
    <2>. QED BY <1>3, <2>2, <2>4 DEF Change
  <1>4. ASSUME NEW w \in Workers, NEW f \in setting.failures, ToolsFail(w, f)
        PROVE  seen'[r] = seen[r]
    <2>1. Syncs(w) /\ Fresh(w) /\ worker[w].pc = "tools"
      BY <1>4 DEF ToolsFail, Chain, ChainInv, JobFits, Syncs
    <2>2. \A t \in Streams : Untold(worker[w].run, t)
      BY <2>1 DEF Fresh
    <2>3. worker[w].run # r
      BY <1>1, <2>2 DEF Untold, Of
    <2>. QED BY <1>1, <1>4, <2>3 DEF ToolsFail
  <1>5. ASSUME NEW w \in Workers, FinishRun(w) PROVE seen'[r] = seen[r]
    <2>1. PICK q \in RunIds : q = worker[w].run
      BY <1>5, Busy DEF FinishRun, Chain
    <2>2. Over(q)
      BY <1>5, <2>1 DEF FinishRun, Firm, Closes
    <2>3. q # r
      BY <2>2
    <2>. QED BY <1>1, <1>5, <2>1, <2>3 DEF FinishRun
  <1>6. ASSUME NEW w \in Workers, MarkSeen(w) PROVE seen[r][s] \subseteq seen'[r][s]
    <2>1. PICK q, t, new : /\ q = worker[w].run /\ t = StreamOf(w) /\ new = Marked(w)
                           /\ seen' = [seen EXCEPT ![q][t] = new]
      BY <1>6 DEF MarkSeen
    <2>2. seen[q][t] \subseteq new
      BY <2>1 DEF Marked
    <2>3. CASE q = r /\ t = s
      BY <1>1, <2>1, <2>2, <2>3
    <2>4. CASE ~(q = r /\ t = s)
      BY <1>1, <2>1, <2>4
    <2>. QED BY <2>3, <2>4
  <1>7. ASSUME NEW w \in Workers, Handle(w),
               ~StartRun(w), ~FinishRun(w), ~MarkSeen(w),
               \A f \in setting.failures : ~ToolsFail(w, f)
        PROVE  seen' = seen
    BY <1>7 DEF Handle, Claim, Settle, ToolsFit, FanOut, GetSource, SaveSource, ReadRun, DenyNote,
       DenyCheck, BeginPage, Fetch, IndexPage, NextPage, Reconcile, DeleteDoomed, StreamDone, Postpone,
       Unauthorized, Unavailable, Refused
  <1>8. ASSUME NEW w \in Workers, Handle(w), ~StartRun(w) PROVE away' = away
    BY <1>8 DEF Handle, Claim, Settle, ToolsFit, ToolsFail, FanOut, GetSource, SaveSource,
       ReadRun, FinishRun, DenyNote, DenyCheck, BeginPage, Fetch, IndexPage, MarkSeen, NextPage, Reconcile,
       DeleteDoomed, StreamDone, Postpone, Unauthorized, Unavailable, Refused
  <1>9. ASSUME NEW w \in Workers, Handle(w)
        PROVE  away[r][s] \subseteq away'[r][s] /\ seen[r][s] \subseteq seen'[r][s]
    <2>1. away[r][s] \subseteq away'[r][s]
      BY <1>2, <1>8, <1>9
    <2>2. seen[r][s] \subseteq seen'[r][s]
      BY <1>2, <1>4, <1>5, <1>6, <1>7, <1>9
    <2>. QED BY <2>1, <2>2
  <1>10. ~RemoveRows
    BY DEF RemoveRows, Unremoved
  <1>11. \/ away' = away /\ seen' = seen
         \/ \E w \in Workers : Handle(w)
         \/ \E t \in Streams, i \in Items : Change(t, i)
    BY <1>10 DEF Next, RequestSync, CliReads, Pause, Enable, RemoveDocuments, Rest, vars
  <1>. QED BY <1>3, <1>9, <1>11

-----------------------------------------------------------------------------
(* What a page has been through stays so.                                  *)
LEMMA GotStays ==
  ASSUME Intact, [Next]_vars, ~Crash, NEW j \in Slots, Proceeds(j),
         NEW r \in RunIds, r = jobs[j].run, NEW s \in Streams
  PROVE  /\ away[r][s] \subseteq away'[r][s] /\ seen[r][s] \subseteq seen'[r][s]
         /\ Got(r, s) \subseteq Got(r, s)'
PROOF
  <1>1. Chain /\ Carries(j) /\ jobs[j].stream \in Streams
    BY Proceeding, Carried DEF Intact, Chain
  <1>2. runs[r].streams[jobs[j].stream] \notin {"done", "failed"}
    <2>1. runs[r].streams[jobs[j].stream] # "done"
      BY <1>1 DEF Chain, ChainInv, NotDone
    <2>2. ~Forsaken(r, jobs[j].stream)
      BY DEF Forsaken, Of
    <2>. QED BY <1>1, <2>1, <2>2 DEF Intact, Firm
  <1>3. ~Over(r)
    BY <1>1, <1>2 DEF Over
  <1>4. away[r][s] \subseteq away'[r][s] /\ seen[r][s] \subseteq seen'[r][s]
    BY <1>1, <1>3, HistoryStays DEF Intact
  <1>. QED BY <1>4 DEF Got

LEMMA JobsPassed ==
  ASSUME Intact, [Next]_vars, ~Crash, NEW j \in Slots, Proceeds(j)'
  PROVE  Passed(jobs[j].run, jobs[j].stream, jobs[j].cursor)'
PROOF
  <1>1. Chain /\ SyncInv /\ SyncInv' /\ setting' = setting /\ Items' = Items
    BY Steps, SettingStays, SameSetting DEF Intact, Chain
  <1>2. CASE Proceeds(j) /\ SameJob(j)
    <2>1. PICK r \in RunIds, s \in Streams : r = jobs[j].run /\ s = jobs[j].stream
      BY <1>1, <1>2, Proceeding, Carried
    <2>2. Passed(r, s, jobs[j].cursor) /\ Got(r, s) \subseteq Got(r, s)'
      BY <1>2, <2>1, GotStays DEF Intact, Gapless
    <2>3. PICK c : c = jobs[j].cursor
      OBVIOUS
    <2>4. Passed(r, s, c)'
      BY <1>1, <2>2, <2>3 DEF Passed
    <2>. QED BY <1>2, <2>1, <2>3, <2>4 DEF SameJob
  <1>3. ASSUME NEW w \in Workers, NEW s \in Streams, Opens(j, worker[w].run, s, 0)
        PROVE  Passed(jobs[j].run, jobs[j].stream, jobs[j].cursor)'
    <2>1. \A i \in Items : ~(i <= 0)
      BY SettingType, <1>1 DEF SyncInv, Items
    <2>. QED BY <1>1, <1>3, <2>1 DEF Passed, Opens
  <1>4. ASSUME NEW w \in Workers, NextPage(w), NEW c \in worker[w].next,
               Opens(j, worker[w].run, StreamOf(w), c)
        PROVE  Passed(jobs[j].run, jobs[j].stream, jobs[j].cursor)'
    <2>1. Passed(worker[w].run, StreamOf(w), c)
      BY <1>4 DEF NextPage, PagePcs, Intact, Gapless, Traces
    <2>2. PICK r, s : r = worker[w].run /\ s = StreamOf(w)
      OBVIOUS
    <2>3. Passed(r, s, c)'
      BY <1>1, <1>4, <2>1, <2>2 DEF NextPage, Passed, Got
    <2>. QED BY <1>4, <2>2, <2>3 DEF Opens
  <1>. QED BY <1>1, <1>2, <1>3, <1>4, ProceedsFrom

(* The steps that leave a worker at a page.                                *)
LEMMA PageSteps ==
  ASSUME Chain, [Next]_vars, ~Crash, NEW w \in Workers, worker'[w].pc \in PagePcs
  PROVE  \/ worker'[w] = worker[w]
         \/ (\E j \in Slots : Claim(w, j)) \/ BeginPage(w) \/ (\E early \in BOOLEAN : Fetch(w, early))
         \/ IndexPage(w) \/ MarkSeen(w) \/ Reconcile(w) \/ DeleteDoomed(w)
PROOF
  <1>1. ASSUME NEW v \in Workers, Handle(v), v # w PROVE worker'[w] = worker[w]
    <2>1. \E f : Step(v, f)
      BY <1>1 DEF Handle, Claim, Settle, StartRun, ToolsFit, ToolsFail, FanOut, GetSource,
         SaveSource, ReadRun, FinishRun, DenyNote, DenyCheck, BeginPage, Fetch, IndexPage, MarkSeen,
         NextPage, Reconcile, DeleteDoomed, StreamDone, Postpone, Unauthorized, Unavailable, Refused
    <2>. QED BY <1>1, <2>1, StepOf DEF Chain
  <1>2. ASSUME Handle(w)
        PROVE  \/ (\E j \in Slots : Claim(w, j)) \/ BeginPage(w)
               \/ (\E early \in BOOLEAN : Fetch(w, early))
               \/ IndexPage(w) \/ MarkSeen(w) \/ Reconcile(w) \/ DeleteDoomed(w)
               \/ worker'[w] = worker[w]
    BY <1>2, PcAfter DEF Handle, PagePcs, Chain
  <1>. QED BY <1>1, <1>2 DEF Next, RequestSync, CliReads, Pause, Enable, RemoveDocuments, RemoveRows,
                             Change, Rest, vars

(* A listing by key: what the next page begins after has been listed here, *)
(* or is not there.                                                        *)
LEMMA ByKey ==
  ASSUME SyncInv, ~setting.byOffset, NEW s \in Streams, NEW c \in 0..setting.items
  PROVE  /\ \A d \in NextCursor(s, c), i \in live[s] : i <= d => i <= c \/ i \in Page(s, c)
         /\ NextCursor(s, c) = {} => \A i \in live[s] : i <= c \/ i \in Page(s, c)
PROOF
  <1>1. live[s] \subseteq 1..setting.items /\ setting.items \in Nat /\ c \in Nat
    BY SettingType DEF SyncInv, TypeOK, Items
  <1>2. \A i \in live[s] : i <= c \/ i \in After(s, c)
    BY <1>1 DEF After
  <1>3. NextCursor(s, c) \subseteq Page(s, c) /\ Page(s, c) \subseteq live[s]
    BY DEF NextCursor, Page, After
  <1>4. ASSUME NEW d \in NextCursor(s, c), NEW i \in live[s], i <= d, ~(i <= c)
        PROVE  i \in Page(s, c)
    <2>1. i \notin After(s, d)
      <3>1. i \in Nat /\ d \in Nat
        BY <1>1, <1>3
      <3>. QED BY <1>4, <3>1 DEF After
    <2>. QED BY <1>2, <1>4, <2>1, Listed
  <1>. QED BY <1>2, <1>4, Listed

LEMMA TracesStay ==
  ASSUME Items' = Items, NEW f, NEW r, NEW s, Traces(f, r, s),
         Got(r, s) \subseteq Got(r, s)', away[r][s] \subseteq away'[r][s]
  PROVE  Traces(f, r, s)'
PROOF
  <1>1. f.pc = "next" => \A d \in f.next : Passed(r, s, d)'
    BY DEF Traces, Passed
  <1>. QED BY <1>1 DEF Traces

LEMMA Fetched ==
  ASSUME SyncInv, NEW w \in Workers, NEW early \in BOOLEAN, Fetch(w, early), NEW f, f = worker'[w],
         NEW s, s = StreamOf(w), NEW c, c = CursorOf(w)
  PROVE  /\ f.pc = "index" /\ f.page = Page(s, c) /\ f.next \subseteq NextCursor(s, c)
         /\ f.whole => NextCursor(s, c) = {}
         /\ f.slot = worker[w].slot /\ f.run = worker[w].run
PROOF
  <1> DEFINE next == IF early THEN {} ELSE NextCursor(s, c)
             whole == NextCursor(s, c) = {} /\ ~early
  <1>1. f = [worker[w] EXCEPT !.pc = "index", !.page = Page(s, c), !.next = next, !.whole = whole]
    BY StepOf DEF Fetch
  <1>2. next \subseteq NextCursor(s, c) /\ (whole => NextCursor(s, c) = {})
    OBVIOUS
  <1>3. worker[w] \in Local
    BY DEF SyncInv, TypeOK
  <1>. HIDE DEF next, whole
  <1>4. /\ f.pc = "index" /\ f.page = Page(s, c) /\ f.next = next /\ f.whole = whole
        /\ f.slot = worker[w].slot /\ f.run = worker[w].run
    BY <1>1, <1>3 DEF Local
  <1>. QED BY <1>2, <1>4

LEMMA FetchTraces ==
  ASSUME Intact, NEW w \in Workers, NEW early \in BOOLEAN, Fetch(w, early),
         NEW r \in RunIds, r = worker[w].run, NEW s \in Streams, s = StreamOf(w),
         NEW f, f = worker'[w]
  PROVE  Traces(f, r, s)' /\ f.slot = worker[w].slot /\ f.run = r
PROOF
  <1>1. /\ SyncInv /\ worker[w].pc = "fetch" /\ worker[w] \in Local
        /\ setting' = setting /\ Items' = Items /\ away' = away /\ seen' = seen /\ jobs' = jobs
    BY SameSetting DEF Fetch, Intact, Chain, SyncInv, TypeOK
  <1>2. PICK j \in Slots, c \in 0..setting.items :
          /\ j = worker[w].slot /\ c = CursorOf(w)
          /\ Proceeds(j) /\ jobs[j].run = r /\ jobs[j].stream = s /\ jobs[j].cursor = c
    <2>1. /\ worker[w].slot \in Slots /\ jobs[worker[w].slot] \in Job
          /\ Proceeds(worker[w].slot) /\ jobs[worker[w].slot].run = worker[w].run
      BY <1>1, Busy, Pursued DEF PagePcs
    <2>2. CursorOf(w) \in 0..setting.items
      BY <2>1 DEF CursorOf, Job
    <2>. QED BY <2>1, <2>2 DEF StreamOf, CursorOf
  <1>3. /\ f.pc = "index" /\ f.page = Page(s, c)
        /\ f.next \subseteq NextCursor(s, c)
        /\ f.whole => NextCursor(s, c) = {}
        /\ f.slot = worker[w].slot /\ f.run = r
    BY <1>1, <1>2, Fetched
  <1>4. ASSUME NEW i \in Items, i \notin Page(s, c)
        PROVE  \/ i \in Got(r, s)
               \/ /\ \A d \in NextCursor(s, c) : ~(i <= d)
                  /\ NextCursor(s, c) # {}
    <2>1. CASE i \notin live[s]
      <3>1. runs[r].status # "none"
        BY <1>1, <1>2, Busy
      <3>. QED BY <1>1, <2>1, <3>1 DEF SyncInv, AwayOK, Got
    <2>2. CASE i \in live[s] /\ i <= c
      BY <1>2, <2>2 DEF Intact, Gapless, Passed
    <2>3. CASE i \in live[s] /\ ~(i <= c)
      BY <1>1, <1>4, <2>3, ByKey DEF Intact, Orderly
    <2>. QED BY <2>1, <2>2, <2>3
  <1>5. Got(r, s)' = Got(r, s)
    BY <1>1 DEF Got
  <1>. QED BY <1>1, <1>3, <1>4, <1>5 DEF Traces

LEMMA PageTraces ==
  ASSUME Intact, [Next]_vars, NEW w \in Workers,
         IndexPage(w) \/ MarkSeen(w) \/ Reconcile(w) \/ DeleteDoomed(w),
         NEW r \in RunIds, r = worker[w].run, NEW s \in Streams, s = StreamOf(w),
         NEW f, f = worker'[w]
  PROVE  Traces(f, r, s)' /\ f.slot = worker[w].slot /\ f.run = r
PROOF
  <1>1. /\ SyncInv /\ worker[w] \in Local /\ Traces(worker[w], r, s)
        /\ setting' = setting /\ Items' = Items /\ away' = away
    BY SameSetting, SettingStays DEF IndexPage, MarkSeen, Reconcile, DeleteDoomed, PagePcs,
       Intact, Gapless, Chain, SyncInv, TypeOK
  <1>2. CASE IndexPage(w)
    <2>1. f = [worker[w] EXCEPT !.pc = "mark"] /\ worker[w].pc = "index" /\ seen' = seen
      BY <1>1, <1>2, StepOf DEF IndexPage
    <2>2. /\ f.pc = "mark" /\ f.page = worker[w].page /\ f.next = worker[w].next
          /\ f.whole = worker[w].whole /\ f.slot = worker[w].slot /\ f.run = r
      BY <1>1, <2>1 DEF Local
    <2>3. Got(r, s)' = Got(r, s)
      BY <1>1, <2>1 DEF Got
    <2>. QED BY <1>1, <2>1, <2>2, <2>3 DEF Traces
  <1>3. CASE MarkSeen(w)
    <2>1. f = [worker[w] EXCEPT !.page = {}, !.whole = FALSE,
                    !.pc = IF worker[w].next # {} THEN "next"
                           ELSE IF worker[w].whole THEN "reconcile" ELSE "done"]
      BY <1>1, <1>3, StepOf DEF MarkSeen
    <2>2. /\ worker[w].pc = "mark" /\ f.next = worker[w].next
          /\ f.pc = IF worker[w].next # {} THEN "next"
                    ELSE IF worker[w].whole THEN "reconcile" ELSE "done"
          /\ f.slot = worker[w].slot /\ f.run = r
      BY <1>1, <1>3, <2>1 DEF Local, MarkSeen
    <2>3. PICK new : /\ new = seen[r][s] \cup worker[w].page
                     /\ seen' = [seen EXCEPT ![r][s] = new]
      BY <1>3 DEF MarkSeen, Marked
    <2>4. seen'[r][s] = new
      BY <1>1, <2>3 DEF SyncInv, TypeOK
    <2>5. Got(r, s)' = Got(r, s) \cup worker[w].page
      BY <1>1, <2>3, <2>4 DEF Got
    <2>6. f.pc = "next" => \A d \in f.next : Passed(r, s, d)'
      BY <1>1, <2>2, <2>5 DEF Traces, Passed
    <2>7. f.pc = "reconcile" => Items \subseteq Got(r, s)'
      BY <1>1, <2>2, <2>5 DEF Traces
    <2>8. f.pc \in {"next", "reconcile", "done"}
      BY <2>2
    <2>. QED BY <1>1, <2>2, <2>6, <2>7, <2>8 DEF Traces
  <1>4. CASE Reconcile(w)
    <2>1. PICK kept, doomed : /\ doomed = Doomed(w) \ kept
                              /\ f = [worker[w] EXCEPT !.pc = "delete", !.doomed = doomed]
      BY <1>1, <1>4, StepOf DEF Reconcile
    <2>2. /\ worker[w].pc = "reconcile" /\ f.pc = "delete" /\ f.doomed = doomed
          /\ f.slot = worker[w].slot /\ f.run = r
      BY <1>1, <1>4, <2>1 DEF Local, Reconcile
    <2>3. doomed \subseteq index[s] \ seen[r][s]
      BY <2>1 DEF Doomed, Missing
    <2>4. index[s] \subseteq Items
      BY <1>1 DEF SyncInv, TypeOK
    <2>5. Items \subseteq away[r][s] \cup seen[r][s]
      BY <1>1, <2>2 DEF Traces, Got
    <2>. QED BY <1>1, <2>2, <2>3, <2>4, <2>5 DEF Traces
  <1>5. CASE DeleteDoomed(w)
    <2>1. f = [worker[w] EXCEPT !.pc = "done", !.doomed = {}]
      BY <1>1, <1>5, StepOf DEF DeleteDoomed
    <2>2. f.pc = "done" /\ f.slot = worker[w].slot /\ f.run = r
      BY <1>1, <2>1 DEF Local
    <2>. QED BY <2>2 DEF Traces
  <1>. QED BY <1>2, <1>3, <1>4, <1>5

LEMMA PagesTrace ==
  ASSUME Intact, [Next]_vars, ~Crash, NEW w \in Workers, worker'[w].pc \in PagePcs
  PROVE  Traces(worker[w], worker[w].run, StreamOf(w))'
PROOF
  <1>1. Chain /\ SyncInv /\ SyncInv' /\ setting' = setting /\ Items' = Items
    BY Steps, SettingStays, SameSetting DEF Intact, Chain
  <1>2. ASSUME worker'[w].pc \in {"page", "fetch", "done"}
        PROVE  Traces(worker[w], worker[w].run, StreamOf(w))'
    BY <1>2 DEF Traces
  <1>3. ASSUME worker[w].pc # "idle", worker'[w].slot = worker[w].slot
        PROVE  StreamOf(w)' = StreamOf(w)
    BY <1>1, <1>3, JobStands DEF PagePcs
  <1>4. CASE worker'[w] = worker[w]
    <2>1. PICK r \in RunIds, s \in Streams, j \in Slots :
            /\ r = worker[w].run /\ s = StreamOf(w) /\ Proceeds(j) /\ r = jobs[j].run
      BY <1>1, <1>4, Pursued
    <2>2. StreamOf(w)' = s /\ worker'[w].run = r
      BY <1>3, <1>4, <2>1 DEF PagePcs
    <2>3. PICK f : f = worker[w]
      OBVIOUS
    <2>4. Traces(f, r, s)
      BY <1>4, <2>1, <2>3 DEF Intact, Gapless
    <2>5. Traces(f, r, s)'
      BY <1>1, <2>1, <2>4, GotStays, TracesStay
    <2>. QED BY <1>4, <2>2, <2>3, <2>5
  <1>5. ASSUME NEW early \in BOOLEAN, Fetch(w, early)
        PROVE  Traces(worker[w], worker[w].run, StreamOf(w))'
    <2>1. worker[w].pc \in PagePcs
      BY <1>5 DEF Fetch, PagePcs
    <2>2. PICK r \in RunIds, s \in Streams : r = worker[w].run /\ s = StreamOf(w)
      BY <1>1, <2>1, Pursued
    <2>3. PICK f : f = worker'[w]
      OBVIOUS
    <2>4. Traces(f, r, s)' /\ f.slot = worker[w].slot /\ f.run = r
      BY <1>5, <2>2, <2>3, FetchTraces
    <2>5. StreamOf(w)' = s
      BY <1>3, <2>1, <2>2, <2>3, <2>4 DEF PagePcs
    <2>. QED BY <2>3, <2>4, <2>5
  <1>6. ASSUME IndexPage(w) \/ MarkSeen(w) \/ Reconcile(w) \/ DeleteDoomed(w)
        PROVE  Traces(worker[w], worker[w].run, StreamOf(w))'
    <2>1. worker[w].pc \in PagePcs
      BY <1>6 DEF IndexPage, MarkSeen, Reconcile, DeleteDoomed, PagePcs
    <2>2. PICK r \in RunIds, s \in Streams : r = worker[w].run /\ s = StreamOf(w)
      BY <1>1, <2>1, Pursued
    <2>3. PICK f : f = worker'[w]
      OBVIOUS
    <2>4. Traces(f, r, s)' /\ f.slot = worker[w].slot /\ f.run = r
      BY <1>6, <2>2, <2>3, PageTraces
    <2>5. StreamOf(w)' = s
      BY <1>3, <2>1, <2>2, <2>3, <2>4 DEF PagePcs
    <2>. QED BY <2>3, <2>4, <2>5
  <1>7. ASSUME BeginPage(w) \/ \E j \in Slots : Claim(w, j)
        PROVE  Traces(worker[w], worker[w].run, StreamOf(w))'
    BY <1>1, <1>2, <1>7, PcAfter DEF PagePcs
  <1>. QED BY <1>1, <1>4, <1>5, <1>6, <1>7, PageSteps

LEMMA GaplessNext ==
  SyncInv /\ ChainInv /\ FirmInv /\ GaplessInv /\ [Next]_vars => GaplessInv'
PROOF
  <1> SUFFICES ASSUME SyncInv, ChainInv, FirmInv, GaplessInv, [Next]_vars, Orderly'
               PROVE  (Unremoved /\ Gapless)'
    BY DEF GaplessInv
  <1>1. setting' = setting /\ Streams' = Streams /\ Slots' = Slots /\ SyncInv'
    BY Steps, SettingStays, SameSetting
  <1>2. bounds.crashes = 0 /\ ~Crash
    BY NoCrash DEF Orderly
  <1>3. Intact
    BY <1>1, <1>2 DEF Orderly, Undivided, GaplessInv, FirmInv, Intact, Chain
  <1>4. Gapless'
    BY <1>1, <1>2, <1>3, JobsPassed, PagesTrace DEF Gapless
  <1>. QED BY <1>2, <1>3, <1>4, CliStays DEF Intact

LEMMA GaplessBegins == Init => GaplessInv
PROOF
  <1> SUFFICES ASSUME Init PROVE GaplessInv
    OBVIOUS
  <1>1. \A w \in Workers : worker[w].pc = "idle"
    BY DEF Init, Idle
  <1>2. \A j \in Slots : ~Proceeds(j)
    BY <1>1 DEF Init, Proceeds, FreeSlot
  <1>3. Unremoved
    BY DEF Init, Unremoved, NoRun
  <1>. QED BY <1>1, <1>2, <1>3 DEF GaplessInv, Gapless, PagePcs

(* Without a checker, too, only documents whose item the source lacked at  *)
(* some time since the run began are deleted, whatever runs overlap, the   *)
(* source changes, calls answer and the operator pauses - if the listing   *)
(* is by key and no page goes on when its run is over: the server has not  *)
(* died, the source is not removed, and calls are not denied unless there  *)
(* is but one stream.  The run SourceSync_forgotten has a crash, and a     *)
(* denial with two streams, where it fails.                                *)
THEOREM ListedDeletions ==
  Spec => [](( /\ ~setting.byOffset /\ bounds.crashes = 0
               /\ "remove" \notin setting.commands
               /\ ("unauthorized" \in setting.failures => \A s, t \in Streams : s = t) )
             => DeletionsJustified)
PROOF
  <1>1. SyncInv /\ GaplessInv => (Orderly => DeletionsJustified)
    <2> SUFFICES ASSUME GaplessInv, Orderly, NEW w \in Workers, worker[w].pc = "delete"
                 PROVE  worker[w].doomed \subseteq away[worker[w].run][StreamOf(w)]
      BY DEF DeletionsJustified
    <2>. QED BY DEF GaplessInv, Gapless, Traces, PagePcs
  <1>2. Spec => [](SyncInv /\ ChainInv /\ FirmInv /\ GaplessInv)
    BY Beginning, Steps, ChainBegins, ChainNext, FirmBegins, FirmNext, GaplessBegins, GaplessNext,
       PTL DEF Spec
  <1>3. Spec => [](Orderly => DeletionsJustified)
    BY <1>1, <1>2, PTL
  <1>. QED BY <1>3, PTL DEF Orderly, Undivided
===============================================================================
