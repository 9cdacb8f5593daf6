----------------------------- MODULE AccessProofs -----------------------------
(***************************************************************************)
(* How sources come to be used.  For every set of tools, every reading of  *)
(* their names and any number of syncs: no tool whose name writes is       *)
(* called, and a sync calls what has been checked for it.  For any number  *)
(* of requests, deliveries and logins, and any limits of time: a code      *)
(* reaches the login it answers, and a login has one answer.  For any      *)
(* number of connections and tokens: what was authorized once keeps        *)
(* working unattended.                                                     *)
(***************************************************************************)
EXTENDS ToolGate, OAuthHandoff, TokenStore, FiniteSetTheorems, TLAPS

-------------------------------------------------------------------------------
(* The tools that are called.                                              *)

GateRowType == [plan : SUBSET Tools, approved : SUBSET Tools,
            unannotated : BOOLEAN, enabled : BOOLEAN]
ProcessType == [pc : {"idle", "loaded", "listed", "read"}, row : GateRowType, listed : SUBSET Tools]
SyncType == [state : {"none", "begun", "running", "invalid"}, row : GateRowType,
             checked : SUBSET Tools]

GateTypeOK ==
    /\ hints \in [Tools -> Hints]
    /\ row \in GateRowType /\ command \in ProcessType /\ handler \in ProcessType
    /\ syncs \in [SyncIds -> SyncType]
    /\ restored \in BOOLEAN

(* Whoever holds a plan, it has no tool whose name writes.                 *)
Harmless(plan) == plan \cap WriteNames = {}
NoWritePlanned ==
    /\ Harmless(row.plan) /\ Harmless(command.row.plan) /\ Harmless(handler.row.plan)
    /\ Harmless(command.listed)

(* The plan's tools are those the sync still has to look at, or they have  *)
(* been checked for it, unless an old plan has been put back.              *)
Covered(s) ==
    /\ syncs[s].state = "begun" => row.plan \subseteq syncs[s].row.plan \cup syncs[s].checked
    /\ syncs[s].state = "running" => row.plan \subseteq syncs[s].checked
PlanCovered == ~restored => \A s \in SyncIds : Covered(s)

GateInv == GateTypeOK /\ NoWritePlanned /\ PlanCovered

-----------------------------------------------------------------------------
LEMMA UsableReads ==
  ASSUME NEW u PROVE Usable(u) \subseteq Tools /\ Harmless(Usable(u))
  BY DEF Usable, Approvable, ClassifyTool, Harmless

LEMMA GateInitHolds == GateInit => GateInv
PROOF
  <1> SUFFICES ASSUME GateInit PROVE GateInv
    OBVIOUS
  <1>1. NoPlan \in GateRowType /\ Idle \in ProcessType /\ Harmless(NoPlan.plan)
        /\ Harmless(Idle.row.plan) /\ Harmless(Idle.listed)
    BY DEF NoPlan, Idle, GateRowType, ProcessType, Harmless
  <1>2. syncs \in [SyncIds -> SyncType] /\ \A s \in SyncIds : syncs[s].state = "none"
    BY <1>1 DEF GateInit, SyncType
  <1>3. GateTypeOK
    BY <1>1, <1>2 DEF GateInit, GateTypeOK
  <1>4. NoWritePlanned
    BY <1>1 DEF GateInit, NoWritePlanned
  <1>5. PlanCovered
    BY <1>2 DEF PlanCovered, Covered
  <1>. QED BY <1>3, <1>4, <1>5 DEF GateInv

LEMMA SaveKeepsTypes ==
  ASSUME GateTypeOK, NEW r \in GateRowType, NEW vetted \in SUBSET Tools, Save(r, vetted)
  PROVE  /\ row' = r /\ syncs' \in [SyncIds -> SyncType]
         /\ \A s \in SyncIds : /\ syncs'[s].state = syncs[s].state
                               /\ syncs'[s].row = syncs[s].row
                               /\ syncs'[s].checked = syncs[s].checked \cup vetted
PROOF
  <1>1. row' = r /\ syncs' = [s \in SyncIds |-> [syncs[s] EXCEPT !.checked = @ \cup vetted]]
    BY DEF Save
  <1>2. \A s \in SyncIds : syncs[s] \in SyncType
    BY DEF GateTypeOK
  <1>3. \A s \in SyncIds : /\ [syncs[s] EXCEPT !.checked = @ \cup vetted] \in SyncType
                           /\ syncs'[s] = [syncs[s] EXCEPT !.checked = @ \cup vetted]
    BY <1>1, <1>2 DEF SyncType
  <1>. QED BY <1>1, <1>2, <1>3 DEF SyncType

(* A plan that is saved with its tools checked covers every sync.          *)
LEMMA SaveCovers ==
  ASSUME GateInv, NEW r \in GateRowType, Harmless(r.plan), Save(r, r.plan) \/ (r.plan = {} /\ Save(r, {})),
         restored' = restored
  PROVE  /\ row' \in GateRowType /\ Harmless(row'.plan)
         /\ syncs' \in [SyncIds -> SyncType] /\ PlanCovered'
PROOF
  <1>1. r.plan \in SUBSET Tools /\ Save(r, r.plan)
    BY DEF GateRowType
  <1>2. /\ row' = r /\ syncs' \in [SyncIds -> SyncType]
        /\ \A s \in SyncIds : syncs'[s].checked = syncs[s].checked \cup r.plan
    BY <1>1, SaveKeepsTypes DEF GateInv
  <1>. QED BY <1>2 DEF PlanCovered, Covered

(* So does the plan that is there already.                                 *)
LEMMA SaveAgain ==
  ASSUME GateInv, NEW r \in GateRowType, Harmless(r.plan), Save(r, {}),
         restored' = (restored \/ r.plan # row.plan)
  PROVE  /\ row' \in GateRowType /\ Harmless(row'.plan)
         /\ syncs' \in [SyncIds -> SyncType] /\ PlanCovered'
PROOF
  <1>1. /\ row' = r /\ syncs' \in [SyncIds -> SyncType]
        /\ \A s \in SyncIds : /\ syncs'[s].state = syncs[s].state
                              /\ syncs'[s].row = syncs[s].row
                              /\ syncs'[s].checked = syncs[s].checked \cup {}
    BY SaveKeepsTypes DEF GateInv
  <1>2. ~restored' => ~restored /\ row'.plan = row.plan
    BY <1>1 DEF GateInv, GateTypeOK
  <1>3. PlanCovered'
    BY <1>1, <1>2 DEF GateInv, PlanCovered, Covered
  <1>. QED BY <1>1, <1>3

-----------------------------------------------------------------------------
LEMMA QuietStep == GateInv /\ Quietly => GateInv'
PROOF
  <1> SUFFICES ASSUME GateInv, Quietly PROVE GateInv'
    OBVIOUS
  <1> USE DEF GateInv
  <1>0. /\ NoPlan \in GateRowType /\ Idle \in ProcessType
        /\ Harmless(NoPlan.plan) /\ Harmless(Idle.row.plan) /\ Harmless(Idle.listed)
    BY DEF NoPlan, Idle, GateRowType, ProcessType, Harmless
  <1>1. ASSUME NEW t \in Tools, NEW hint \in Hints, Annotate(t, hint) PROVE GateInv'
    BY <1>1 DEF Annotate, GateTypeOK, NoWritePlanned, PlanCovered, Covered
  <1>2. ASSUME NEW u \in BOOLEAN, Add(u) PROVE GateInv'
    <2>1. /\ [NoPlan EXCEPT !.unannotated = u] \in GateRowType
          /\ [NoPlan EXCEPT !.unannotated = u].plan = {}
      BY DEF NoPlan, GateRowType
    <2>2. Harmless([NoPlan EXCEPT !.unannotated = u].plan)
      BY <2>1 DEF Harmless
    <2>3. /\ row' \in GateRowType /\ Harmless(row'.plan)
          /\ syncs' \in [SyncIds -> SyncType] /\ PlanCovered'
      BY <1>2, <2>1, <2>2, SaveCovers DEF Add
    <2>. QED BY <1>2, <2>3 DEF Add, GateTypeOK, NoWritePlanned
  <1>3. CASE Load
    <2>1. command' \in ProcessType /\ command'.row = row /\ command'.listed = {}
      BY <1>3 DEF Load, Idle, ProcessType, GateTypeOK
    <2>2. Harmless({})
      BY DEF Harmless
    <2>. QED BY <1>3, <2>1, <2>2 DEF Load, GateTypeOK, NoWritePlanned, PlanCovered, Covered
  <1>4. CASE ListTools
    <2> DEFINE found == Usable(command.row.unannotated)
    <2>1. found \subseteq Tools /\ Harmless(found)
      BY UsableReads
    <2>2. command' \in ProcessType /\ command'.row = command.row /\ command'.listed = found
      BY <1>4, <2>1 DEF ListTools, ProcessType, GateTypeOK
    <2>. QED BY <1>4, <2>1, <2>2 DEF ListTools, GateTypeOK, NoWritePlanned, PlanCovered, Covered
  <1>5. CASE Commit
    <2>1. PICK r \in {Import(p) : p \in SUBSET Tools} \cup {AddStream(p) : p \in SUBSET Tools}
                     \cup {Enabled} : Valid(r) /\ Save(r, r.plan)
      BY <1>5 DEF Commit
    <2>2. command.row \in GateRowType
      BY DEF GateTypeOK, ProcessType
    <2>3. r \in GateRowType
      <3>1. \A q \in SUBSET Tools : Import(q) \in GateRowType
        BY <2>2 DEF Import, GateRowType
      <3>2. \A q \in SUBSET Tools : AddStream(q) \in GateRowType
        BY <2>2 DEF AddStream, GateRowType
      <3>3. Enabled \in GateRowType
        BY <2>2 DEF Enabled, GateRowType
      <3>. QED BY <2>1, <3>1, <3>2, <3>3
    <2>4. Harmless(r.plan) /\ r.plan \in SUBSET Tools
      BY <2>1, <2>3 DEF Valid, NoWritePlanned, Harmless, GateRowType
    <2>5. /\ row' \in GateRowType /\ Harmless(row'.plan)
          /\ syncs' \in [SyncIds -> SyncType] /\ PlanCovered'
      BY <1>5, <2>1, <2>3, <2>4, SaveCovers DEF Commit
    <2>. QED BY <1>0, <1>5, <2>5 DEF Commit, GateTypeOK, NoWritePlanned
  <1>6. CASE ShowTools
    <2>1. command.row \in GateRowType /\ Harmless(command.row.plan)
      BY DEF GateTypeOK, ProcessType, NoWritePlanned
    <2>2. /\ row' = command.row /\ restored' \in BOOLEAN
          /\ syncs' = [s \in SyncIds |-> [syncs[s] EXCEPT !.checked = @ \cup {}]]
      BY <1>6 DEF ShowTools, Save, GateTypeOK
    <2>3. /\ row' \in GateRowType /\ Harmless(row'.plan)
          /\ syncs' \in [SyncIds -> SyncType] /\ PlanCovered'
      BY <1>6, <2>1, SaveAgain DEF ShowTools
    <2>. QED BY <1>0, <1>6, <2>2, <2>3 DEF ShowTools, GateTypeOK, NoWritePlanned
  <1>7. CASE Abandon
    BY <1>0, <1>7 DEF Abandon, GateTypeOK, NoWritePlanned, PlanCovered, Covered
  <1>8. CASE ReadRow
    <2>1. handler' \in ProcessType /\ handler'.row = row
      BY <1>8 DEF ReadRow, Idle, ProcessType, GateTypeOK
    <2>. QED BY <1>8, <2>1 DEF ReadRow, GateTypeOK, NoWritePlanned, PlanCovered, Covered
  <1>9. ASSUME NEW s \in SyncIds, BeginSync(s) PROVE GateInv'
    <2> DEFINE new == [state |-> "begun", row |-> row, checked |-> {}]
    <2>1. new \in SyncType /\ new.state = "begun" /\ new.row = row
      BY DEF SyncType, GateTypeOK
    <2>2. syncs' = [syncs EXCEPT ![s] = new]
      BY <1>9 DEF BeginSync
    <2> HIDE DEF new
    <2>3. /\ syncs' \in [SyncIds -> SyncType]
          /\ \A q \in SyncIds : syncs'[q] = IF q = s THEN new ELSE syncs[q]
      BY <2>1, <2>2 DEF GateTypeOK
    <2>4. PlanCovered'
      BY <1>9, <2>1, <2>3 DEF BeginSync, PlanCovered, Covered
    <2>. QED BY <1>9, <2>3, <2>4 DEF BeginSync, GateTypeOK, NoWritePlanned
  <1>10. ASSUME NEW s \in SyncIds, CheckPlan(s) PROVE GateInv'
    <2> DEFINE usable == Usable(syncs[s].row.unannotated)
               new == [syncs[s] EXCEPT
                         !.state = IF Passes(syncs[s].row) THEN "running" ELSE "invalid",
                         !.row = NoPlan,
                         !.checked = @ \cup (syncs[s].row.plan \cap usable)]
    <2>1. syncs[s] \in SyncType /\ usable \subseteq Tools
      BY UsableReads DEF GateTypeOK
    <2>2. /\ new \in SyncType
          /\ new.state = IF Passes(syncs[s].row) THEN "running" ELSE "invalid"
          /\ new.checked = syncs[s].checked \cup (syncs[s].row.plan \cap usable)
      BY <1>0, <2>1 DEF SyncType
    <2>3. syncs' = [syncs EXCEPT ![s] = new]
      BY <1>10, <2>1 DEF CheckPlan, GateTypeOK
    <2>4. Passes(syncs[s].row) => syncs[s].row.plan \subseteq usable
      BY DEF Passes
    <2> HIDE DEF new, usable
    <2>5. /\ syncs' \in [SyncIds -> SyncType]
          /\ \A q \in SyncIds : syncs'[q] = IF q = s THEN new ELSE syncs[q]
      BY <2>2, <2>3 DEF GateTypeOK
    <2>6. PlanCovered'
      BY <1>10, <2>2, <2>4, <2>5 DEF CheckPlan, PlanCovered, Covered
    <2>. QED BY <1>10, <2>5, <2>6 DEF CheckPlan, GateTypeOK, NoWritePlanned
  <1>11. ASSUME NEW on \in {FALSE, handler.row.enabled}, SaveRow(on) PROVE GateInv'
    <2> DEFINE new == [handler.row EXCEPT !.enabled = on]
    <2>1. new \in GateRowType /\ new.plan = handler.row.plan
      BY <1>11 DEF GateTypeOK, ProcessType, GateRowType
    <2>2. Harmless(new.plan)
      BY <2>1 DEF NoWritePlanned
    <2>3. Save(new, {}) /\ restored' = (restored \/ new.plan # row.plan)
      BY <1>11, <2>1 DEF SaveRow
    <2> HIDE DEF new
    <2>4. /\ row' \in GateRowType /\ Harmless(row'.plan)
          /\ syncs' \in [SyncIds -> SyncType] /\ PlanCovered' /\ restored' \in BOOLEAN
      BY <2>1, <2>2, <2>3, SaveAgain DEF GateTypeOK
    <2>. QED BY <1>0, <1>11, <2>4 DEF SaveRow, GateTypeOK, NoWritePlanned
  <1>. QED BY <1>1, <1>2, <1>3, <1>4, <1>5, <1>6, <1>7, <1>8, <1>9, <1>10, <1>11 DEF Quietly

LEMMA CallStep ==
  ASSUME GateInv,
         \E t \in Tools : Sample(t) \/ Preview(t) \/ \E s \in SyncIds : Call(s, t)
  PROVE  GateInv' /\ NoWriteIsCalled' /\ CheckedBeforeCalled'
PROOF
  <1>1. PICK t \in Tools : Sample(t) \/ Preview(t) \/ \E s \in SyncIds : Call(s, t)
    OBVIOUS
  <1>2. UNCHANGED <<hints, row, command, handler, syncs, restored>>
    BY <1>1 DEF Sample, Preview, Call
  <1>3. GateInv'
    BY <1>2 DEF GateInv, GateTypeOK, NoWritePlanned, PlanCovered, Covered
  <1>4. t \notin WriteNames
    BY <1>1 DEF Sample, Preview, Call, GateInv, NoWritePlanned, Harmless
  <1>5. CASE Sample(t) \/ Preview(t)
    <2>1. called' = <<0, t>>
      BY <1>5 DEF Sample, Preview
    <2>. QED BY <1>3, <1>4, <2>1 DEF NoWriteIsCalled, CheckedBeforeCalled
  <1>6. ASSUME NEW s \in SyncIds, Call(s, t) PROVE NoWriteIsCalled' /\ CheckedBeforeCalled'
    <2>1. called' = <<s, t>> /\ syncs[s].state = "running" /\ t \in row.plan
      BY <1>6 DEF Call
    <2>2. ~restored => t \in syncs[s].checked
      BY <2>1 DEF GateInv, PlanCovered, Covered
    <2>. QED BY <1>2, <1>4, <2>1, <2>2 DEF NoWriteIsCalled, CheckedBeforeCalled
  <1>. QED BY <1>1, <1>3, <1>5, <1>6

LEMMA GateStep ==
  ASSUME GateInv, [GateNext]_gateVars, NoWriteIsCalled, CheckedBeforeCalled
  PROVE  GateInv' /\ NoWriteIsCalled' /\ CheckedBeforeCalled'
PROOF
  <1>1. CASE Quietly /\ called' = <<>>
    BY <1>1, QuietStep DEF NoWriteIsCalled, CheckedBeforeCalled
  <1>2. CASE \E t \in Tools : Sample(t) \/ Preview(t) \/ \E s \in SyncIds : Call(s, t)
    BY <1>2, CallStep
  <1>3. CASE UNCHANGED gateVars
    BY <1>3 DEF gateVars, GateInv, GateTypeOK, NoWritePlanned, PlanCovered, Covered,
                NoWriteIsCalled, CheckedBeforeCalled
  <1>. QED BY <1>1, <1>2, <1>3 DEF GateNext

LEMMA Calls == GateSpec => [](NoWriteIsCalled /\ CheckedBeforeCalled)
PROOF
  <1>1. GateInit => NoWriteIsCalled /\ CheckedBeforeCalled
    BY DEF GateInit, NoWriteIsCalled, CheckedBeforeCalled
  <1>. QED BY <1>1, GateInitHolds, GateStep, PTL DEF GateSpec

(* No tool is called whose name says that it writes, whatever its server   *)
(* says of it and whatever plan was imported: classify_tool looks at the   *)
(* name first, and nothing saves a plan that validate_plan did not pass.   *)
THEOREM NoWrites == GateSpec => []NoWriteIsCalled
  BY Calls, PTL

(* A sync calls only what it, or a change of the plan since, has found     *)
(* usable, unless _set_state or cmd_tools has put an older plan back.      *)
THEOREM Checked == GateSpec => []CheckedBeforeCalled
  BY Calls, PTL

-------------------------------------------------------------------------------
(* The OAuth logins.                                                       *)

RowType == [status : {"none", "starting", "waiting", "code_received", "failed", "succeeded"},
            url : Nat, oauth_state : Nat, code : Nat, age : Nat]
AttemptType ==
  [pc : {"none", "queued", "connect", "callback", "exchange", "connected", "failed", "over"},
   deliveries : Nat, state : Nat, code : Nat, answered : Nat, waited : Nat]

HandoffTypeOK ==
    /\ oauth \in [Requests -> RowType] /\ attempt \in [Requests -> AttemptType]
    /\ logins \in Nat /\ spent \subseteq 1..logins
    /\ returned \subseteq (1..logins) \X Nat /\ IsFiniteSet(returned)


(* A row waits for the last login of its request, and no other row does.   *)
RowsOK ==
  \A r \in Requests :
    /\ oauth[r].oauth_state <= logins
    /\ \A q \in Requests : q # r => oauth[q].oauth_state = 0
                                    \/ oauth[q].oauth_state # oauth[r].oauth_state
    /\ oauth[r].status = "waiting" => \A a \in returned : a[1] # oauth[r].oauth_state
    /\ oauth[r].status = "code_received" =>
         /\ oauth[r].code = oauth[r].oauth_state
         /\ <<oauth[r].oauth_state, oauth[r].oauth_state>> \in returned

(* An attempt's login is its own, and unused while the attempt may use it. *)
Underway == {r \in Requests : attempt[r].pc \in {"callback", "exchange"}}
AttemptsOK ==
  \A r \in Requests :
    /\ r \in Underway => /\ attempt[r].state \in (1..logins) \ spent
                         /\ \A q \in Underway : q # r => attempt[q].state # attempt[r].state
    /\ attempt[r].pc = "connect" => attempt[r].state = 0
    /\ attempt[r].pc = "callback" =>
         oauth[r].status = "none" \/ oauth[r].oauth_state = attempt[r].state
    /\ attempt[r].pc = "exchange" =>
         /\ attempt[r].code = attempt[r].state /\ attempt[r].answered = attempt[r].state
         /\ <<attempt[r].state, attempt[r].state>> \in returned
    /\ attempt[r].pc = "connected" =>
         attempt[r].state = 0 \/ <<attempt[r].state, attempt[r].state>> \in returned
    /\ oauth[r].status = "succeeded" =>
         /\ attempt[r].pc = "over"
         /\ attempt[r].state = 0 \/ <<attempt[r].state, attempt[r].state>> \in returned

OneAnswer == \A a, b \in returned : a[1] = b[1] => a = b

HandoffInv == HandoffTypeOK /\ RowsOK /\ AttemptsOK /\ OneAnswer

-----------------------------------------------------------------------------
LEMMA HandoffInitHolds == HandoffInit => HandoffInv
PROOF
  <1> SUFFICES ASSUME HandoffInit PROVE HandoffInv
    OBVIOUS
  <1>1. NoRow \in RowType /\ NoAttempt \in AttemptType
    BY DEF NoRow, NoAttempt, RowType, AttemptType
  <1>2. \A r \in Requests : oauth[r] = NoRow /\ attempt[r] = NoAttempt
    BY DEF HandoffInit
  <1>3. HandoffTypeOK
    BY <1>1, FS_EmptySet DEF HandoffInit, HandoffTypeOK
  <1>4. RowsOK
    BY <1>2, <1>3 DEF HandoffInit, HandoffTypeOK, RowsOK, NoRow
  <1>5. AttemptsOK
    BY <1>2 DEF AttemptsOK, Underway, NoRow, NoAttempt
  <1>. QED BY <1>3, <1>4, <1>5 DEF HandoffInit, OneAnswer, HandoffInv

(* What only one request's attempt changes, the logins and codes aside.    *)
LEMMA AttemptMoves ==
  ASSUME HandoffInv, NEW r \in Requests, NEW a \in AttemptType, Attempt(r, a),
         UNCHANGED <<oauth, logins, spent, returned>>,
         a.pc \in {"callback", "exchange"} =>
            attempt[r].pc \in {"callback", "exchange"} /\ a.state = attempt[r].state,
         a.pc = "connect" => a.state = 0,
         a.pc = "callback" => attempt[r].pc = "callback",
         a.pc = "exchange" => /\ a.code = a.state /\ a.answered = a.state
                              /\ <<a.state, a.state>> \in returned,
         a.pc = "connected" => a.state = 0 \/ <<a.state, a.state>> \in returned,
         oauth[r].status # "succeeded"
  PROVE  HandoffInv'
PROOF
  <1>1. /\ attempt' \in [Requests -> AttemptType]
        /\ \A q \in Requests : attempt'[q] = IF q = r THEN a ELSE attempt[q]
    BY DEF HandoffInv, HandoffTypeOK, Attempt
  <1>2. HandoffTypeOK' /\ RowsOK' /\ OneAnswer'
    BY <1>1 DEF HandoffInv, HandoffTypeOK, RowsOK, OneAnswer
  <1>3. Underway' \subseteq Underway /\ \A q \in Underway' : attempt'[q].state = attempt[q].state
    BY <1>1 DEF Underway
  <1>4. AttemptsOK'
    BY <1>1, <1>3 DEF HandoffInv, AttemptsOK
  <1>. QED BY <1>2, <1>4 DEF HandoffInv

(* What only one request's row changes, and its attempt without a login.   *)
LEMMA RowMoves ==
  ASSUME HandoffInv, NEW r \in Requests, NEW entry \in RowType, NEW a \in AttemptType,
         Update(r, entry), Attempt(r, a), UNCHANGED <<logins, spent, returned>>,
         entry.oauth_state = oauth[r].oauth_state,
         entry.status \in {"failed", "succeeded"},
         a.pc = "over",
         entry.status = "succeeded" => a.state = 0 \/ <<a.state, a.state>> \in returned,
         oauth[r].status # "succeeded"
  PROVE  HandoffInv'
PROOF
  <1>1. /\ attempt' \in [Requests -> AttemptType]
        /\ \A q \in Requests : attempt'[q] = IF q = r THEN a ELSE attempt[q]
    BY DEF HandoffInv, HandoffTypeOK, Attempt
  <1>2. /\ oauth' \in [Requests -> RowType]
        /\ \A q \in Requests : oauth'[q] = oauth[q] \/ (q = r /\ oauth'[q] = entry)
    BY DEF HandoffInv, HandoffTypeOK, Update
  <1>3. HandoffTypeOK' /\ OneAnswer'
    BY <1>1, <1>2 DEF HandoffInv, HandoffTypeOK, OneAnswer
  <1>4. RowsOK'
    <2>1. \A q \in Requests : oauth'[q].oauth_state = oauth[q].oauth_state
                              /\ \/ oauth'[q].status = oauth[q].status
                                    /\ oauth'[q].code = oauth[q].code
                                 \/ oauth'[q].status \in {"failed", "succeeded"}
      BY <1>2
    <2>. QED BY <2>1 DEF HandoffInv, RowsOK
  <1>5. Underway' \subseteq Underway /\ \A q \in Underway' : attempt'[q].state = attempt[q].state
    BY <1>1 DEF Underway
  <1>6. AttemptsOK'
    BY <1>1, <1>2, <1>5 DEF HandoffInv, AttemptsOK
  <1>. QED BY <1>3, <1>4, <1>6 DEF HandoffInv

-----------------------------------------------------------------------------
LEMMA BeginStep == ASSUME HandoffInv, NEW r \in Requests, BeginRequest(r) PROVE HandoffInv'
PROOF
  <1> DEFINE entry == [NoRow EXCEPT !.status = "starting"]
             a == [NoAttempt EXCEPT !.pc = "queued"]
  <1>1. /\ entry \in RowType /\ entry.status = "starting" /\ entry.oauth_state = 0
        /\ NoRow \in RowType /\ NoRow.status = "none" /\ NoRow.oauth_state = 0
        /\ a \in AttemptType /\ a.pc = "queued"
    BY DEF NoRow, NoAttempt, RowType, AttemptType
  <1>2. /\ oauth' = [q \in Requests |-> IF q = r THEN entry ELSE NoRow]
        /\ Attempt(r, a) /\ UNCHANGED <<logins, spent, returned>>
    BY DEF BeginRequest
  <1> HIDE DEF entry, a
  <1>3. /\ oauth' \in [Requests -> RowType]
        /\ \A q \in Requests : /\ oauth'[q].oauth_state = 0
                               /\ oauth'[q].status \in {"none", "starting"}
                               /\ q # r => oauth'[q].status = "none"
    BY <1>1, <1>2
  <1>4. /\ attempt' \in [Requests -> AttemptType]
        /\ \A q \in Requests : attempt'[q] = IF q = r THEN a ELSE attempt[q]
    BY <1>1, <1>2 DEF HandoffInv, HandoffTypeOK, Attempt
  <1>5. HandoffTypeOK' /\ OneAnswer'
    BY <1>2, <1>3, <1>4 DEF HandoffInv, HandoffTypeOK, OneAnswer
  <1>6. RowsOK'
    BY <1>2, <1>3 DEF HandoffInv, HandoffTypeOK, RowsOK
  <1>7. Underway' \subseteq Underway /\ \A q \in Underway' : attempt'[q].state = attempt[q].state
    BY <1>1, <1>4 DEF Underway
  <1>8. AttemptsOK'
    BY <1>1, <1>2, <1>3, <1>4, <1>7 DEF HandoffInv, AttemptsOK
  <1>. QED BY <1>5, <1>6, <1>8 DEF HandoffInv

LEMMA StartStep == ASSUME HandoffInv, NEW r \in Requests, Start(r) PROVE HandoffInv'
PROOF
  <1> DEFINE n == attempt[r].deliveries + 1
             a == [NoAttempt EXCEPT !.deliveries = n]
             c == [a EXCEPT !.pc = "connect"]
             o == [a EXCEPT !.pc = "over"]
             entry == [oauth[r] EXCEPT !.status = "failed"]
  <1>1. /\ oauth[r] \in RowType /\ attempt[r] \in AttemptType /\ attempt[r].pc = "queued"
        /\ oauth[r].status # "succeeded" /\ UNCHANGED <<logins, spent, returned>>
    BY DEF Start, HandoffInv, HandoffTypeOK, AttemptsOK
  <1>2. /\ c \in AttemptType /\ c.pc = "connect" /\ c.state = 0
        /\ o \in AttemptType /\ o.pc = "over"
    <2>1. n \in Nat
      BY <1>1 DEF AttemptType
    <2> HIDE DEF n
    <2>2. a \in AttemptType /\ a.state = 0
      BY <2>1 DEF NoAttempt, AttemptType
    <2> HIDE DEF a
    <2>. QED BY <2>2 DEF AttemptType
  <1>3. entry \in RowType /\ entry.status = "failed" /\ entry.oauth_state = oauth[r].oauth_state
    BY <1>1 DEF RowType
  <1>4. \/ Attempt(r, c) /\ UNCHANGED oauth
        \/ Attempt(r, o) /\ Update(r, entry)
    BY DEF Start
  <1> HIDE DEF n, a, c, o, entry
  <1>5. CASE Attempt(r, c) /\ UNCHANGED oauth
    BY <1>1, <1>2, <1>5, AttemptMoves
  <1>6. CASE Attempt(r, o) /\ Update(r, entry)
    BY <1>1, <1>2, <1>3, <1>6, RowMoves
  <1>. QED BY <1>4, <1>5, <1>6

(* A new login has a state that no row, attempt or answer has.             *)
LEMMA RedirectStep == ASSUME HandoffInv, NEW r \in Requests, Redirect(r) PROVE HandoffInv'
PROOF
  <1> DEFINE new == logins + 1
             entry == [oauth[r] EXCEPT !.status = "waiting", !.url = new, !.oauth_state = new]
             a == [attempt[r] EXCEPT !.pc = "callback", !.state = new]
  <1>1. /\ oauth[r] \in RowType /\ attempt[r] \in AttemptType /\ attempt[r].pc = "connect"
        /\ logins' = new /\ logins \in Nat /\ new \in Nat /\ UNCHANGED <<spent, returned>>
    BY DEF Redirect, HandoffInv, HandoffTypeOK
  <1>2. entry \in RowType /\ entry.status = "waiting" /\ entry.oauth_state = new
    BY <1>1 DEF RowType
  <1>3. a \in AttemptType /\ a.pc = "callback" /\ a.state = new
    BY <1>1 DEF AttemptType
  <1>4. Update(r, entry) /\ Attempt(r, a)
    BY DEF Redirect
  <1> HIDE DEF entry, a
  <1>5. /\ attempt' \in [Requests -> AttemptType]
        /\ \A q \in Requests : attempt'[q] = IF q = r THEN a ELSE attempt[q]
    BY <1>3, <1>4 DEF HandoffInv, HandoffTypeOK, Attempt
  <1>6. /\ oauth' \in [Requests -> RowType]
        /\ \A q \in Requests :
             oauth'[q] = IF q = r /\ oauth[r].status # "none" THEN entry ELSE oauth[q]
    BY <1>2, <1>4 DEF HandoffInv, HandoffTypeOK, Update
  <1>7. 1..logins \subseteq 1..new /\ new \in 1..new /\ new \notin 1..logins
    BY <1>1
  <1>8. HandoffTypeOK' /\ OneAnswer'
    BY <1>1, <1>5, <1>6, <1>7 DEF HandoffInv, HandoffTypeOK, OneAnswer
  <1>9. \A b \in returned : b[1] # new
    BY <1>7 DEF HandoffInv, HandoffTypeOK
  <1>10. RowsOK'
    <2>1. \A q \in Requests : oauth[q].oauth_state \in Nat /\ oauth[q].oauth_state <= logins
      BY DEF HandoffInv, RowsOK, HandoffTypeOK, RowType
    <2>. QED BY <1>1, <1>2, <1>6, <1>9, <2>1 DEF HandoffInv, RowsOK
  <1>11. Underway' = Underway \cup {r} /\ r \notin Underway
    BY <1>1, <1>3, <1>5 DEF Underway
  <1>12. \A q \in Underway : attempt[q].state \in 1..logins /\ attempt[q].state # new
    BY <1>7 DEF HandoffInv, AttemptsOK, Underway
  <1>13. new \notin spent
    BY <1>7 DEF HandoffInv, HandoffTypeOK
  <1>14. AttemptsOK'
    <2>1. ASSUME NEW q \in Requests, q \in Underway'
          PROVE  /\ attempt'[q].state \in (1..logins') \ spent'
                 /\ \A p \in Underway' : p # q => attempt'[p].state # attempt'[q].state
      <3>1. \A p \in Underway' : attempt'[p].state = IF p = r THEN new ELSE attempt[p].state
        BY <1>3, <1>5, <1>11 DEF Underway
      <3>2. CASE q = r
        BY <1>1, <1>7, <1>11, <1>12, <1>13, <2>1, <3>1, <3>2
      <3>3. CASE q # r
        <4>1. /\ q \in Underway /\ attempt'[q].state = attempt[q].state
              /\ attempt[q].state \in (1..logins) \ spent
              /\ \A p \in Underway : p # q => attempt[p].state # attempt[q].state
          BY <1>11, <2>1, <3>1, <3>3 DEF HandoffInv, AttemptsOK
        <4>. QED BY <1>1, <1>7, <1>11, <1>12, <3>1, <4>1
      <3>. QED BY <3>2, <3>3
    <2>2. ASSUME NEW q \in Requests, q # r
          PROVE  attempt'[q] = attempt[q] /\ oauth'[q] = oauth[q]
      BY <1>5, <1>6, <2>2
    <2>3. attempt'[r] = a /\ oauth'[r].status # "succeeded"
          /\ (oauth'[r].status = "none" \/ oauth'[r].oauth_state = new)
      BY <1>1, <1>2, <1>5, <1>6 DEF HandoffInv, AttemptsOK
    <2>. QED BY <1>1, <1>3, <2>1, <2>2, <2>3 DEF HandoffInv, AttemptsOK
  <1>. QED BY <1>8, <1>10, <1>14 DEF HandoffInv

LEMMA DeliverStep ==
  ASSUME HandoffInv, NEW s \in States, NEW code \in {0, s}, Deliver(s, code)
  PROVE  HandoffInv'
PROOF
  <1>1. /\ s \in 1..logins /\ s # 0 /\ logins \in Nat
        /\ UNCHANGED <<attempt, logins, spent>>
    BY DEF Deliver, States, HandoffInv, HandoffTypeOK
  <1>2. PICK r \in Requests :
          /\ oauth[r].oauth_state = s /\ oauth[r].status = "waiting"
          /\ oauth' = [oauth EXCEPT ![r].status = IF code = 0 THEN "failed" ELSE "code_received",
                                    ![r].code = code]
          /\ returned' = returned \cup {<<s, code>>}
    BY DEF Deliver, Waiting
  <1> DEFINE entry == oauth'[r]
  <1>3. /\ oauth' \in [Requests -> RowType]
        /\ \A q \in Requests : q # r => oauth'[q] = oauth[q]
        /\ entry.oauth_state = s /\ entry.code = code
        /\ entry.status = IF code = 0 THEN "failed" ELSE "code_received"
    <2>1. oauth[r] \in RowType /\ code \in Nat /\ oauth \in [Requests -> RowType]
      BY <1>1 DEF HandoffInv, HandoffTypeOK
    <2> DEFINE half == [oauth[r] EXCEPT !.status = IF code = 0 THEN "failed" ELSE "code_received"]
               whole == [half EXCEPT !.code = code]
    <2>2. /\ half \in RowType /\ half.oauth_state = s
          /\ half.status = IF code = 0 THEN "failed" ELSE "code_received"
      BY <1>2, <2>1 DEF RowType
    <2>3. oauth' = [oauth EXCEPT ![r] = whole]
      BY <1>2, <2>1
    <2> HIDE DEF half
    <2>4. /\ whole \in RowType /\ whole.oauth_state = s /\ whole.code = code
          /\ whole.status = half.status
      BY <2>1, <2>2 DEF RowType
    <2> HIDE DEF whole
    <2>. QED BY <2>1, <2>2, <2>3, <2>4
  <1> HIDE DEF entry
  <1>4. \A a \in returned : a[1] # s
    BY <1>2 DEF HandoffInv, RowsOK
  <1>5. HandoffTypeOK' /\ OneAnswer'
    <2>1. IsFiniteSet(returned') /\ returned' \subseteq (1..logins') \X Nat
      <3>1. IsFiniteSet(returned) /\ <<s, code>> \in (1..logins) \X Nat
        BY <1>1 DEF HandoffInv, HandoffTypeOK
      <3>. QED BY <1>1, <1>2, <3>1, FS_AddElement DEF HandoffInv, HandoffTypeOK
    <2>2. HandoffTypeOK'
      BY <1>1, <1>3, <2>1 DEF HandoffInv, HandoffTypeOK
    <2>3. OneAnswer'
      BY <1>2, <1>4 DEF HandoffInv, OneAnswer
    <2>. QED BY <2>2, <2>3
  <1>6. /\ \A q \in Requests : oauth'[q].oauth_state = oauth[q].oauth_state
        /\ returned \subseteq returned' /\ \A a \in returned' : a \in returned \/ a[1] = s
    BY <1>2, <1>3 DEF entry
  <1>7. code # 0 => <<s, s>> \in returned'
    BY <1>2 
  <1>8. RowsOK'
    <2>1. ASSUME NEW q \in Requests, oauth'[q].status = "waiting"
          PROVE  \A a \in returned' : a[1] # oauth'[q].oauth_state
      <3>1. q # r
        BY <1>3, <2>1 DEF entry
      <3>2. oauth'[q] = oauth[q]
        BY <1>3, <3>1
      <3>3. oauth[q].oauth_state # s
        BY <1>1, <1>2, <3>1 DEF HandoffInv, RowsOK
      <3>4. \A a \in returned : a[1] # oauth[q].oauth_state
        BY <2>1, <3>2 DEF HandoffInv, RowsOK
      <3>. QED BY <1>6, <3>2, <3>3, <3>4
    <2>2. ASSUME NEW q \in Requests, oauth'[q].status = "code_received"
          PROVE  /\ oauth'[q].code = oauth'[q].oauth_state
                 /\ <<oauth'[q].oauth_state, oauth'[q].oauth_state>> \in returned'
      BY <1>1, <1>3, <1>6, <1>7, <2>2 DEF HandoffInv, RowsOK, entry
    <2>3. \A q \in Requests :
            /\ oauth'[q].oauth_state <= logins'
            /\ \A o \in Requests : o # q => oauth'[o].oauth_state = 0
                                            \/ oauth'[o].oauth_state # oauth'[q].oauth_state
      BY <1>1, <1>6 DEF HandoffInv, RowsOK
    <2>. QED BY <2>1, <2>2, <2>3 DEF RowsOK
  <1>9. AttemptsOK'
    <2>1. \A q \in Requests : /\ oauth'[q].status = "succeeded" => oauth[q].status = "succeeded"
                              /\ oauth[q].status = "none" => oauth'[q].status = "none"
      BY <1>2, <1>3 DEF entry
    <2>2. Underway' = Underway
      BY <1>1 DEF Underway
    <2>. QED BY <1>1, <1>6, <2>1, <2>2 DEF HandoffInv, AttemptsOK
  <1>. QED BY <1>5, <1>8, <1>9 DEF HandoffInv

-----------------------------------------------------------------------------
LEMMA CollectStep == ASSUME HandoffInv, NEW r \in Requests, Collect(r) PROVE HandoffInv'
PROOF
  <1> DEFINE a == [attempt[r] EXCEPT !.pc = "exchange", !.code = oauth[r].code,
                                     !.answered = oauth[r].oauth_state]
  <1>1. /\ oauth[r] \in RowType /\ attempt[r] \in AttemptType
        /\ attempt[r].pc = "callback" /\ oauth[r].status = "code_received"
        /\ oauth[r].code = attempt[r].state /\ oauth[r].oauth_state = attempt[r].state
        /\ <<attempt[r].state, attempt[r].state>> \in returned
    BY DEF Collect, HandoffInv, HandoffTypeOK, RowsOK, AttemptsOK
  <1>2. /\ a \in AttemptType /\ a.pc = "exchange" /\ a.state = attempt[r].state
        /\ a.code = oauth[r].code /\ a.answered = oauth[r].oauth_state
    BY <1>1 DEF RowType, AttemptType
  <1>3. Attempt(r, a) /\ UNCHANGED <<oauth, logins, spent, returned>>
    BY DEF Collect
  <1> HIDE DEF a
  <1>. QED BY <1>1, <1>2, <1>3, AttemptMoves

LEMMA PcMoves ==
  ASSUME HandoffInv, NEW r \in Requests, NEW pc \in {"connected", "failed"},
         Attempt(r, [attempt[r] EXCEPT !.pc = pc]),
         UNCHANGED <<oauth, logins, spent, returned>>, attempt[r].pc # "over",
         pc = "connected" =>
           attempt[r].state = 0 \/ <<attempt[r].state, attempt[r].state>> \in returned
  PROVE  HandoffInv'
PROOF
  <1> DEFINE a == [attempt[r] EXCEPT !.pc = pc]
  <1>1. attempt[r] \in AttemptType /\ oauth[r].status # "succeeded"
    BY DEF HandoffInv, HandoffTypeOK, AttemptsOK
  <1>2. a \in AttemptType /\ a.pc = pc /\ a.state = attempt[r].state
    BY <1>1 DEF AttemptType
  <1>3. Attempt(r, a)
    OBVIOUS
  <1> HIDE DEF a
  <1>. QED BY <1>1, <1>2, <1>3, AttemptMoves

LEMMA ExchangeStep == ASSUME HandoffInv, NEW r \in Requests, Exchange(r) PROVE HandoffInv'
PROOF
  <1>1. /\ attempt[r].pc = "exchange" /\ r \in Underway /\ oauth[r].status # "succeeded"
        /\ attempt[r].code = attempt[r].state
        /\ <<attempt[r].state, attempt[r].state>> \in returned
        /\ attempt[r].state \in 1..logins
        /\ UNCHANGED <<oauth, logins, returned>>
    BY DEF Exchange, HandoffInv, AttemptsOK, Underway
  <1>2. CASE Attempt(r, [attempt[r] EXCEPT !.pc = "failed"]) /\ UNCHANGED spent
    BY <1>1, <1>2, PcMoves
  <1>3. CASE /\ Attempt(r, [attempt[r] EXCEPT !.pc = "connected"])
             /\ spent' = spent \cup {attempt[r].code}
    <2> DEFINE a == [attempt[r] EXCEPT !.pc = "connected"]
    <2>1. a \in AttemptType /\ a.pc = "connected" /\ a.state = attempt[r].state
      BY DEF HandoffInv, HandoffTypeOK, AttemptType
    <2>2. Attempt(r, a)
      BY <1>3
    <2> HIDE DEF a
    <2>3. /\ attempt' \in [Requests -> AttemptType]
          /\ \A q \in Requests : attempt'[q] = IF q = r THEN a ELSE attempt[q]
      BY <2>1, <2>2 DEF HandoffInv, HandoffTypeOK, Attempt
    <2>4. HandoffTypeOK' /\ RowsOK' /\ OneAnswer'
      BY <1>1, <1>3, <2>3 DEF HandoffInv, HandoffTypeOK, RowsOK, OneAnswer
    <2>5. Underway' = Underway \ {r}
      BY <2>1, <2>3 DEF Underway
    <2>6. ASSUME NEW q \in Requests, q # r
          PROVE  /\ q \in Underway' => /\ attempt'[q].state \in (1..logins') \ spent'
                                      /\ \A p \in Underway' :
                                           p # q => attempt'[p].state # attempt'[q].state
      <3>1. SUFFICES ASSUME q \in Underway'
                     PROVE  /\ attempt'[q].state \in (1..logins') \ spent'
                            /\ \A p \in Underway' : p # q => attempt'[p].state # attempt'[q].state
        OBVIOUS
      <3>2. /\ attempt[q].state \in (1..logins) \ spent
            /\ \A p \in Underway : p # q => attempt[p].state # attempt[q].state
        BY <2>5, <3>1 DEF HandoffInv, AttemptsOK
      <3>3. \A p \in Underway' : attempt'[p] = attempt[p] /\ p \in Underway
        BY <2>3, <2>5 DEF Underway
      <3>. QED BY <1>1, <1>3, <2>6, <3>1, <3>2, <3>3
    <2>7. r \notin Underway' /\ attempt'[r] = a /\ oauth' = oauth /\ returned' = returned
          /\ \A q \in Requests : q # r => attempt'[q] = attempt[q]
      BY <1>1, <2>3, <2>5
    <2>8. AttemptsOK'
      BY <1>1, <2>1, <2>6, <2>7 DEF HandoffInv, AttemptsOK
    <2>. QED BY <2>4, <2>8 DEF HandoffInv
  <1>. QED BY <1>2, <1>3 DEF Exchange

LEMMA ReportStep == ASSUME HandoffInv, NEW r \in Requests, Report(r) PROVE HandoffInv'
PROOF
  <1> DEFINE entry == [oauth[r] EXCEPT !.status = IF attempt[r].pc = "failed" THEN "failed"
                                                                           ELSE "succeeded"]
             a == [attempt[r] EXCEPT !.pc = "over"]
  <1>1. /\ oauth[r] \in RowType /\ attempt[r] \in AttemptType
        /\ attempt[r].pc \in {"connected", "failed"} /\ oauth[r].status # "succeeded"
        /\ UNCHANGED <<logins, spent, returned>>
        /\ attempt[r].pc = "connected" =>
             attempt[r].state = 0 \/ <<attempt[r].state, attempt[r].state>> \in returned
    BY DEF Report, HandoffInv, HandoffTypeOK, AttemptsOK
  <1>2. /\ entry \in RowType /\ entry.oauth_state = oauth[r].oauth_state
        /\ entry.status = IF attempt[r].pc = "failed" THEN "failed" ELSE "succeeded"
    BY <1>1 DEF RowType
  <1>3. a \in AttemptType /\ a.pc = "over" /\ a.state = attempt[r].state
    BY <1>1 DEF AttemptType
  <1>4. Update(r, entry) /\ Attempt(r, a)
    BY DEF Report
  <1> HIDE DEF entry, a
  <1>. QED BY <1>1, <1>2, <1>3, <1>4, RowMoves

LEMMA GiveUpStep == ASSUME HandoffInv, NEW r \in Requests, GiveUp(r) PROVE HandoffInv'
  BY PcMoves DEF GiveUp

LEMMA ConnectStep == ASSUME HandoffInv, NEW r \in Requests, Connect(r) PROVE HandoffInv'
PROOF
  <1>1. PICK pc \in {"connected", "failed"} :
          /\ Attempt(r, [attempt[r] EXCEPT !.pc = pc])
          /\ attempt[r].pc = "connect" \/ (attempt[r].pc = "connected" /\ pc = "failed")
    BY DEF Connect
  <1>2. attempt[r].pc = "connect" => attempt[r].state = 0
    BY DEF HandoffInv, AttemptsOK
  <1>. QED BY <1>1, <1>2, PcMoves DEF Connect

(* What changes neither logins nor answers, and only ends or ages.         *)
LEMMA OthersStep ==
  ASSUME HandoffInv, UNCHANGED <<logins, spent, returned>>,
         oauth' \in [Requests -> RowType], attempt' \in [Requests -> AttemptType],
         \A r \in Requests :
           \/ oauth'[r] = NoRow
           \/ /\ oauth'[r].oauth_state = oauth[r].oauth_state
              /\ oauth'[r].status = oauth[r].status /\ oauth'[r].code = oauth[r].code,
         \A r \in Requests :
           \/ /\ attempt[r].pc # "over" /\ attempt'[r].pc \in {"queued", "over"}
              /\ oauth'[r] = oauth[r]
           \/ /\ attempt'[r].pc = attempt[r].pc /\ attempt'[r].state = attempt[r].state
              /\ attempt'[r].code = attempt[r].code /\ attempt'[r].answered = attempt[r].answered
  PROVE  HandoffInv'
PROOF
  <1>1. NoRow.status = "none" /\ NoRow.oauth_state = 0
    BY DEF NoRow
  <1>2. HandoffTypeOK' /\ OneAnswer'
    BY DEF HandoffInv, HandoffTypeOK, OneAnswer
  <1>3. RowsOK'
    BY <1>1 DEF HandoffInv, HandoffTypeOK, RowsOK
  <1>4. Underway' \subseteq Underway /\ \A q \in Underway' : attempt'[q].state = attempt[q].state
    BY DEF Underway
  <1>5. ASSUME NEW r \in Requests, r \in Underway'
        PROVE  /\ attempt'[r].state \in (1..logins') \ spent'
               /\ \A q \in Underway' : q # r => attempt'[q].state # attempt'[r].state
    <2>1. /\ r \in Underway /\ attempt[r].state \in (1..logins) \ spent
          /\ \A q \in Underway : q # r => attempt[q].state # attempt[r].state
      BY <1>4, <1>5 DEF HandoffInv, AttemptsOK
    <2>. QED BY <1>4, <1>5, <2>1
  <1>6. ASSUME NEW r \in Requests
        PROVE  /\ attempt'[r].pc = "connect" => attempt'[r].state = 0
               /\ attempt'[r].pc = "exchange" =>
                    /\ attempt'[r].code = attempt'[r].state
                    /\ attempt'[r].answered = attempt'[r].state
                    /\ <<attempt'[r].state, attempt'[r].state>> \in returned'
               /\ attempt'[r].pc = "connected" =>
                    attempt'[r].state = 0
                    \/ <<attempt'[r].state, attempt'[r].state>> \in returned'
    <2>1. /\ attempt[r].pc = "connect" => attempt[r].state = 0
          /\ attempt[r].pc = "exchange" =>
               /\ attempt[r].code = attempt[r].state /\ attempt[r].answered = attempt[r].state
               /\ <<attempt[r].state, attempt[r].state>> \in returned
          /\ attempt[r].pc = "connected" =>
               attempt[r].state = 0 \/ <<attempt[r].state, attempt[r].state>> \in returned
      BY DEF HandoffInv, AttemptsOK
    <2>. QED BY <2>1
  <1>7. ASSUME NEW r \in Requests
        PROVE  /\ attempt'[r].pc = "callback" =>
                    oauth'[r].status = "none" \/ oauth'[r].oauth_state = attempt'[r].state
               /\ oauth'[r].status = "succeeded" =>
                    /\ attempt'[r].pc = "over"
                    /\ attempt'[r].state = 0
                       \/ <<attempt'[r].state, attempt'[r].state>> \in returned'
    <2>1. oauth'[r].status = "succeeded" => oauth[r].status = "succeeded"
      BY <1>1
    <2>2. oauth[r].status = "succeeded" =>
            /\ attempt[r].pc = "over"
            /\ attempt[r].state = 0 \/ <<attempt[r].state, attempt[r].state>> \in returned
      BY DEF HandoffInv, AttemptsOK
    <2>3. attempt[r].pc = "callback" =>
            oauth[r].status = "none" \/ oauth[r].oauth_state = attempt[r].state
      BY DEF HandoffInv, AttemptsOK
    <2>. QED BY <1>1, <2>1, <2>2, <2>3
  <1>8. AttemptsOK'
    BY <1>5, <1>6, <1>7 DEF AttemptsOK
  <1>. QED BY <1>2, <1>3, <1>8 DEF HandoffInv

LEMMA DieStep == ASSUME HandoffInv, Die PROVE HandoffInv'
PROOF
  <1>1. /\ UNCHANGED <<oauth, logins, spent, returned>>
        /\ oauth \in [Requests -> RowType] /\ attempt \in [Requests -> AttemptType]
    BY DEF Die, HandoffInv, HandoffTypeOK
  <1> DEFINE new(r) == IF attempt[r].pc \in {"none", "queued", "over"} THEN attempt[r]
                       ELSE [NoAttempt EXCEPT !.deliveries = attempt[r].deliveries,
                               !.pc = IF attempt[r].deliveries < MaxDeliveries THEN "queued"
                                                                              ELSE "over"]
  <1>2. ASSUME NEW r \in Requests
        PROVE  /\ new(r) \in AttemptType
               /\ new(r) = attempt[r]
                  \/ (attempt[r].pc # "over" /\ new(r).pc \in {"queued", "over"})
    BY <1>1 DEF NoAttempt, AttemptType
  <1>3. attempt' = [r \in Requests |-> new(r)]
    BY DEF Die
  <1> HIDE DEF new
  <1>4. /\ attempt' \in [Requests -> AttemptType]
        /\ \A r \in Requests : attempt'[r] = new(r)
    BY <1>2, <1>3
  <1>. QED BY <1>1, <1>2, <1>4, OthersStep

LEMMA MinuteStep == ASSUME HandoffInv, Minute PROVE HandoffInv'
PROOF
  <1>1. /\ UNCHANGED <<logins, spent, returned>>
        /\ oauth \in [Requests -> RowType] /\ attempt \in [Requests -> AttemptType]
    BY DEF Minute, HandoffInv, HandoffTypeOK
  <1>2. ASSUME NEW r \in Requests
        PROVE  /\ oauth'[r] \in RowType
               /\ oauth'[r].oauth_state = oauth[r].oauth_state
               /\ oauth'[r].status = oauth[r].status /\ oauth'[r].code = oauth[r].code
    <2>1. oauth'[r] \in {oauth[r], [oauth[r] EXCEPT !.age = oauth[r].age + 1]}
      BY DEF Minute
    <2>. QED BY <1>1, <2>1 DEF RowType
  <1>3. ASSUME NEW r \in Requests
        PROVE  /\ attempt'[r] \in AttemptType
               /\ attempt'[r].pc = attempt[r].pc /\ attempt'[r].state = attempt[r].state
               /\ attempt'[r].code = attempt[r].code /\ attempt'[r].answered = attempt[r].answered
    <2>1. attempt'[r] \in {attempt[r], [attempt[r] EXCEPT !.waited = attempt[r].waited + 1]}
      BY DEF Minute
    <2>. QED BY <1>1, <2>1 DEF AttemptType
  <1>4. oauth' \in [Requests -> RowType] /\ attempt' \in [Requests -> AttemptType]
    BY <1>2, <1>3 DEF Minute
  <1>. QED BY <1>1, <1>2, <1>3, <1>4, OthersStep

LEMMA RemoveStep == ASSUME HandoffInv, RemoveSource PROVE HandoffInv'
PROOF
  <1>1. NoRow \in RowType
    BY DEF NoRow, RowType
  <1>2. /\ UNCHANGED <<attempt, logins, spent, returned>>
        /\ oauth' \in [Requests -> RowType] /\ \A r \in Requests : oauth'[r] = NoRow
    BY <1>1 DEF RemoveSource
  <1>. QED BY <1>2, OthersStep DEF HandoffInv, HandoffTypeOK

-----------------------------------------------------------------------------
LEMMA Step == HandoffInv /\ [HandoffNext]_handoffVars => HandoffInv'
PROOF
  <1> SUFFICES ASSUME HandoffInv, [HandoffNext]_handoffVars PROVE HandoffInv'
    OBVIOUS
  <1>1. ASSUME NEW r \in Requests, Start(r) \/ Redirect(r) \/ BeginRequest(r) PROVE HandoffInv'
    BY <1>1, StartStep, RedirectStep, BeginStep
  <1>2. ASSUME NEW r \in Requests, Collect(r) \/ GiveUp(r) \/ Exchange(r) PROVE HandoffInv'
    BY <1>2, CollectStep, GiveUpStep, ExchangeStep
  <1>3. ASSUME NEW r \in Requests, Connect(r) \/ Report(r) PROVE HandoffInv'
    BY <1>3, ConnectStep, ReportStep
  <1>4. ASSUME NEW s \in States, Grant(s) PROVE HandoffInv'
    BY <1>4 DEF Grant, HandoffInv, HandoffTypeOK, RowsOK, AttemptsOK, Underway, OneAnswer
  <1>5. ASSUME NEW s \in States, NEW code \in {0, s}, Deliver(s, code) PROVE HandoffInv'
    BY <1>5, DeliverStep
  <1>6. CASE RemoveSource \/ Die \/ Minute
    BY <1>6, RemoveStep, DieStep, MinuteStep
  <1>7. CASE UNCHANGED handoffVars
    BY <1>7 DEF handoffVars, HandoffInv, HandoffTypeOK, RowsOK, AttemptsOK, Underway, OneAnswer
  <1>. QED BY <1>1, <1>2, <1>3, <1>4, <1>5, <1>6, <1>7 DEF HandoffNext

LEMMA Invariance == HandoffSpec => []HandoffInv
  BY HandoffInitHolds, Step, PTL DEF HandoffSpec

(* The code that an attempt takes from the row answers the attempt's own   *)
(* login and has not been spent, whatever died or came back twice: the     *)
(* row's status and state decide at the callback, and a new login replaces *)
(* the state.                                                              *)
THEOREM CodesMatch == HandoffSpec => []CodesReachTheirLogin
PROOF
  <1>1. HandoffInv => CodesReachTheirLogin
    BY DEF HandoffInv, AttemptsOK, Underway, CodesReachTheirLogin
  <1>. QED BY <1>1, Invariance, PTL

(* The callback answers a login once, and a request that succeeded after a *)
(* login had the good answer.                                              *)
THEOREM SingleAnswers == HandoffSpec => []OneAnswerEach
PROOF
  <1>1. ASSUME HandoffInv PROVE OneAnswerEach
    <2> DEFINE heard == {a[1] : a \in returned}
               first == [a \in returned |-> a[1]]
    <2>1. first \in Bijection(returned, heard)
      BY <1>1 DEF HandoffInv, OneAnswer, Bijection, Injection, Surjection, IsInjective
    <2>2. Cardinality(returned) = Cardinality(heard)
      BY <1>1, <2>1, FS_Bijection DEF ExistsBijection, HandoffInv, HandoffTypeOK
    <2>. QED BY <1>1, <2>2 DEF HandoffInv, AttemptsOK, OneAnswerEach
  <1>. QED BY <1>1, Invariance, PTL

-------------------------------------------------------------------------------
(***************************************************************************)
(* The tokens and the connections that use them.                           *)
(***************************************************************************)
LinkType ==
    [pc: {"closed", "request", "load", "save", "unauthorized", "open", "mark", "again"},
     try: {1, 2}, entered: BOOLEAN, tokens: Document, doc: Document, answer: Document,
     hit: BOOLEAN]

TokenTypeOK ==
    /\ provider \in [access: SUBSET (1..MaxTokens), refresh: 1..MaxTokens, issued: 1..MaxTokens]
    /\ stored \in Contents /\ link \in [Connections -> LinkType]
    /\ accepted \subseteq 1..MaxTokens /\ raced \in BOOLEAN /\ refused \subseteq Connections
    /\ medium \in {"ssm", "file"} /\ draft \in Contents \cup {Absent}
    /\ fd \in [Connections -> {"none", "tmp", "secret", "gone", "written"}]

\* Whoever has the temporary file open is saving and alone; once written, it is the document.
Files ==
    /\ stored \in Document
    /\ \A c \in Connections : fd[c] # "none" =>
         /\ medium = "file" /\ Saving(c) /\ fd[c] \in {"tmp", "written"}
         /\ fd[c] = "tmp" => draft = Empty
         /\ fd[c] = "written" => draft = Written(link[c])
         /\ \A d \in Connections \ {c} : fd[d] = "none"

\* A connection has been given tokens that it has not saved.
Pending(c) == link[c].pc \in {"load", "save"}
\* ... and among them a refresh token that replaces the secret's.
Rotated(c) == link[c].answer.refresh # 0

\* The secret, and what is about to be written to it, has a refresh token.
Renewable ==
    /\ stored.refresh # 0
    /\ \A c \in Connections : link[c].pc \in {"save", "mark"} => link[c].doc.refresh # 0

\* Nothing holds an access token that was not issued.
OnlyIssued ==
    /\ provider.access \subseteq 1..provider.issued /\ accepted \subseteq 1..provider.issued
    /\ stored.access <= provider.issued
    /\ \A c \in Connections : /\ link[c].tokens.access <= provider.issued
                              /\ link[c].doc.access <= provider.issued
                              /\ link[c].answer.access <= provider.issued

\* An access token that is not saved yet is good, and nobody else's.
PendingIsNew ==
    \A c \in Connections : Pending(c) =>
        LET n == link[c].answer.access IN
        /\ n \in provider.access \ accepted /\ stored.access # n
        /\ \A d \in Connections : link[d].tokens.access # n /\ link[d].doc.access # n
        /\ \A d \in Connections \ {c} : link[d].answer.access # n

\* Without a race whoever has been given another refresh token is alone, ...
RotatesAlone ==
    \A c \in Connections : Rotated(c) =>
        /\ Pending(c)
        /\ ~raced => \A d \in Connections \ {c} : link[d].pc = "closed"

\* ... but for that one the secret has the provider's refresh token, ...
SecretAgrees ==
    ~raced /\ (\A c \in Connections : ~Rotated(c)) => stored.refresh = provider.refresh

\* ... and so has what a connection goes on with, or writes.
Agrees(l) ==
    /\ l.answer.refresh \in {0, provider.refresh}
    /\ l.pc \in {"save", "mark"} /\ l.answer.refresh = 0 => l.doc.refresh = provider.refresh
    /\ l.pc \in {"request", "unauthorized", "open"} => l.tokens.refresh \in {0, provider.refresh}

LinksAgree == ~raced => \A c \in Connections : Agrees(link[c])

\* Tokens with which a request is answered, if only after a refresh.
Working(t) == t.access \in provider.access \/ (Expired(t) /\ t.refresh # 0)

\* Once forced, the secret is usable until a token is withdrawn, and so is what a second try
\* takes from it.
TryUsable(l) ==
    /\ l.pc = "closed" => l.try = 1
    /\ l.pc \in {"mark", "again"} => l.try = 2
    /\ l.pc = "open" => l.entered
    /\ l.pc = "again" /\ ~l.hit => Working(stored)
    /\ ~raced /\ l.try = 2 /\ ~l.hit /\ ~l.entered =>
         /\ l.pc = "request" => Working(l.tokens)
         /\ l.pc # "unauthorized"

SecondTryUsable == \A c \in Connections : TryUsable(link[c])

NoneRefused == ~raced => refused = {}

Steady == /\ TokenTypeOK /\ Files /\ Renewable /\ OnlyIssued /\ PendingIsNew /\ RotatesAlone
          /\ SecretAgrees /\ LinksAgree /\ SecondTryUsable /\ NoneRefused

\* A race leaves nothing of this but the types, and is what explains a refusal.
TokenInv == TokenTypeOK /\ refused = {} /\ (~raced => Steady)

LEMMA NoTokensType ==
    /\ NoTokens \in Document /\ NoTokens.access = 0 /\ NoTokens.refresh = 0
    /\ Closed \in LinkType /\ Closed.pc = "closed" /\ Closed.try = 1 /\ ~Closed.entered
    /\ Closed.tokens = NoTokens /\ Closed.doc = NoTokens /\ Closed.answer = NoTokens
    /\ ~Closed.hit
BY TokenAssumption DEF NoTokens, Document, Closed, LinkType

\* What is not a document, and what a connection saves.
LEMMA Kinds ==
    /\ Empty \in Contents /\ Torn \in Contents /\ Document \subseteq Contents
    /\ Absent \notin Contents /\ \A t \in Document : t \notin Unreadable
BY DEF Contents, Unreadable, Document, Empty, Torn, Absent, NoTokens

LEMMA AgedType ==
    ASSUME NEW n, NEW early \in BOOLEAN, NEW t \in Contents \cup {Absent}
    PROVE  /\ Aged(t, n, early) \in Contents \cup {Absent}
           /\ t \in Document => Aged(t, n, early) \in Document
           /\ t \notin Document => Aged(t, n, early) = t
           /\ t \in Contents => Aged(t, n, early) \in Contents
           /\ Aged(t, n, early).access = t.access /\ Aged(t, n, early).refresh = t.refresh
           /\ Expired(t) => Expired(Aged(t, n, early))
<1>1. CASE t \in Document
    BY <1>1 DEF Aged, Contents, Document, Expired
<1>2. CASE t \in {Absent, Empty, Torn}
    <2>1. t.expires # "later"
        BY <1>2 DEF Absent, Empty, Torn, NoTokens
    <2>2. Aged(t, n, early) = t
        BY <2>1 DEF Aged
    <2>3. t \notin Document
        BY <1>2, Kinds DEF Unreadable, Document, Absent, NoTokens
    <2>4. QED
        BY <2>2, <2>3
<1>3. QED
    BY <1>1, <1>2 DEF Contents, Unreadable

\* A saving connection writes the tokens as old as they are.
LEMMA AgedWritten ==
    ASSUME NEW n, NEW early \in BOOLEAN, NEW l \in LinkType, NEW m \in LinkType, m.pc = l.pc,
           m.doc = Aged(l.doc, n, early), m.answer = Aged(l.answer, n, early)
    PROVE  Written(m) = Aged(Written(l), n, early)
<1>1. l.answer \in Document /\ l.doc \in Document
    BY DEF LinkType
<1>2. ASSUME NEW a \in Document, NEW d \in Document
      PROVE  Kept(Aged(a, n, early), Aged(d, n, early)) = Aged(Kept(a, d), n, early)
    BY DEF Kept, Aged, Document
<1>3. ASSUME NEW d \in Document
      PROVE  Forced(Aged(d, n, early)) = Aged(Forced(d), n, early)
    BY DEF Forced, Aged, Document
<1>4. QED
    BY <1>1, <1>2, <1>3 DEF Written

LEMMA SavedType ==
    ASSUME NEW l \in LinkType
    PROVE  Written(l) \in Document /\ Saved(l) \in LinkType
<1>1. l.answer \in Document /\ l.doc \in Document
    BY DEF LinkType
<1>2. CASE l.pc = "save"
    <2>1. Kept(l.answer, l.doc) \in Document
        BY <1>1 DEF Kept, Document
    <2>2. [l EXCEPT !.pc = "request", !.tokens = l.answer, !.doc = NoTokens,
                    !.answer = NoTokens] \in LinkType
        BY <1>1, NoTokensType DEF LinkType
    <2>3. QED
        BY <1>2, <2>1, <2>2 DEF Written, Saved
<1>3. CASE l.pc # "save"
    <2>1. Forced(l.doc) \in Document
        BY <1>1 DEF Forced, Document
    <2>2. [l EXCEPT !.pc = "again", !.doc = NoTokens] \in LinkType
        BY NoTokensType DEF LinkType
    <2>3. QED
        BY <1>3, <2>1, <2>2 DEF Written, Saved
<1>4. QED
    BY <1>2, <1>3

LEMMA TokenInitHolds == TokenInit => Steady
<1> SUFFICES ASSUME TokenInit PROVE Steady
    OBVIOUS
<1>1. /\ provider.access = {1} /\ provider.refresh = 1 /\ provider.issued = 1
      /\ provider = [access |-> {1}, refresh |-> 1, issued |-> 1]
      /\ stored.access = 1 /\ stored.refresh = 1 /\ stored \in Document
      /\ accepted = {1} /\ raced = FALSE /\ refused = {}
      /\ medium \in {"ssm", "file"} /\ draft = Absent
    BY TokenAssumption DEF TokenInit, Document
<1>2. /\ link \in [Connections -> LinkType] /\ \A c \in Connections : link[c] = Closed
      /\ fd \in [Connections -> {"none"}]
    BY NoTokensType DEF TokenInit
<1>3. TokenTypeOK
    <2>1. provider \in [access: SUBSET (1..MaxTokens), refresh: 1..MaxTokens, issued: 1..MaxTokens]
        BY TokenAssumption DEF TokenInit
    <2>2. QED
        BY <1>1, <1>2, <2>1, TokenAssumption, Kinds DEF TokenTypeOK
<1>4. Files /\ Renewable /\ OnlyIssued /\ PendingIsNew
    BY <1>1, <1>2, NoTokensType DEF Files, Renewable, OnlyIssued, PendingIsNew, Pending
<1>5. RotatesAlone /\ SecretAgrees /\ LinksAgree
    BY <1>1, <1>2, NoTokensType DEF RotatesAlone, SecretAgrees, LinksAgree, Agrees, Rotated
<1>6. SecondTryUsable /\ NoneRefused
    BY <1>1, <1>2, NoTokensType DEF SecondTryUsable, TryUsable, NoneRefused
<1>7. QED
    BY <1>3, <1>4, <1>5, <1>6 DEF Steady

\* One connection moves.
LEMMA LinkMoves ==
    ASSUME TokenTypeOK, NEW c \in Connections, NEW f \in LinkType, Link(c, f)
    PROVE  /\ link' \in [Connections -> LinkType] /\ link'[c] = f
           /\ \A d \in Connections \ {c} : link'[d] = link[d]
BY DEF TokenTypeOK, Link

\* The fields of a well-typed state.
LEMMA Fields ==
    ASSUME TokenTypeOK
    PROVE  /\ provider.access \subseteq 1..MaxTokens /\ provider.refresh \in 1..MaxTokens
           /\ provider.issued \in 1..MaxTokens
           /\ stored.access \in 0..MaxTokens /\ stored.refresh \in 0..MaxTokens
           /\ \A c \in Connections :
                /\ link[c] \in LinkType
                /\ link[c].tokens \in Document /\ link[c].doc \in Document
                /\ link[c].answer \in Document
                /\ link[c].tokens.access \in 0..MaxTokens /\ link[c].doc.access \in 0..MaxTokens
                /\ link[c].answer.access \in 0..MaxTokens
                /\ link[c].tokens.refresh \in 0..MaxTokens
                /\ link[c].doc.refresh \in 0..MaxTokens
                /\ link[c].answer.refresh \in 0..MaxTokens
<1>1. \A t \in Document : t.access \in 0..MaxTokens /\ t.refresh \in 0..MaxTokens
    BY DEF Document
<1>2. Empty.access = 0 /\ Empty.refresh = 0 /\ Torn.access = 0 /\ Torn.refresh = 0
    BY DEF Empty, Torn, NoTokens
<1>3. stored.access \in 0..MaxTokens /\ stored.refresh \in 0..MaxTokens
    BY <1>1, <1>2, TokenAssumption DEF TokenTypeOK, Contents, Unreadable
<1>4. QED
    BY <1>1, <1>3 DEF TokenTypeOK, LinkType

\* Who does not save has no file open.
LEMMA NoFile ==
    ASSUME Steady, NEW c \in Connections, ~Saving(c)
    PROVE  fd[c] = "none"
BY DEF Steady, Files

\* What a connection does without writing the secret or being given tokens.
LEMMA LinkStep ==
    ASSUME Steady, NEW c \in Connections, NEW f \in LinkType, Link(c, f),
           UNCHANGED <<provider, stored>>, UNCHANGED <<medium, draft>>,
           fd' \in {fd, [fd EXCEPT ![c] = "none"]}, fd'[c] = "none",
           raced' \in BOOLEAN, raced => raced',
           accepted' \in {accepted, accepted \cup {link[c].tokens.access}},
           accepted' \subseteq 1..provider.issued,
           refused' \subseteq Connections, ~raced' => refused' = {},
           f.tokens \in {link[c].tokens, stored, NoTokens},
           f.doc \in {link[c].doc, stored, NoTokens},
           f.answer \in {link[c].answer, NoTokens},
           f.pc \in {"load", "save"} => Pending(c) /\ f.answer = link[c].answer,
           f.pc \in {"save", "mark"} => f.doc = stored,
           f.answer.refresh # 0 => f.pc \in {"load", "save"},
           ~raced' /\ f.pc # "closed" => link[c].pc # "closed" \/ \A d \in Connections : ~Rotated(d),
           ~raced' /\ Rotated(c) => f.answer = link[c].answer,
           ~raced' /\ f.pc \in {"request", "unauthorized", "open"}
                => f.tokens.refresh \in {0, provider.refresh},
           f.pc = "closed" => f.try = 1,
           f.pc = "mark" => f.try = 2,
           f.pc = "open" => f.entered,
           f.pc # "again",
           ~raced' /\ f.try = 2 /\ ~f.hit /\ ~f.entered =>
                /\ f.pc = "request" => Working(f.tokens)
                /\ f.pc # "unauthorized"
    PROVE  Steady'
<1> USE DEF Steady
<1>0. NoTokens.access = 0 /\ NoTokens.refresh = 0
    BY NoTokensType
<1>1. /\ link' \in [Connections -> LinkType] /\ link'[c] = f
      /\ \A d \in Connections \ {c} : link'[d] = link[d]
    BY LinkMoves
<1>2. TokenTypeOK'
    BY <1>1, Fields DEF TokenTypeOK
<1>12. Files'
    <2>1. \A d \in Connections \ {c} : fd'[d] = fd[d] /\ link'[d] = link[d]
        BY <1>1 DEF TokenTypeOK
    <2>2. QED
        BY <2>1 DEF Files, Saving
<1>3. Renewable'
    BY <1>1 DEF Renewable
<1>4. OnlyIssued'
    BY <1>0, <1>1, Fields DEF OnlyIssued
<1>5. PendingIsNew'
    <2>1. ASSUME NEW b \in Connections, Pending(b)'
          PROVE  LET n == link'[b].answer.access IN
                 /\ n \in provider'.access \ accepted' /\ stored'.access # n
                 /\ \A d \in Connections : link'[d].tokens.access # n /\ link'[d].doc.access # n
                 /\ \A d \in Connections \ {b} : link'[d].answer.access # n
        <3> DEFINE n == link[b].answer.access
        <3>1. Pending(b) /\ link'[b].answer.access = n
            BY <1>1, <2>1 DEF Pending
        <3>2. /\ n \in provider.access \ accepted /\ stored.access # n
              /\ \A d \in Connections : link[d].tokens.access # n /\ link[d].doc.access # n
              /\ \A d \in Connections \ {b} : link[d].answer.access # n
            BY <3>1 DEF PendingIsNew
        <3>3. n # 0
            BY <3>2, Fields
        <3> HIDE DEF n
        <3>4. /\ f.tokens.access # n /\ f.doc.access # n /\ (b # c => f.answer.access # n)
            BY <1>0, <3>2, <3>3
        <3>5. QED
            BY <1>1, <3>1, <3>2, <3>4
    <2>2. QED
        BY <2>1 DEF PendingIsNew
<1>6. RotatesAlone'
    BY <1>0, <1>1 DEF RotatesAlone, Pending, Rotated
<1>7. SecretAgrees'
    BY <1>1 DEF SecretAgrees, Rotated
<1>8. LinksAgree'
    <2>1. ASSUME ~raced', NEW d \in Connections \ {c}
          PROVE  Agrees(link[d])'
        BY <1>1, <2>1 DEF LinksAgree, Agrees
    <2>2. ASSUME ~raced'
          PROVE  Agrees(link[c])'
        <3>1. f.answer.refresh \in {0, provider.refresh}
            BY <1>0, <2>2 DEF LinksAgree, Agrees
        <3>2. ASSUME f.pc \in {"save", "mark"}, f.answer.refresh = 0
              PROVE  f.doc.refresh = provider.refresh
            <4>1. f.doc = stored /\ ~Rotated(c)
                BY <2>2, <3>2 DEF Rotated
            <4>2. \A d \in Connections : ~Rotated(d)
                BY <2>2, <3>2, <4>1 DEF RotatesAlone
            <4>3. QED
                BY <2>2, <4>1, <4>2 DEF SecretAgrees
        <3>3. QED
            BY <1>1, <2>2, <3>1, <3>2 DEF Agrees
    <2>3. QED
        BY <2>1, <2>2 DEF LinksAgree
<1>9. SecondTryUsable'
    <2>1. ASSUME NEW d \in Connections \ {c} PROVE TryUsable(link[d])'
        BY <1>1 DEF SecondTryUsable, TryUsable, Working
    <2>2. TryUsable(link[c])'
        BY <1>1 DEF TryUsable, Working
    <2>3. QED
        BY <2>1, <2>2 DEF SecondTryUsable
<1>10. NoneRefused'
    BY DEF NoneRefused
<1>11. QED
    BY <1>2, <1>3, <1>4, <1>5, <1>6, <1>7, <1>8, <1>9, <1>10, <1>12

LEMMA OpenStep == ASSUME Steady, NEW c \in Connections, Open(c) PROVE Steady'
<1> DEFINE f == [link[c] EXCEPT !.pc = "request", !.tokens = stored]
<1> USE DEF Steady
<1>1. /\ link[c].pc \in {"closed", "again"} /\ Link(c, f)
      /\ raced' = (raced \/ \E d \in Connections : Rotated(d))
      /\ UNCHANGED <<provider, stored, accepted, refused>> /\ UNCHANGED <<medium, draft, fd>>
    BY DEF Open, Rotated, fileVars
<1>0. fd[c] = "none" /\ stored \in Document
    BY <1>1, NoFile DEF Saving, Files
<1>2. /\ f \in LinkType /\ f.pc = "request" /\ f.tokens = stored /\ f.try = link[c].try
      /\ f.entered = link[c].entered /\ f.doc = link[c].doc /\ f.answer = link[c].answer
      /\ f.hit = link[c].hit
    BY <1>0, Fields DEF LinkType
<1> HIDE DEF f
<1>3. ~Rotated(c)
    BY <1>1 DEF RotatesAlone, Pending
<1>4. ~raced' => f.tokens.refresh = provider.refresh
    BY <1>1, <1>2 DEF SecretAgrees
<1>5. f.try = 2 /\ ~f.hit => Working(f.tokens)
    <2>1. TryUsable(link[c])
        BY DEF SecondTryUsable
    <2>2. QED
        BY <1>1, <1>2, <2>1 DEF TryUsable
<1>6. raced' \in BOOLEAN /\ accepted' \subseteq 1..provider.issued /\ refused' \subseteq Connections
    BY <1>1 DEF TokenTypeOK, OnlyIssued
<1>7. ~raced' => refused' = {}
    BY <1>1 DEF NoneRefused
<1>8. f.answer.refresh = 0
    BY <1>2, <1>3 DEF Rotated
<1>9. UNCHANGED <<provider, stored>> /\ UNCHANGED <<medium, draft>> /\ fd' = fd /\ fd'[c] = "none"
    BY <1>0, <1>1
<1>10. ~raced' => \A d \in Connections : ~Rotated(d)
    BY <1>1
<1>11. raced => raced'
    BY <1>1
<1>12. QED
    BY <1>1, <1>2, <1>4, <1>5, <1>6, <1>7, <1>8, <1>9, <1>10, <1>11, LinkStep

LEMMA SendStep == ASSUME Steady, NEW c \in Connections, Send(c) PROVE Steady'
<1> DEFINE l == link[c]
           ok == l.tokens.access \in provider.access
           f == [l EXCEPT !.pc = IF ok THEN "open" ELSE "unauthorized", !.entered = @ \/ ok]
<1> USE DEF Steady
<1>1. /\ l.pc = "request" /\ (Expired(l.tokens) => l.tokens.refresh = 0) /\ Link(c, f)
      /\ accepted' = IF ok THEN accepted \cup {l.tokens.access} ELSE accepted
      /\ UNCHANGED <<provider, stored, raced, refused>> /\ UNCHANGED <<medium, draft, fd>>
    BY DEF Send, fileVars
<1>2. /\ f \in LinkType /\ f.pc = IF ok THEN "open" ELSE "unauthorized"
      /\ f.tokens = l.tokens /\ f.try = l.try /\ f.entered = (l.entered \/ ok)
      /\ f.doc = l.doc /\ f.answer = l.answer /\ f.hit = l.hit
    BY Fields DEF LinkType
<1> HIDE DEF f
<1>3. l.answer.refresh = 0 /\ (~raced => Agrees(l)) /\ TryUsable(l)
    BY <1>1 DEF RotatesAlone, Rotated, Pending, LinksAgree, SecondTryUsable
<1>4. ~raced => l.tokens.refresh \in {0, provider.refresh}
    BY <1>1, <1>3 DEF Agrees
<1>5. ~raced /\ l.try = 2 /\ ~l.hit /\ ~l.entered => ok
    BY <1>1, <1>3 DEF TryUsable, Working
<1>6. /\ accepted' \in {accepted, accepted \cup {l.tokens.access}}
      /\ accepted' \subseteq 1..provider.issued
    BY <1>1 DEF OnlyIssued
<1>7. raced' \in BOOLEAN /\ refused' \subseteq Connections /\ (~raced' => refused' = {})
    BY <1>1 DEF TokenTypeOK, NoneRefused
<1>8. UNCHANGED <<provider, stored>> /\ UNCHANGED <<medium, draft>> /\ fd' = fd /\ fd'[c] = "none"
    BY <1>1, NoFile DEF Saving
<1>9. QED
    BY <1>1, <1>2, <1>3, <1>4, <1>5, <1>6, <1>7, <1>8, LinkStep

LEMMA LoadStep == ASSUME Steady, NEW c \in Connections, LoadTokens(c) PROVE Steady'
<1> DEFINE l == link[c]
           f == [l EXCEPT !.pc = "save", !.doc = stored]
<1> USE DEF Steady
<1>1. /\ l.pc = "load" /\ Link(c, f) /\ UNCHANGED <<medium, draft, fd>>
      /\ UNCHANGED <<provider, stored, accepted, raced, refused>>
    BY DEF LoadTokens, fileVars
<1>0. fd[c] = "none" /\ stored \in Document
    BY <1>1, NoFile DEF Saving, Files
<1>2. /\ f \in LinkType /\ f.pc = "save" /\ f.tokens = l.tokens /\ f.try = l.try
      /\ f.entered = l.entered /\ f.doc = stored /\ f.answer = l.answer /\ f.hit = l.hit
    BY <1>0, Fields DEF LinkType
<1> HIDE DEF f
<1>3. /\ raced' \in BOOLEAN /\ refused' \subseteq Connections /\ (~raced' => refused' = {})
      /\ accepted' \subseteq 1..provider.issued
    BY <1>1 DEF TokenTypeOK, OnlyIssued, NoneRefused
<1>4. /\ Pending(c) /\ UNCHANGED <<provider, stored>> /\ UNCHANGED <<medium, draft>>
      /\ fd' = fd /\ fd'[c] = "none"
    BY <1>0, <1>1 DEF Pending
<1>5. QED
    BY <1>1, <1>2, <1>3, <1>4, LinkStep

LEMMA UseStep == ASSUME Steady, NEW c \in Connections, Use(c) PROVE Steady'
<1> DEFINE l == link[c]
           f == [l EXCEPT !.pc = "request"]
<1> USE DEF Steady
<1>1. /\ l.pc = "open" /\ Link(c, f) /\ UNCHANGED <<medium, draft, fd>>
      /\ UNCHANGED <<provider, stored, accepted, raced, refused>>
    BY DEF Use, fileVars
<1>2. /\ f \in LinkType /\ f.pc = "request" /\ f.tokens = l.tokens /\ f.try = l.try
      /\ f.entered = l.entered /\ f.doc = l.doc /\ f.answer = l.answer /\ f.hit = l.hit
    BY Fields DEF LinkType
<1> HIDE DEF f
<1>3. l.answer.refresh = 0 /\ (~raced => Agrees(l)) /\ TryUsable(l)
    BY <1>1 DEF RotatesAlone, Rotated, Pending, LinksAgree, SecondTryUsable
<1>4. l.entered /\ (~raced => l.tokens.refresh \in {0, provider.refresh})
    BY <1>1, <1>3 DEF Agrees, TryUsable
<1>5. /\ raced' \in BOOLEAN /\ refused' \subseteq Connections /\ (~raced' => refused' = {})
      /\ accepted' \subseteq 1..provider.issued
    BY <1>1 DEF TokenTypeOK, OnlyIssued, NoneRefused
<1>6. UNCHANGED <<provider, stored>> /\ UNCHANGED <<medium, draft>> /\ fd' = fd /\ fd'[c] = "none"
    BY <1>1, NoFile DEF Saving
<1>7. QED
    BY <1>1, <1>2, <1>3, <1>4, <1>5, <1>6, LinkStep

\* The end of a connection, if what is lost with it is no rotated token.
LEMMA CloseStep ==
    ASSUME Steady, NEW c \in Connections, Link(c, Closed),
           UNCHANGED <<provider, stored, accepted>>, UNCHANGED <<medium, draft>>,
           fd' \in {fd, [fd EXCEPT ![c] = "none"]}, fd'[c] = "none",
           raced' \in BOOLEAN, raced => raced', Rotated(c) => raced',
           refused' \subseteq Connections, ~raced' => refused' = {}
    PROVE  Steady'
<1>1. accepted' \subseteq 1..provider.issued
    BY DEF Steady, OnlyIssued
<1>2. UNCHANGED <<provider, stored>>
    OBVIOUS
<1>3. QED
    BY <1>1, <1>2, NoTokensType, LinkStep

LEMMA LeaveStep == ASSUME Steady, NEW c \in Connections, Leave(c) PROVE Steady'
<1> USE DEF Steady
<1>1. /\ Link(c, Closed) /\ UNCHANGED <<provider, stored, accepted, refused>>
      /\ raced' = (raced \/ (Pending(c) /\ Rotated(c)))
      /\ UNCHANGED <<medium, draft>> /\ fd' = [fd EXCEPT ![c] = "none"]
    BY DEF Leave, Pending, Rotated
<1>2. Rotated(c) => raced'
    BY <1>1 DEF RotatesAlone
<1>3. /\ raced' \in BOOLEAN /\ (raced => raced') /\ refused' \subseteq Connections
      /\ (~raced' => refused' = {}) /\ fd'[c] = "none"
    BY <1>1 DEF TokenTypeOK, NoneRefused
<1>4. QED
    BY <1>1, <1>2, <1>3, CloseStep

\* A connection is only given up for a reason that the history remembers.
LEMMA RejectStep == ASSUME Steady, NEW c \in Connections, Reject(c) PROVE Steady'
<1> DEFINE l == link[c]
           f == [l EXCEPT !.pc = "mark", !.try = 2, !.doc = stored]
<1> USE DEF Steady
<1>1. /\ l.pc = "unauthorized" /\ UNCHANGED <<provider, stored, accepted, raced>>
      /\ UNCHANGED <<medium, draft, fd>>
    BY DEF Reject, fileVars
<1>0. fd[c] = "none" /\ stored \in Document
    BY <1>1, NoFile DEF Saving, Files
<1>2. l.answer.refresh = 0 /\ TryUsable(l) /\ ~Rotated(c)
    BY <1>1 DEF RotatesAlone, Rotated, Pending, SecondTryUsable
<1>3. raced' \in BOOLEAN /\ accepted' \subseteq 1..provider.issued
    BY <1>1 DEF TokenTypeOK, OnlyIssued
<1>4. UNCHANGED <<provider, stored>> /\ UNCHANGED <<medium, draft>> /\ fd' = fd /\ fd'[c] = "none"
    BY <1>0, <1>1
<1>5. CASE ~l.entered /\ l.try = 1 /\ stored.refresh # 0
    <2>1. Link(c, f) /\ UNCHANGED refused
        BY <1>1, <1>5 DEF Reject, TriesAgain
    <2>2. /\ f \in LinkType /\ f.pc = "mark" /\ f.tokens = l.tokens /\ f.try = 2
          /\ f.entered = l.entered /\ f.doc = stored /\ f.answer = l.answer /\ f.hit = l.hit
        BY <1>0, Fields DEF LinkType
    <2> HIDE DEF f
    <2>3. refused' \subseteq Connections /\ (~raced' => refused' = {})
        BY <1>1, <2>1 DEF TokenTypeOK, NoneRefused
    <2>4. QED
        BY <1>1, <1>2, <1>3, <1>4, <2>1, <2>2, <2>3, LinkStep
<1>6. CASE ~(~l.entered /\ l.try = 1 /\ stored.refresh # 0)
    <2>1. /\ Link(c, Closed)
          /\ refused' = IF raced \/ l.entered \/ l.hit THEN refused ELSE refused \cup {c}
        BY <1>1, <1>6 DEF Reject, TriesAgain
    <2>2. l.try \in {1, 2}
        BY Fields DEF LinkType
    <2>3. raced \/ l.entered \/ l.hit
        BY <1>1, <1>2, <1>6, <2>2 DEF Renewable, TryUsable
    <2>4. refused' \subseteq Connections /\ (~raced' => refused' = {})
        BY <1>1, <2>1, <2>3 DEF TokenTypeOK, NoneRefused
    <2>5. QED
        BY <1>1, <1>2, <1>3, <1>4, <2>1, <2>4, CloseStep
<1>7. QED
    BY <1>5, <1>6

\* A refresh gives a token that nothing holds yet, and rotates unseen by nobody but history.
LEMMA RefreshStep == ASSUME Steady, NEW c \in Connections, Refresh(c) PROVE Steady'
<1> DEFINE l == link[c]
           n == provider.issued + 1
           g == [l EXCEPT !.tokens = NoTokens]
<1> USE DEF Steady
<1>1. /\ l.pc = "request" /\ Expired(l.tokens) /\ l.tokens.refresh # 0
      /\ provider.issued < MaxTokens /\ UNCHANGED <<stored, accepted, refused>>
      /\ UNCHANGED <<medium, draft, fd>>
    BY DEF Refresh, fileVars
<1>0. fd[c] = "none" /\ fd' = fd /\ fd'[c] = "none"
    BY <1>1, NoFile DEF Saving
<1>2. l.answer.refresh = 0 /\ ~Rotated(c) /\ (~raced => Agrees(l))
    BY <1>1 DEF RotatesAlone, Rotated, Pending, LinksAgree
<1>3. CASE l.tokens.refresh # provider.refresh
    <2>1. Link(c, g) /\ UNCHANGED <<provider, raced>>
        BY <1>3 DEF Refresh
    <2>2. /\ g \in LinkType /\ g.pc = "request" /\ g.tokens = NoTokens /\ g.try = l.try
          /\ g.entered = l.entered /\ g.doc = l.doc /\ g.answer = l.answer /\ g.hit = l.hit
        BY <1>1, Fields, NoTokensType DEF LinkType
    <2> HIDE DEF g
    <2>3. raced
        BY <1>1, <1>2, <1>3 DEF Agrees
    <2>4. /\ raced' \in BOOLEAN /\ refused' \subseteq Connections
          /\ accepted' \subseteq 1..provider.issued /\ raced'
        BY <1>1, <2>1, <2>3 DEF TokenTypeOK, OnlyIssued
    <2>5. UNCHANGED <<provider, stored>> /\ UNCHANGED <<medium, draft>>
        BY <1>1, <2>1
    <2>6. QED
        BY <1>0, <1>1, <1>2, <2>1, <2>2, <2>4, <2>5, LinkStep
<1>4. CASE l.tokens.refresh = provider.refresh
    <2>1. PICK rotates \in BOOLEAN, expires \in {"later", "never"} :
            /\ provider' = [access |-> provider.access \cup {n}, issued |-> n,
                            refresh |-> IF rotates THEN n ELSE provider.refresh]
            /\ Link(c, [l EXCEPT !.pc = "load",
                   !.answer = [access |-> n, refresh |-> IF rotates THEN n ELSE 0,
                               expires |-> expires]])
            /\ raced' = (raced \/ (rotates /\ \E d \in Connections \ {c} : link[d].pc # "closed"))
        BY <1>4 DEF Refresh
    <2> DEFINE a == [access |-> n, refresh |-> IF rotates THEN n ELSE 0, expires |-> expires]
               f == [l EXCEPT !.pc = "load", !.answer = a]
    <2>2. /\ n \in 1..MaxTokens /\ n = provider.issued + 1 /\ provider.issued \in Nat
        BY <1>1, Fields, TokenAssumption
    <2>3. a \in Document /\ a.access = n /\ a.refresh = IF rotates THEN n ELSE 0
        BY <2>2, TokenAssumption DEF Document
    <2>4. /\ provider'.access = provider.access \cup {n} /\ provider'.issued = n
          /\ provider'.refresh = IF rotates THEN n ELSE provider.refresh
        BY <2>1
    <2>5. Link(c, f)
        BY <2>1
    <2> HIDE DEF n, a
    <2>6. /\ f \in LinkType /\ f.pc = "load" /\ f.tokens = l.tokens /\ f.try = l.try
          /\ f.entered = l.entered /\ f.doc = l.doc /\ f.answer = a /\ f.hit = l.hit
        BY <2>3, Fields DEF LinkType
    <2> HIDE DEF f
    <2>7. /\ link' \in [Connections -> LinkType] /\ link'[c] = f
          /\ \A d \in Connections \ {c} : link'[d] = link[d]
        BY <2>5, <2>6, LinkMoves
    <2>8. TokenTypeOK'
        <3>1. provider' \in [access: SUBSET (1..MaxTokens), refresh: 1..MaxTokens,
                             issued: 1..MaxTokens]
            BY <2>1, <2>2, Fields DEF n
        <3>2. QED
            BY <1>1, <2>1, <2>7, <3>1 DEF TokenTypeOK
    <2>18. Files'
        BY <1>0, <1>1, <2>7 DEF Files, Saving
    <2>9. Renewable'
        BY <1>1, <2>6, <2>7 DEF Renewable
    <2>10. OnlyIssued'
        <3>1. /\ provider'.access \subseteq 1..n /\ accepted' \subseteq 1..n
              /\ stored'.access <= n
            BY <1>1, <2>2, <2>4, Fields DEF OnlyIssued
        <3>2. ASSUME NEW d \in Connections
              PROVE  /\ link'[d].tokens.access <= n /\ link'[d].doc.access <= n
                     /\ link'[d].answer.access <= n
            BY <2>2, <2>3, <2>6, <2>7, Fields DEF OnlyIssued
        <3>3. QED
            BY <2>4, <3>1, <3>2 DEF OnlyIssued
    <2>11. PendingIsNew'
        <3>1. /\ n \in provider'.access \ accepted' /\ stored'.access # n
              /\ \A d \in Connections : link[d].tokens.access # n /\ link[d].doc.access # n
                                          /\ link[d].answer.access # n
            BY <1>1, <2>2, <2>4, Fields DEF OnlyIssued
        <3>2. \A d \in Connections : link'[d].tokens = link[d].tokens
                                      /\ link'[d].doc = link[d].doc
            BY <2>6, <2>7
        <3>3. \A d \in Connections \ {c} : Pending(d)' => Pending(d)
            BY <2>7 DEF Pending
        <3>4. QED
            BY <1>1, <2>3, <2>4, <2>6, <2>7, <3>1, <3>2, <3>3 DEF PendingIsNew
    <2>12. RotatesAlone'
        <3>1. \A d \in Connections \ {c} : /\ Rotated(d)' <=> Rotated(d)
                                           /\ Pending(d)' <=> Pending(d)
            BY <2>7 DEF Rotated, Pending
        <3>2. Pending(c)' /\ (Rotated(c)' => rotates)
            BY <2>3, <2>6, <2>7 DEF Rotated, Pending
        <3>3. ASSUME ~raced', Rotated(c)', NEW d \in Connections \ {c}
              PROVE  link'[d].pc = "closed"
            BY <2>1, <2>7, <3>2, <3>3
        <3>4. ASSUME NEW b \in Connections \ {c}, Rotated(b)
              PROVE  Pending(b) /\ raced'
            BY <1>1, <2>1, <3>4 DEF RotatesAlone
        <3>5. QED
            BY <3>1, <3>2, <3>3, <3>4 DEF RotatesAlone
    <2>13. SecretAgrees'
        <3>1. ASSUME ~raced', \A d \in Connections : ~Rotated(d)'
              PROVE  stored' = stored /\ stored.refresh = provider.refresh /\ ~rotates
            <4>1. ~rotates
                BY <2>2, <2>3, <2>6, <2>7, <3>1 DEF Rotated
            <4>2. \A d \in Connections : ~Rotated(d)
                BY <1>2, <2>7, <3>1 DEF Rotated
            <4>3. ~raced
                BY <2>1, <3>1
            <4>4. QED
                BY <1>1, <4>1, <4>2, <4>3 DEF SecretAgrees
        <3>2. QED
            BY <2>4, <3>1 DEF SecretAgrees
    <2>14. LinksAgree'
        <3>1. ASSUME ~raced', NEW d \in Connections \ {c}
              PROVE  Agrees(link[d])'
            <4>1. link'[d] = link[d] /\ Agrees(link[d])
                BY <2>1, <2>7, <3>1 DEF LinksAgree
            <4>2. CASE rotates
                <5>1. link[d].pc = "closed" /\ link[d].answer.refresh = 0
                    BY <2>1, <3>1, <4>2 DEF RotatesAlone, Rotated, Pending
                <5>2. QED
                    BY <4>1, <5>1 DEF Agrees
            <4>3. CASE ~rotates
                BY <2>4, <4>1, <4>3 DEF Agrees
            <4>4. QED
                BY <4>2, <4>3
        <3>2. Agrees(link[c])'
            BY <2>3, <2>4, <2>6, <2>7 DEF Agrees
        <3>3. QED
            BY <3>1, <3>2 DEF LinksAgree
    <2>15. SecondTryUsable'
        <3>1. ASSUME NEW d \in Connections \ {c}
              PROVE  TryUsable(link[d])'
            <4>1. /\ link'[d] = link[d] /\ TryUsable(link[d]) /\ (raced => raced')
                  /\ provider.access \subseteq provider'.access /\ UNCHANGED stored
                BY <1>1, <2>1, <2>4, <2>7 DEF SecondTryUsable
            <4>2. QED
                BY <4>1 DEF TryUsable, Working
        <3>2. TryUsable(link[c])'
            BY <2>6, <2>7 DEF TryUsable
        <3>3. QED
            BY <3>1, <3>2 DEF SecondTryUsable
    <2>16. NoneRefused'
        BY <1>1, <2>1 DEF NoneRefused
    <2>17. QED
        BY <2>8, <2>9, <2>10, <2>11, <2>12, <2>13, <2>14, <2>15, <2>16, <2>18
<1>5. QED
    BY <1>3, <1>4

\* What becomes of a secret that one connection saves undisturbed, wherever it is stored.
Stores(c) ==
    /\ stored' = Written(link[c]) /\ Link(c, Saved(link[c]))
    /\ UNCHANGED <<provider, accepted, raced, refused>>
    /\ UNCHANGED medium /\ draft' \in Contents \cup {Absent} /\ fd' \in [Connections -> {"none"}]

LEMMA SaveStep ==
    ASSUME Steady, NEW c \in Connections, link[c].pc = "save", Stores(c) PROVE Steady'
<1> DEFINE l == link[c]
           k == Kept(l.answer, l.doc)
           f == [l EXCEPT !.pc = "request", !.tokens = l.answer, !.doc = NoTokens,
                          !.answer = NoTokens]
<1> USE DEF Steady
<1>1. /\ l.pc = "save" /\ Pending(c) /\ stored' = k /\ Link(c, f)
      /\ UNCHANGED <<provider, accepted, raced, refused>>
    BY DEF Stores, Written, Saved, Pending
<1>0. UNCHANGED medium /\ draft' \in Contents \cup {Absent} /\ fd' \in [Connections -> {"none"}]
    BY DEF Stores
<1>2. /\ f \in LinkType /\ f.pc = "request" /\ f.tokens = l.answer /\ f.try = l.try
      /\ f.entered = l.entered /\ f.doc = NoTokens /\ f.answer = NoTokens /\ f.hit = l.hit
    BY Fields, NoTokensType DEF LinkType
<1> HIDE DEF f
<1>3. /\ link' \in [Connections -> LinkType] /\ link'[c] = f
      /\ \A d \in Connections \ {c} : link'[d] = link[d]
    BY <1>1, <1>2, LinkMoves
<1>4. /\ k \in Document /\ k.access = l.answer.access
      /\ k.refresh = IF l.answer.refresh = 0 THEN l.doc.refresh ELSE l.answer.refresh
    BY Fields DEF Kept, Document
<1> HIDE DEF k
<1>5. /\ l.answer.access \in provider.access /\ l.answer.access \notin accepted
      /\ \A d \in Connections \ {c} : /\ link[d].answer.access # l.answer.access
                                       /\ link[d].tokens.access # l.answer.access
                                       /\ link[d].doc.access # l.answer.access
      /\ l.doc.refresh # 0
    BY <1>1 DEF PendingIsNew, Renewable
<1>6. TokenTypeOK' /\ Files'
    BY <1>0, <1>1, <1>3, <1>4, Kinds DEF TokenTypeOK, Files
<1>7. Renewable'
    BY <1>1, <1>2, <1>3, <1>4, <1>5 DEF Renewable
<1>8. OnlyIssued'
    BY <1>1, <1>2, <1>3, <1>4, NoTokensType, Fields DEF OnlyIssued
<1>9. PendingIsNew'
    <2>1. ASSUME NEW b \in Connections, Pending(b)'
          PROVE  LET n == link'[b].answer.access IN
                 /\ n \in provider'.access \ accepted' /\ stored'.access # n
                 /\ \A d \in Connections : link'[d].tokens.access # n /\ link'[d].doc.access # n
                 /\ \A d \in Connections \ {b} : link'[d].answer.access # n
        <3> DEFINE n == link[b].answer.access
        <3>1. b # c /\ Pending(b) /\ link'[b].answer.access = n
            BY <1>2, <1>3, <2>1 DEF Pending
        <3>2. /\ n \in provider.access \ accepted
              /\ \A d \in Connections : link[d].tokens.access # n /\ link[d].doc.access # n
              /\ \A d \in Connections \ {b} : link[d].answer.access # n
            BY <3>1 DEF PendingIsNew
        <3>3. n # 0 /\ n # l.answer.access
            BY <1>5, <3>1, <3>2, Fields
        <3> HIDE DEF n
        <3>4. /\ f.tokens.access # n /\ f.doc.access # n /\ f.answer.access # n
              /\ stored'.access # n
            BY <1>1, <1>2, <1>4, <3>3, NoTokensType
        <3>5. QED
            BY <1>1, <1>3, <3>1, <3>2, <3>4
    <2>2. QED
        BY <2>1 DEF PendingIsNew
<1>10. RotatesAlone'
    <2>1. ~Rotated(c)'
        BY <1>2, <1>3, NoTokensType DEF Rotated
    <2>2. ASSUME NEW b \in Connections \ {c}, Rotated(b)'
          PROVE  Pending(b)' /\ raced'
        BY <1>1, <1>3, <2>2 DEF RotatesAlone, Rotated, Pending
    <2>3. QED
        BY <2>1, <2>2 DEF RotatesAlone
<1>11. ASSUME ~raced'
       PROVE  stored'.refresh = provider.refresh
    <2>1. ~raced /\ Agrees(l)
        BY <1>1, <1>11 DEF LinksAgree
    <2>2. QED
        BY <1>1, <1>4, <2>1 DEF Agrees
<1>12. SecretAgrees'
    BY <1>1, <1>11 DEF SecretAgrees
<1>13. LinksAgree'
    <2>1. ASSUME ~raced', NEW d \in Connections \ {c}
          PROVE  Agrees(link[d])'
        <3>1. Agrees(link[d])
            BY <1>1, <2>1 DEF LinksAgree
        <3>2. QED
            BY <1>1, <1>3, <3>1 DEF Agrees
    <2>2. ASSUME ~raced'
          PROVE  Agrees(link[c])'
        <3>1. Agrees(l)
            BY <1>1, <2>2 DEF LinksAgree
        <3>2. QED
            BY <1>1, <1>2, <1>3, <3>1, NoTokensType DEF Agrees
    <2>3. QED
        BY <2>1, <2>2 DEF LinksAgree
<1>14. SecondTryUsable'
    <2>1. Working(stored)'
        BY <1>1, <1>4, <1>5 DEF Working
    <2>2. ASSUME NEW d \in Connections \ {c}
          PROVE  TryUsable(link[d])'
        <3>1. TryUsable(link[d])
            BY DEF SecondTryUsable
        <3>2. QED
            BY <1>1, <1>3, <2>1, <3>1 DEF TryUsable, Working
    <2>3. TryUsable(link[c])'
        BY <1>1, <1>2, <1>3, <1>5 DEF TryUsable, Working
    <2>4. QED
        BY <2>2, <2>3 DEF SecondTryUsable
<1>15. NoneRefused'
    BY <1>1 DEF NoneRefused
<1>16. QED
    BY <1>6, <1>7, <1>8, <1>9, <1>10, <1>12, <1>13, <1>14, <1>15

LEMMA ForceStep ==
    ASSUME Steady, NEW c \in Connections, link[c].pc = "mark", Stores(c) PROVE Steady'
<1> DEFINE l == link[c]
           k == Forced(l.doc)
           f == [l EXCEPT !.pc = "again", !.doc = NoTokens]
<1> USE DEF Steady
<1>1. /\ l.pc = "mark" /\ stored' = k /\ Link(c, f)
      /\ UNCHANGED <<provider, accepted, raced, refused>>
    BY DEF Stores, Written, Saved
<1>0. UNCHANGED medium /\ draft' \in Contents \cup {Absent} /\ fd' \in [Connections -> {"none"}]
    BY DEF Stores
<1>2. /\ f \in LinkType /\ f.pc = "again" /\ f.tokens = l.tokens /\ f.try = l.try
      /\ f.entered = l.entered /\ f.doc = NoTokens /\ f.answer = l.answer /\ f.hit = l.hit
    BY Fields, NoTokensType DEF LinkType
<1> HIDE DEF f
<1>3. /\ link' \in [Connections -> LinkType] /\ link'[c] = f
      /\ \A d \in Connections \ {c} : link'[d] = link[d]
    BY <1>1, <1>2, LinkMoves
<1>4. /\ k \in Document /\ k.access = l.doc.access /\ k.refresh = l.doc.refresh
      /\ k.expires = "past"
    BY Fields DEF Forced, Document
<1> HIDE DEF k
<1>5. l.doc.refresh # 0 /\ ~Rotated(c)
    BY <1>1 DEF Renewable, RotatesAlone, Pending
<1>6. TokenTypeOK' /\ Files'
    BY <1>0, <1>1, <1>3, <1>4, Kinds DEF TokenTypeOK, Files
<1>7. Renewable'
    BY <1>1, <1>2, <1>3, <1>4, <1>5 DEF Renewable
<1>8. OnlyIssued'
    BY <1>1, <1>2, <1>3, <1>4, NoTokensType, Fields DEF OnlyIssued
<1>9. PendingIsNew'
    <2>1. ASSUME NEW b \in Connections, Pending(b)'
          PROVE  LET n == link'[b].answer.access IN
                 /\ n \in provider'.access \ accepted' /\ stored'.access # n
                 /\ \A d \in Connections : link'[d].tokens.access # n /\ link'[d].doc.access # n
                 /\ \A d \in Connections \ {b} : link'[d].answer.access # n
        <3> DEFINE n == link[b].answer.access
        <3>1. b # c /\ Pending(b) /\ link'[b].answer.access = n
            BY <1>2, <1>3, <2>1 DEF Pending
        <3>2. /\ n \in provider.access \ accepted
              /\ \A d \in Connections : link[d].tokens.access # n /\ link[d].doc.access # n
              /\ \A d \in Connections \ {b} : link[d].answer.access # n
            BY <3>1 DEF PendingIsNew
        <3>3. n # 0
            BY <3>2, Fields
        <3> HIDE DEF n
        <3>4. /\ f.tokens.access # n /\ f.doc.access # n /\ f.answer.access # n
              /\ stored'.access # n
            BY <1>1, <1>2, <1>4, <3>1, <3>2, <3>3, NoTokensType
        <3>5. QED
            BY <1>1, <1>3, <3>1, <3>2, <3>4
    <2>2. QED
        BY <2>1 DEF PendingIsNew
<1>10. RotatesAlone'
    <2>1. \A d \in Connections : /\ Rotated(d)' <=> Rotated(d)
                                 /\ Pending(d)' <=> Pending(d)
        BY <1>1, <1>2, <1>3 DEF Rotated, Pending
    <2>2. ASSUME NEW b \in Connections, Rotated(b), ~raced
          PROVE  FALSE
        BY <1>1, <1>5, <2>2 DEF RotatesAlone
    <2>3. QED
        BY <1>1, <2>1, <2>2 DEF RotatesAlone
<1>11. ASSUME ~raced'
       PROVE  stored'.refresh = provider.refresh
    <2>1. ~raced /\ Agrees(l)
        BY <1>1, <1>11 DEF LinksAgree
    <2>2. QED
        BY <1>1, <1>4, <1>5, <2>1 DEF Agrees, Rotated
<1>12. SecretAgrees'
    BY <1>1, <1>11 DEF SecretAgrees
<1>13. LinksAgree'
    <2>1. ASSUME ~raced', NEW d \in Connections \ {c}
          PROVE  Agrees(link[d])'
        <3>1. Agrees(link[d])
            BY <1>1, <2>1 DEF LinksAgree
        <3>2. QED
            BY <1>1, <1>3, <3>1 DEF Agrees
    <2>2. ASSUME ~raced'
          PROVE  Agrees(link[c])'
        BY <1>1, <1>2, <1>3, <1>5 DEF Agrees, Rotated
    <2>3. QED
        BY <2>1, <2>2 DEF LinksAgree
<1>14. SecondTryUsable'
    <2>1. Working(stored)'
        BY <1>1, <1>4, <1>5 DEF Working, Expired
    <2>2. ASSUME NEW d \in Connections \ {c}
          PROVE  TryUsable(link[d])'
        <3>1. TryUsable(link[d])
            BY DEF SecondTryUsable
        <3>2. QED
            BY <1>1, <1>3, <2>1, <3>1 DEF TryUsable, Working
    <2>3. TryUsable(link[c])'
        <3>1. TryUsable(link[c])
            BY DEF SecondTryUsable
        <3>2. QED
            BY <1>1, <1>2, <1>3, <2>1, <3>1 DEF TryUsable
    <2>4. QED
        BY <2>2, <2>3 DEF SecondTryUsable
<1>15. NoneRefused'
    BY <1>1 DEF NoneRefused
<1>16. QED
    BY <1>6, <1>7, <1>8, <1>9, <1>10, <1>12, <1>13, <1>14, <1>15

\* What the clock does to every copy of the tokens when one of them is withdrawn.
LEMMA WithdrawStep ==
    ASSUME Steady, NEW n \in provider.access, NEW early \in BOOLEAN, Withdraw(n, early)
    PROVE  Steady'
<1> DEFINE aged(t) == Aged(t, n, early)
           f(d) == [link[d] EXCEPT !.tokens = aged(@), !.doc = aged(@), !.answer = aged(@),
                                   !.hit = @ \/ link[d].try = 2]
<1> USE DEF Steady
<1>1. /\ n \in accepted /\ provider' = [provider EXCEPT !.access = @ \ {n}]
      /\ stored' = aged(stored) /\ link' = [d \in Connections |-> f(d)]
      /\ draft' = aged(draft) /\ UNCHANGED <<accepted, raced, refused>> /\ UNCHANGED <<medium, fd>>
    BY DEF Withdraw
<1>2. ASSUME NEW t \in Document
      PROVE  /\ aged(t) \in Document /\ aged(t).access = t.access
             /\ aged(t).refresh = t.refresh /\ (Expired(t) => Expired(aged(t)))
    BY AgedType DEF Contents
<1>17. TokenTypeOK' /\ Files'
    <2>1. ASSUME NEW d \in Connections, fd[d] # "none"
          PROVE  aged(Written(link[d])) = Written(f(d)) /\ aged(Empty) = Empty
        <3>1. link[d] \in LinkType /\ f(d) \in LinkType
            BY <1>2, Fields DEF LinkType
        <3>2. f(d).pc = link[d].pc /\ f(d).doc = aged(link[d].doc) /\ f(d).answer = aged(link[d].answer)
            BY Fields DEF LinkType
        <3>3. Empty \notin Document
            BY Kinds DEF Unreadable
        <3> HIDE DEF f
        <3>4. QED
            BY <3>1, <3>2, <3>3, AgedWritten, AgedType, Kinds
    <2>2. \A d \in Connections : f(d) \in LinkType /\ f(d).pc = link[d].pc
        BY <1>2, Fields DEF LinkType
    <2>3. provider' \in [access: SUBSET (1..MaxTokens), refresh: 1..MaxTokens,
                         issued: 1..MaxTokens]
        BY <1>1 DEF TokenTypeOK
    <2>4. stored' \in Document /\ stored' \in Contents /\ draft' \in Contents \cup {Absent}
        BY <1>1, AgedType DEF TokenTypeOK, Files, Contents
    <2> HIDE DEF f, aged
    <2>5. link' \in [Connections -> LinkType] /\ \A d \in Connections : link'[d] = f(d)
        BY <1>1, <2>2
    <2>6. TokenTypeOK'
        BY <1>1, <2>3, <2>4, <2>5 DEF TokenTypeOK
    <2>7. ASSUME NEW d \in Connections, fd[d] # "none"
          PROVE  /\ medium' = "file" /\ Saving(d)' /\ fd'[d] \in {"tmp", "written"}
                 /\ fd'[d] = "tmp" => draft' = Empty
                 /\ fd'[d] = "written" => draft' = Written(link'[d])
                 /\ \A e \in Connections \ {d} : fd'[e] = "none"
        BY <1>1, <2>1, <2>2, <2>5, <2>7 DEF Files, Saving
    <2>8. QED
        BY <1>1, <2>4, <2>6, <2>7 DEF Files
<1> HIDE DEF aged
<1>3. ASSUME NEW d \in Connections
      PROVE  LET l == link[d] IN
             /\ f(d) \in LinkType /\ f(d).pc = l.pc /\ f(d).try = l.try
             /\ f(d).entered = l.entered /\ f(d).tokens = aged(l.tokens)
             /\ f(d).doc = aged(l.doc) /\ f(d).answer = aged(l.answer)
             /\ f(d).hit = (l.hit \/ l.try = 2)
    BY <1>2, Fields DEF LinkType
<1> HIDE DEF f
<1>4. ASSUME NEW d \in Connections
      PROVE  LET l == link[d]  m == link'[d] IN
             /\ m \in LinkType /\ m.pc = l.pc /\ m.try = l.try /\ m.entered = l.entered
             /\ m.tokens.access = l.tokens.access /\ m.tokens.refresh = l.tokens.refresh
             /\ m.doc.access = l.doc.access /\ m.doc.refresh = l.doc.refresh
             /\ m.answer.access = l.answer.access /\ m.answer.refresh = l.answer.refresh
             /\ m.hit = (l.hit \/ l.try = 2)
    <2>1. link'[d] = f(d)
        BY <1>1
    <2>2. QED
        BY <1>2, <1>3, <2>1, Fields
<1>5. /\ provider'.access = provider.access \ {n} /\ provider'.refresh = provider.refresh
      /\ provider'.issued = provider.issued
      /\ stored' \in Document /\ stored'.access = stored.access
      /\ stored'.refresh = stored.refresh
    BY <1>1, <1>2 DEF TokenTypeOK, Files
<1>6. \A d \in Connections : /\ Pending(d)' <=> Pending(d)
                             /\ Rotated(d)' <=> Rotated(d)
    BY <1>4 DEF Pending, Rotated
<1>8. Renewable'
    BY <1>4, <1>5 DEF Renewable
<1>9. OnlyIssued'
    BY <1>1, <1>4, <1>5 DEF OnlyIssued
<1>10. PendingIsNew'
    BY <1>1, <1>4, <1>5, <1>6 DEF PendingIsNew
<1>11. RotatesAlone'
    BY <1>1, <1>4, <1>6 DEF RotatesAlone
<1>12. SecretAgrees'
    BY <1>1, <1>5, <1>6 DEF SecretAgrees
<1>13. LinksAgree'
    BY <1>1, <1>4, <1>5 DEF LinksAgree, Agrees
<1>14. SecondTryUsable'
    <2>1. ASSUME NEW d \in Connections
          PROVE  TryUsable(link[d])'
        <3>1. TryUsable(link[d])
            BY DEF SecondTryUsable
        <3>2. link[d].try = 2 => link'[d].hit
            BY <1>4
        <3>3. QED
            BY <1>4, <3>1, <3>2 DEF TryUsable
    <2>2. QED
        BY <2>1 DEF SecondTryUsable
<1>15. NoneRefused'
    BY <1>1 DEF NoneRefused
<1>16. QED
    BY <1>8, <1>9, <1>10, <1>11, <1>12, <1>13, <1>14, <1>15, <1>17

-------------------------------------------------------------------------------
\* A secret is saved in one step, or in three through a file that only one connection has open.
LEMMA StoresStep == ASSUME Steady, NEW c \in Connections, Saving(c), Stores(c) PROVE Steady'
BY SaveStep, ForceStep DEF Saving

LEMMA ParameterStep == ASSUME Steady, NEW c \in Connections, PutParameter(c) PROVE Steady'
<1>1. \A d \in Connections : fd[d] = "none"
    BY DEF PutParameter, Steady, Files
<1>2. fd' \in [Connections -> {"none"}] /\ draft' \in Contents \cup {Absent}
    BY <1>1 DEF PutParameter, fileVars, Steady, TokenTypeOK
<1>3. Stores(c) /\ Saving(c)
    BY <1>2 DEF PutParameter, fileVars, Stores
<1>4. QED
    BY <1>3, StoresStep

LEMMA ReplaceStep == ASSUME Steady, NEW c \in Connections, ReplaceTmp(c) PROVE Steady'
<1> USE DEF Steady
<1>1. /\ fd[c] = "written" /\ Saving(c) /\ draft = Written(link[c])
      /\ \A d \in Connections \ {c} : fd[d] = "none"
    BY DEF ReplaceTmp, Files
<1>2. draft \in Document /\ draft # Absent
    BY <1>1, Fields, SavedType, Kinds DEF Saving
<1>3. /\ stored' = draft /\ draft' = Absent /\ Link(c, Saved(link[c]))
      /\ fd' = [d \in Connections |-> IF d = c THEN "none" ELSE Moved(fd[d])]
      /\ UNCHANGED <<medium, provider, accepted, raced, refused>>
    BY <1>2 DEF ReplaceTmp
<1>4. fd' \in [Connections -> {"none"}]
    BY <1>1, <1>3 DEF Moved
<1>5. Stores(c)
    BY <1>1, <1>3, <1>4 DEF Stores
<1>6. QED
    BY <1>1, <1>5, StoresStep

\* What only the files see.
LEMMA FileStep ==
    ASSUME Steady, UNCHANGED <<medium, provider, stored, link, accepted, refused>>,
           raced => raced', TokenTypeOK', Files'
    PROVE  Steady'
<1> USE DEF Steady
<1>1. \A c \in Connections : /\ Pending(c)' <=> Pending(c)
                             /\ Rotated(c)' <=> Rotated(c)
    BY DEF Pending, Rotated
<1>2. Renewable' /\ OnlyIssued' /\ PendingIsNew'
    BY <1>1 DEF Renewable, OnlyIssued, PendingIsNew
<1>3. RotatesAlone' /\ SecretAgrees'
    BY <1>1 DEF RotatesAlone, SecretAgrees
<1>4. LinksAgree' /\ SecondTryUsable' /\ NoneRefused'
    BY DEF LinksAgree, Agrees, SecondTryUsable, TryUsable, Working, NoneRefused
<1>5. QED
    BY <1>2, <1>3, <1>4

LEMMA OpenTmpStep ==
    ASSUME Steady, NEW c \in Connections, OpenTmp(c), TokenTypeOK', ~raced' PROVE Steady'
<1> USE DEF Steady
<1>1. /\ medium = "file" /\ Saving(c) /\ draft' = Empty /\ fd' = [fd EXCEPT ![c] = "tmp"]
      /\ UNCHANGED <<medium, provider, stored, link, accepted, refused>>
      /\ (raced => raced') /\ \A d \in Connections : fd[d] = "none"
    BY DEF OpenTmp
<1>2. fd'[c] = "tmp" /\ \A d \in Connections \ {c} : fd'[d] = "none"
    BY <1>1 DEF TokenTypeOK
<1>3. Files'
    BY <1>1, <1>2 DEF Files, Saving
<1>4. QED
    BY <1>1, <1>3, FileStep

LEMMA WriteTmpStep ==
    ASSUME Steady, NEW c \in Connections, WriteTmp(c), TokenTypeOK' PROVE Steady'
<1> USE DEF Steady
<1>1. /\ fd[c] = "tmp" /\ draft = Empty /\ medium = "file" /\ Saving(c)
      /\ \A d \in Connections \ {c} : fd[d] = "none"
    BY DEF WriteTmp, Files
<1>2. /\ draft' = Written(link[c]) /\ stored' = stored /\ fd' = [fd EXCEPT ![c] = "written"]
      /\ UNCHANGED <<medium, provider, link, accepted, raced, refused>>
    BY <1>1 DEF WriteTmp
<1>3. fd'[c] = "written" /\ \A d \in Connections \ {c} : fd'[d] = "none"
    BY <1>1, <1>2 DEF TokenTypeOK
<1>4. Files'
    BY <1>1, <1>2, <1>3 DEF Files, Saving
<1>5. QED
    BY <1>2, <1>4, FileStep

-------------------------------------------------------------------------------
\* Whatever was saved over what, every step keeps the types.
LEMMA LinkTypes ==
    ASSUME TokenTypeOK, NEW c \in Connections, NEW f \in LinkType, Link(c, f)
    PROVE  link' \in [Connections -> LinkType]
BY LinkMoves

LEMMA TypeStep == ASSUME TokenTypeOK, [TokenNext]_tokenVars PROVE TokenTypeOK'
<1>0. /\ provider.access \subseteq 1..MaxTokens /\ provider.issued \in 1..MaxTokens
      /\ \A c \in Connections : /\ link[c] \in LinkType /\ link[c].tokens \in Document
                                /\ link[c].doc \in Document /\ link[c].answer \in Document
    BY Fields
<1>1. ASSUME NEW n \in provider.access, NEW early \in BOOLEAN, Withdraw(n, early)
      PROVE  TokenTypeOK'
    <2> DEFINE aged(t) == Aged(t, n, early)
               f(d) == [link[d] EXCEPT !.tokens = aged(@), !.doc = aged(@), !.answer = aged(@),
                                       !.hit = @ \/ link[d].try = 2]
    <2>1. /\ provider' = [provider EXCEPT !.access = @ \ {n}] /\ stored' = aged(stored)
          /\ draft' = aged(draft) /\ link' = [d \in Connections |-> f(d)]
          /\ UNCHANGED <<accepted, raced, refused, medium, fd>>
        BY <1>1 DEF Withdraw
    <2>2. stored' \in Contents /\ draft' \in Contents \cup {Absent}
        BY <2>1, AgedType DEF TokenTypeOK
    <2>3. \A t \in Document : aged(t) \in Document
        BY AgedType DEF Contents
    <2> HIDE DEF aged
    <2>4. \A d \in Connections : f(d) \in LinkType
        BY <1>0, <2>3 DEF LinkType
    <2> HIDE DEF f
    <2>5. link' \in [Connections -> LinkType]
        BY <2>1, <2>4
    <2>6. provider' \in [access: SUBSET (1..MaxTokens), refresh: 1..MaxTokens,
                         issued: 1..MaxTokens]
        BY <2>1 DEF TokenTypeOK
    <2>7. QED
        BY <2>1, <2>2, <2>5, <2>6 DEF TokenTypeOK
<1>2. ASSUME NEW c \in Connections, Open(c) \/ LoadTokens(c) \/ Reject(c) PROVE TokenTypeOK'
    <2>1. PICK f \in {[link[c] EXCEPT !.pc = "request", !.tokens = stored],
                      [link[c] EXCEPT !.pc = "save", !.doc = stored],
                      [link[c] EXCEPT !.pc = "mark", !.try = 2, !.doc = stored], Closed} :
               Link(c, f) /\ (f = Closed \/ stored \in Document)
        <3>1. stored \notin Unreadable => stored \in Document
            BY DEF TokenTypeOK, Contents
        <3>2. CASE Open(c)
            BY <3>1, <3>2 DEF Open
        <3>3. CASE LoadTokens(c)
            BY <3>1, <3>3 DEF LoadTokens
        <3>4. CASE Reject(c)
            BY <3>1, <3>4 DEF Reject
        <3>5. QED
            BY <1>2, <3>2, <3>3, <3>4
    <2>2. f \in LinkType
        BY <1>0, <2>1, NoTokensType DEF LinkType
    <2>3. link' \in [Connections -> LinkType]
        BY <2>1, <2>2, LinkTypes
    <2>4. UNCHANGED <<provider, stored, accepted, medium, draft, fd>>
        BY <1>2 DEF Open, LoadTokens, Reject, fileVars
    <2>5. raced' \in BOOLEAN /\ refused' \subseteq Connections
        BY <1>2 DEF Open, LoadTokens, Reject, TokenTypeOK
    <2>6. QED
        BY <2>3, <2>4, <2>5 DEF TokenTypeOK
<1>3. ASSUME NEW c \in Connections, Misread(c) \/ Use(c) \/ Leave(c) PROVE TokenTypeOK'
    <2>1. PICK f \in {[link[c] EXCEPT !.pc = "request"], Closed} : Link(c, f)
        BY <1>3 DEF Misread, Use, Leave
    <2>2. f \in LinkType
        BY <1>0, <2>1, NoTokensType DEF LinkType
    <2>3. link' \in [Connections -> LinkType]
        BY <2>1, <2>2, LinkTypes
    <2>4. UNCHANGED <<provider, stored, accepted, refused, medium, draft>>
        BY <1>3 DEF Misread, Use, Leave, fileVars
    <2>5. /\ raced' \in BOOLEAN
          /\ fd' \in [Connections -> {"none", "tmp", "secret", "gone", "written"}]
        BY <1>3 DEF Misread, Use, Leave, fileVars, TokenTypeOK
    <2>6. QED
        BY <2>3, <2>4, <2>5 DEF TokenTypeOK
<1>4. ASSUME NEW c \in Connections, Send(c) PROVE TokenTypeOK'
    <2> DEFINE ok == link[c].tokens.access \in provider.access
               f == [link[c] EXCEPT !.pc = IF ok THEN "open" ELSE "unauthorized",
                                    !.entered = @ \/ ok]
    <2>1. /\ Link(c, f) /\ UNCHANGED <<provider, stored, raced, refused, medium, draft, fd>>
          /\ accepted' = IF ok THEN accepted \cup {link[c].tokens.access} ELSE accepted
        BY <1>4 DEF Send, fileVars
    <2>2. f \in LinkType
        BY <1>0 DEF LinkType
    <2> HIDE DEF f
    <2>3. link' \in [Connections -> LinkType] /\ accepted' \subseteq 1..MaxTokens
        BY <1>0, <2>1, <2>2, LinkTypes DEF TokenTypeOK
    <2>4. QED
        BY <2>1, <2>3 DEF TokenTypeOK
<1>5. ASSUME NEW c \in Connections, Refresh(c) PROVE TokenTypeOK'
    <2> DEFINE n == provider.issued + 1
               a(rotates, expires) == [access |-> n, refresh |-> IF rotates THEN n ELSE 0,
                                       expires |-> expires]
    <2>0. provider.issued < MaxTokens
        BY <1>5 DEF Refresh
    <2>1. n \in 1..MaxTokens
        BY <1>0, <2>0, TokenAssumption
    <2>2. /\ UNCHANGED <<stored, accepted, refused, medium, draft, fd>>
          /\ \/ Link(c, [link[c] EXCEPT !.tokens = NoTokens]) /\ UNCHANGED <<provider, raced>>
             \/ \E rotates \in BOOLEAN, expires \in {"later", "never"} :
                  /\ provider' = [access |-> provider.access \cup {n}, issued |-> n,
                                  refresh |-> IF rotates THEN n ELSE provider.refresh]
                  /\ Link(c, [link[c] EXCEPT !.pc = "load", !.answer = a(rotates, expires)])
                  /\ raced' \in BOOLEAN
        BY <1>5 DEF Refresh, fileVars, TokenTypeOK
    <2>3. \A rotates \in BOOLEAN, expires \in {"later", "never"} :
            a(rotates, expires) \in Document
        BY <2>1, TokenAssumption DEF Document
    <2> HIDE DEF n, a
    <2>4. /\ [link[c] EXCEPT !.tokens = NoTokens] \in LinkType
          /\ \A t \in Document : [link[c] EXCEPT !.pc = "load", !.answer = t] \in LinkType
        BY <1>0, NoTokensType DEF LinkType
    <2>5. CASE Link(c, [link[c] EXCEPT !.tokens = NoTokens]) /\ UNCHANGED <<provider, raced>>
        <3>1. link' \in [Connections -> LinkType]
            BY <2>4, <2>5, LinkTypes
        <3>2. QED
            BY <2>2, <2>5, <3>1 DEF TokenTypeOK
    <2>6. ASSUME NEW rotates \in BOOLEAN, NEW expires \in {"later", "never"},
                 provider' = [access |-> provider.access \cup {n}, issued |-> n,
                              refresh |-> IF rotates THEN n ELSE provider.refresh],
                 Link(c, [link[c] EXCEPT !.pc = "load", !.answer = a(rotates, expires)]),
                 raced' \in BOOLEAN
          PROVE  TokenTypeOK'
        <3>1. link' \in [Connections -> LinkType]
            BY <2>3, <2>4, <2>6, LinkTypes
        <3>2. provider' \in [access: SUBSET (1..MaxTokens), refresh: 1..MaxTokens,
                             issued: 1..MaxTokens]
            BY <2>1, <2>6, Fields
        <3>3. QED
            BY <2>2, <2>6, <3>1, <3>2 DEF TokenTypeOK
    <2>7. QED
        BY <2>2, <2>5, <2>6
<1>6. ASSUME NEW c \in Connections,
             PutParameter(c) \/ OpenTmp(c) \/ WriteTmp(c) \/ ReplaceTmp(c)
      PROVE  TokenTypeOK'
    <2>1. Written(link[c]) \in Document /\ Saved(link[c]) \in LinkType
        BY <1>0, SavedType
    <2>2. Written(link[c]) \in Contents
        BY <2>1, Kinds
    <2>3. CASE PutParameter(c)
        <3>1. link' \in [Connections -> LinkType]
            BY <2>1, <2>3, LinkTypes DEF PutParameter
        <3>2. QED
            BY <2>2, <2>3, <3>1 DEF PutParameter, fileVars, TokenTypeOK
    <2>4. CASE OpenTmp(c)
        BY <2>4, Kinds DEF OpenTmp, TokenTypeOK
    <2>5. CASE WriteTmp(c)
        <3>1. stored' \in Contents /\ draft' \in Contents \cup {Absent}
            BY <2>2, <2>5, Kinds DEF WriteTmp, TokenTypeOK
        <3>2. QED
            BY <2>5, <3>1 DEF WriteTmp, TokenTypeOK
    <2>6. CASE ReplaceTmp(c)
        <3>1. link' \in [Connections -> LinkType]
            BY <2>1, <2>6, NoTokensType, LinkTypes DEF ReplaceTmp
        <3>2. stored' \in Contents /\ draft' \in Contents \cup {Absent}
            BY <2>6 DEF ReplaceTmp, TokenTypeOK
        <3>3. fd' \in [Connections -> {"none", "tmp", "secret", "gone", "written"}]
            <4>1. \A file \in {"none", "tmp", "secret", "gone", "written"} :
                    Moved(file) \in {"none", "tmp", "secret", "gone", "written"}
                BY DEF Moved
            <4>2. QED
                BY <2>6, <4>1 DEF ReplaceTmp, TokenTypeOK
        <3>4. QED
            BY <2>6, <3>1, <3>2, <3>3 DEF ReplaceTmp, TokenTypeOK
    <2>7. QED
        BY <1>6, <2>3, <2>4, <2>5, <2>6
<1>7. CASE UNCHANGED tokenVars
    BY <1>7 DEF tokenVars, fileVars, TokenTypeOK
<1>8. QED
    BY <1>1, <1>2, <1>3, <1>4, <1>5, <1>6, <1>7 DEF TokenNext

-------------------------------------------------------------------------------
\* The history remembers a race.
LEMMA RacedStays == ASSUME [TokenNext]_tokenVars, raced PROVE raced'
<1>1. ASSUME NEW c \in Connections, Refresh(c) PROVE raced'
    BY <1>1 DEF Refresh
<1>2. QED
    BY <1>1 DEF TokenNext, Withdraw, Open, Misread, Send, LoadTokens, Reject, Use, Leave,
       PutParameter, OpenTmp, WriteTmp, ReplaceTmp, tokenVars

LEMMA MisreadStep == ASSUME Steady, NEW c \in Connections PROVE ~Misread(c)
BY Kinds DEF Misread, Steady, Files

LEMMA SteadyStep ==
    ASSUME Steady, [TokenNext]_tokenVars, TokenTypeOK', ~raced'
    PROVE  Steady'
<1>1. CASE UNCHANGED tokenVars
    <2>1. Files'
        BY <1>1 DEF tokenVars, fileVars, Steady, Files, Saving
    <2>2. QED
        BY <1>1, <2>1, FileStep DEF tokenVars, fileVars
<1>2. QED
    BY <1>1, OpenStep, MisreadStep, SendStep, RefreshStep, LoadStep, RejectStep, UseStep,
       LeaveStep, WithdrawStep, ParameterStep, OpenTmpStep, WriteTmpStep, ReplaceStep
       DEF TokenNext

LEMMA TokenInitInv == TokenInit => TokenInv
BY TokenInitHolds DEF TokenInv, Steady, TokenInit

LEMMA TokenStep == TokenInv /\ [TokenNext]_tokenVars => TokenInv'
<1> SUFFICES ASSUME TokenInv, [TokenNext]_tokenVars PROVE TokenInv'
    OBVIOUS
<1>1. TokenTypeOK'
    BY TypeStep DEF TokenInv
<1>2. ~raced' => ~raced /\ Steady'
    BY <1>1, RacedStays, SteadyStep DEF TokenInv
<1>3. ASSUME raced' PROVE refused' = {}
    <2>1. ASSUME NEW c \in Connections, Reject(c) PROVE refused' = {}
        BY <1>3, <2>1 DEF Reject, TokenInv
    <2>2. QED
        BY <2>1 DEF TokenInv, TokenNext, Withdraw, Open, Misread, Send, Refresh, LoadTokens, Use,
           Leave, PutParameter, OpenTmp, WriteTmp, ReplaceTmp, tokenVars
<1>4. QED
    BY <1>1, <1>2, <1>3 DEF TokenInv, Steady, NoneRefused

\* For any number of connections, and whatever the provider withdraws and when, wherever the
\* secret is stored: without a rotation that a connection missed or two saves of the file at
\* once, no connection is given up for a second try that was in vain, and the secret keeps the
\* refresh token that the provider takes, wherever a process died in a save.
THEOREM Unattended == TokenSpec => []WorksUnattended
<1>1. TokenInv => WorksUnattended
    BY DEF TokenInv, Steady, WorksUnattended, SecretAgrees, RotatesAlone, Pending
<1>2. QED
    BY <1>1, TokenInitInv, TokenStep, PTL DEF TokenSpec

\* The tokens are well-formed throughout, and a file is a document, empty, torn or absent.
THEOREM TokenTypeCorrect == TokenSpec => []TokenTypeOK
<1>1. TokenInv => TokenTypeOK
    BY DEF TokenInv
<1>2. QED
    BY <1>1, TokenInitInv, TokenStep, PTL DEF TokenSpec

===============================================================================
