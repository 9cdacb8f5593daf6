---------------------------- MODULE OAuthHandoff ----------------------------
(***************************************************************************)
(* The interactive authorization of one MCP source: the CLI asks for it    *)
(* (cmd_authorize), a worker runs it (handle_authorize), the operator's    *)
(* browser comes back to the server's callback (web.py), and the three     *)
(* meet in a row of the registry's oauth table.                            *)
(*                                                                         *)
(* The job is at least once: the server may die at any point and then      *)
(* delivers it again, a new attempt with a new OAuth state.  The lease     *)
(* (30 minutes) is longer than an attempt, so a request has one attempt at *)
(* a time; two requests may be under way together.  The browser may follow *)
(* any URL it was shown, late, more than once, and be refused.  The SDK    *)
(* (external) makes up a state for every login, refuses an answer that     *)
(* carries another, and the provider takes a code once.                    *)
(***************************************************************************)
EXTENDS Integers, FiniteSets

CONSTANTS
    Requests,      \* `aquifer sources authorize` commands, in the order of their numbers
    MaxDeliveries, \* node.job_max_attempts
    MaxStates,     \* bound: logins begun
    MaxAge         \* integrator.authorize_timeout_s, and the callback's limit

ASSUME HandoffAssumption ==
    /\ Requests \subseteq Nat \ {0} /\ MaxStates \in Nat
    /\ MaxDeliveries \in Nat \ {0} /\ MaxAge \in Nat \ {0}

VARIABLES
    oauth,     \* the oauth table: a row for each request
    attempt,   \* the worker's attempt at each request
    logins,    \* logins begun: a state is its number
    granted,   \* states whose code the provider has given to the browser
    spent,     \* codes the provider has exchanged
    present,   \* is the source in the registry?
    returned   \* history: the callback's answer to each state, while it was good news

handoffVars == <<oauth, attempt, logins, granted, spent, present, returned>>

States == 1..MaxStates

\* A code is the state it was granted for; 0 is NULL.
NoRow == [status |-> "none", url |-> 0, oauth_state |-> 0, code |-> 0, age |-> 0]
NoAttempt == [pc |-> "none", deliveries |-> 0, state |-> 0, code |-> 0, answered |-> 0,
              waited |-> 0]

HandoffInit ==
    /\ oauth = [r \in Requests |-> NoRow]
    /\ attempt = [r \in Requests |-> NoAttempt]
    /\ logins = 0 /\ granted = {} /\ spent = {} /\ present = TRUE /\ returned = {}

\* An UPDATE of a row that is gone does nothing.
Update(r, row) == oauth' = IF oauth[r].status = "none" THEN oauth ELSE [oauth EXCEPT ![r] = row]

Attempt(r, fields) == attempt' = [attempt EXCEPT ![r] = fields]

-------------------------------------------------------------------------------
\* The operator.

\* oauth_begin deletes the source's older requests; their jobs stay in the queue.
BeginRequest(r) ==
    /\ present /\ attempt[r] = NoAttempt /\ oauth[r] = NoRow
    /\ \A q \in Requests : q < r => attempt[q].pc # "none"
    /\ oauth' = [q \in Requests |-> IF q = r THEN [NoRow EXCEPT !.status = "starting"] ELSE NoRow]
    /\ Attempt(r, [NoAttempt EXCEPT !.pc = "queued"])
    /\ UNCHANGED <<logins, granted, spent, present, returned>>

\* cmd_remove.
RemoveSource ==
    /\ present /\ present' = FALSE
    /\ oauth' = [r \in Requests |-> NoRow]
    /\ UNCHANGED <<attempt, logins, granted, spent, returned>>

\* The provider sends the browser that followed a URL back with a code.
Grant(s) ==
    /\ s \in 1..logins /\ granted' = granted \cup {s} /\ s \notin granted
    /\ UNCHANGED <<oauth, attempt, logins, spent, present, returned>>

\* Mutant of Waiting: the state alone is enough.
Waiting_Ever(s) == {r \in Requests : oauth[r].oauth_state = s /\ oauth[r].age < MaxAge}

\* The callback: the row that waits for this state, if it is young enough.
Waiting(s) == {r \in Requests : oauth[r].oauth_state = s /\ oauth[r].status = "waiting"
                                /\ oauth[r].age < MaxAge}

Deliver(s, code) ==
    /\ s \in 1..logins /\ code \in {0} \cup (granted \cap {s})
    /\ \E r \in Waiting(s) :
         /\ oauth' = [oauth EXCEPT ![r].status = IF code = 0 THEN "failed" ELSE "code_received",
                                   ![r].code = code]
         /\ returned' = returned \cup {<<s, code>>}
    /\ UNCHANGED <<attempt, logins, granted, spent, present>>

-------------------------------------------------------------------------------
\* The worker.

\* The job is claimed: a source that is gone fails the request.
Start(r) ==
    /\ attempt[r].pc = "queued"
    /\ LET a == [NoAttempt EXCEPT !.deliveries = attempt[r].deliveries + 1] IN
       IF present THEN Attempt(r, [a EXCEPT !.pc = "connect"]) /\ oauth' = oauth
                  ELSE /\ Attempt(r, [a EXCEPT !.pc = "over"])
                       /\ Update(r, [oauth[r] EXCEPT !.status = "failed"])
    /\ UNCHANGED <<logins, granted, spent, present, returned>>

\* Mutant of Redirect: only a request that starts is made to wait.
Redirect_Once(r) ==
    /\ attempt[r].pc = "connect" /\ logins < MaxStates
    /\ logins' = logins + 1
    /\ Update(r, [oauth[r] EXCEPT !.status = IF @ = "starting" THEN "waiting" ELSE @,
                                  !.url = logins', !.oauth_state = logins'])
    /\ Attempt(r, [attempt[r] EXCEPT !.pc = "callback", !.state = logins'])
    /\ UNCHANGED <<granted, spent, present, returned>>

\* on_redirect: the SDK needs a login and hands over its URL.
Redirect(r) ==
    /\ attempt[r].pc = "connect" /\ logins < MaxStates
    /\ logins' = logins + 1
    /\ Update(r, [oauth[r] EXCEPT !.status = "waiting", !.url = logins', !.oauth_state = logins'])
    /\ Attempt(r, [attempt[r] EXCEPT !.pc = "callback", !.state = logins'])
    /\ UNCHANGED <<granted, spent, present, returned>>

\* on_callback: asks the row every second, until the deadline.
Collect(r) ==
    /\ attempt[r].pc = "callback" /\ oauth[r].status = "code_received"
    /\ Attempt(r, [attempt[r] EXCEPT !.pc = "exchange", !.code = oauth[r].code,
                                     !.answered = oauth[r].oauth_state])
    /\ UNCHANGED <<oauth, logins, granted, spent, present, returned>>

GiveUp(r) ==
    /\ attempt[r].pc = "callback"
    /\ oauth[r].status = "failed" \/ attempt[r].waited = MaxAge
    /\ Attempt(r, [attempt[r] EXCEPT !.pc = "failed"])
    /\ UNCHANGED <<oauth, logins, granted, spent, present, returned>>

\* The exchange of the code, which may fail too; then the tools are listed.
Exchange(r) ==
    /\ attempt[r].pc = "exchange"
    /\ \/ Attempt(r, [attempt[r] EXCEPT !.pc = "failed"]) /\ UNCHANGED spent
       \/ /\ attempt[r].answered = attempt[r].state /\ attempt[r].code \notin spent
          /\ Attempt(r, [attempt[r] EXCEPT !.pc = "connected"])
          /\ spent' = spent \cup {attempt[r].code}
    /\ UNCHANGED <<oauth, logins, granted, present, returned>>

\* Stored tokens may do without a login; and a connection may fail at any time.
Connect(r) ==
    /\ \/ attempt[r].pc = "connect"
             /\ \E pc \in {"connected", "failed"} : Attempt(r, [attempt[r] EXCEPT !.pc = pc])
       \/ attempt[r].pc = "connected" /\ Attempt(r, [attempt[r] EXCEPT !.pc = "failed"])
    /\ UNCHANGED <<oauth, logins, granted, spent, present, returned>>

\* The outcome for the operator, and the end of the job.
Report(r) ==
    /\ attempt[r].pc \in {"connected", "failed"}
    /\ Update(r, [oauth[r] EXCEPT !.status = IF attempt[r].pc = "failed" THEN "failed"
                                                                        ELSE "succeeded"])
    /\ Attempt(r, [attempt[r] EXCEPT !.pc = "over"])
    /\ UNCHANGED <<logins, granted, spent, present, returned>>

\* The server dies: what was running is delivered again, or is a dead letter.
Die ==
    /\ \E r \in Requests : attempt[r].pc \notin {"none", "queued", "over"}
    /\ attempt' = [r \in Requests |->
         IF attempt[r].pc \in {"none", "queued", "over"} THEN attempt[r]
         ELSE [NoAttempt EXCEPT !.deliveries = attempt[r].deliveries,
                                !.pc = IF attempt[r].deliveries < MaxDeliveries THEN "queued"
                                                                               ELSE "over"]]
    /\ UNCHANGED <<oauth, logins, granted, spent, present, returned>>

\* A minute: of the rows' age and of the attempts' patience.
Minute ==
    /\ \A r \in Requests : attempt[r].pc = "callback" => attempt[r].waited < MaxAge
    /\ oauth' = [r \in Requests |-> IF oauth[r].status = "none" \/ oauth[r].age = MaxAge
                                    THEN oauth[r] ELSE [oauth[r] EXCEPT !.age = @ + 1]]
    /\ attempt' = [r \in Requests |-> IF attempt[r].pc = "callback"
                                      THEN [attempt[r] EXCEPT !.waited = @ + 1] ELSE attempt[r]]
    /\ UNCHANGED <<logins, granted, spent, present, returned>>

HandoffNext ==
    \/ \E r \in Requests : BeginRequest(r) \/ Start(r) \/ Redirect(r) \/ Collect(r) \/ GiveUp(r)
                           \/ Exchange(r) \/ Connect(r) \/ Report(r)
    \/ \E s \in States : Grant(s) \/ \E code \in {0, s} : Deliver(s, code)
    \/ RemoveSource \/ Die \/ Minute

HandoffSpec == HandoffInit /\ [][HandoffNext]_handoffVars

-------------------------------------------------------------------------------
\* The browser's way back ends at the login it left from: a code that an attempt takes is the
\* answer to that attempt's own URL and no other attempt has used it, whatever died, was asked
\* again, or came back twice in between.
CodesReachTheirLogin ==
    \A r \in Requests : attempt[r].pc = "exchange" =>
        /\ attempt[r].answered = attempt[r].state /\ attempt[r].code = attempt[r].state
        /\ attempt[r].code \notin spent

\* A URL has one answer: the operator who reads "Authorized" has not read "denied" for the same
\* login, and the request has not failed for any answer of the browser.
OneAnswerEach ==
    /\ Cardinality(returned) = Cardinality({a[1] : a \in returned})
    /\ \A r \in Requests : oauth[r].status = "succeeded" =>
         attempt[r].state = 0 \/ <<attempt[r].state, attempt[r].state>> \in returned
===============================================================================
