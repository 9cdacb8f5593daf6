------------------------------ MODULE ToolGate ------------------------------
(***************************************************************************)
(* Which tools of a source Aquifer calls (integrator/plan.py, cli.py,      *)
(* jobs.py, client.py).  A tool is usable by its name and by what the      *)
(* server says of it at the moment it is listed: the CLI looks when it     *)
(* changes the plan, and each sync looks when it begins.  The pages of the *)
(* sync come later, with whatever plan the source's row then holds, and    *)
(* the server may say something else of a tool at any time.                *)
(*                                                                         *)
(* The row is loaded, changed and saved as a whole by two processes.  A    *)
(* plan is the set of its tools (list, detail and verify tools together);  *)
(* their arguments, pagination and fields are left out, and so is whether  *)
(* the sync is scheduled or asked for.                                     *)
(***************************************************************************)
EXTENDS Integers, FiniteSets

CONSTANTS
    Tools,
    ReadNames,     \* tools whose name reads like a read (get, list, search, ...)
    WriteNames,    \* tools whose name has a word that writes (create, delete, set, ...)
    MaxSyncs       \* bound: syncs begun

ASSUME GateAssumption == MaxSyncs \in Nat /\ ReadNames \cup WriteNames \subseteq Tools

VARIABLES
    hints,     \* what the server says of each tool
    row,       \* the source's row
    command,   \* the CLI command under way
    handler,   \* a worker between reading the row and saving it
    syncs,     \* the tools checked for each sync, or plan changes since; its state
    called,    \* the call that the last step made: the sync (0: the CLI), and the tool
    restored   \* history: has a save put back a plan that another process had replaced?

gateVars == <<hints, row, command, handler, syncs, called, restored>>

\* "not_read_only" stands for a destructive tool too, and for one no longer offered: the plan
\* may have none of them.
Hints == {"none", "read_only", "not_read_only"}
SyncIds == 1..MaxSyncs

NoPlan == [plan |-> {}, approved |-> {}, unannotated |-> FALSE, enabled |-> FALSE]
Idle == [pc |-> "idle", row |-> NoPlan, listed |-> {}]

GateInit ==
    /\ hints \in [Tools -> Hints]
    /\ row = NoPlan /\ command = Idle /\ handler = Idle
    /\ syncs = [s \in SyncIds |-> [state |-> "none", row |-> NoPlan, checked |-> {}]]
    /\ called = <<>> /\ restored = FALSE

-------------------------------------------------------------------------------
\* classify_tool and approvable.

\* Mutant of ClassifyTool: what the server says of a tool goes before its name.
ClassifyTool_HintFirst(t) ==
    IF hints[t] = "not_read_only" THEN "write"
    ELSE IF hints[t] = "read_only" THEN "read_only"
    ELSE IF t \in WriteNames THEN "write"
    ELSE IF t \in ReadNames THEN "unannotated_read" ELSE "unknown"

ClassifyTool(t) ==
    IF t \in WriteNames \/ hints[t] = "not_read_only" THEN "write"
    ELSE IF hints[t] = "read_only" THEN "read_only"
    ELSE IF t \in ReadNames THEN "unannotated_read" ELSE "unknown"

Approvable(t, unannotated) ==
    ClassifyTool(t) = "read_only" \/ (ClassifyTool(t) = "unannotated_read" /\ unannotated)

\* The tools of the server that are usable now.
Usable(unannotated) == {t \in Tools : Approvable(t, unannotated)}

\* The server changes its mind.
Annotate(t, hint) ==
    /\ hints[t] # hint /\ hints' = [hints EXCEPT ![t] = hint]
    /\ UNCHANGED <<row, command, handler, syncs, restored>>

-------------------------------------------------------------------------------
\* The CLI loads the row, lists the tools, changes the row and saves it.

\* Saving a plan tells every sync what has been checked since it began.
Save(r, vetted) ==
    /\ row' = r
    /\ syncs' = [s \in SyncIds |-> [syncs[s] EXCEPT !.checked = @ \cup vetted]]

\* cmd_add, with --replace when there is a source: nothing planned, not enabled.
Add(unannotated) ==
    /\ command.pc = "idle"
    /\ Save([NoPlan EXCEPT !.unannotated = unannotated], {})
    /\ UNCHANGED <<hints, command, handler, restored>>

Load ==
    /\ command.pc = "idle"
    /\ command' = [Idle EXCEPT !.pc = "loaded", !.row = row]
    /\ UNCHANGED <<hints, row, handler, syncs, restored>>

ListTools ==
    /\ command.pc = "loaded"
    /\ command' = [command EXCEPT !.pc = "listed", !.listed = Usable(command.row.unannotated)]
    /\ UNCHANGED <<hints, row, handler, syncs, restored>>

\* cmd_plan --import: the plan's tools are the approved ones.
Import(plan) == [command.row EXCEPT !.plan = plan, !.approved = plan]

\* cmd_propose and cmd_template: a stream is replaced or added, and its tools approved; the
\* tools of the streams it replaces stay approved.
AddStream(plan) == [command.row EXCEPT !.plan = plan, !.approved = @ \cup plan]

\* cmd_enable.
Enabled == [command.row EXCEPT !.enabled = TRUE]

\* validate_plan: every tool of the plan is offered and usable, or nothing is saved.
Valid(r) == r.plan \subseteq command.listed

Commit ==
    /\ command.pc = "listed"
    /\ \E r \in {Import(p) : p \in SUBSET Tools} \cup {AddStream(p) : p \in SUBSET Tools}
                \cup {Enabled} :
         /\ Valid(r) /\ Save(r, r.plan)
    /\ command' = Idle
    /\ UNCHANGED <<hints, handler, restored>>

\* cmd_tools shows them; a source that wanted authorization is saved with another state.
ShowTools ==
    /\ command.pc = "listed" /\ command' = Idle
    /\ Save(command.row, {})
    /\ restored' = (restored \/ command.row.plan # row.plan)
    /\ UNCHANGED <<hints, handler>>

\* Nothing is saved: problems, or the operator stops.
Abandon ==
    /\ command.pc # "idle" /\ command' = Idle
    /\ UNCHANGED <<hints, row, handler, syncs, restored>>

\* cmd_propose samples a tool it has just found usable; nothing is saved yet.
Sample(t) ==
    /\ command.pc = "listed" /\ t \in command.listed
    /\ called' = <<0, t>>
    /\ UNCHANGED <<hints, row, command, handler, syncs, restored>>

\* cmd_preview calls the tools of the saved plan without listing them again.
Preview(t) ==
    /\ command.pc = "loaded" /\ t \in command.row.plan \cap command.row.approved
    /\ called' = <<0, t>>
    /\ UNCHANGED <<hints, row, command, handler, syncs, restored>>

-------------------------------------------------------------------------------
\* The server.

\* handle_sync reads the row, lists the tools, and ends when the plan it read is not valid.
BeginSync(s) ==
    /\ row.enabled /\ syncs[s].state = "none" /\ \A q \in 1..(s - 1) : syncs[q].state # "none"
    /\ syncs' = [syncs EXCEPT ![s] = [state |-> "begun", row |-> row, checked |-> {}]]
    /\ UNCHANGED <<hints, row, command, handler, restored>>

\* Mutant of Passes: the plan is taken to be as good as when it was saved.
Passes_Unchecked(r) == TRUE

Passes(r) == r.plan \subseteq Usable(r.unannotated)

CheckPlan(s) ==
    /\ syncs[s].state = "begun"
    /\ syncs' = [syncs EXCEPT ![s].state = IF Passes(syncs[s].row) THEN "running" ELSE "invalid",
                              ![s].row = NoPlan,
                              ![s].checked = @ \cup (syncs[s].row.plan
                                                     \cap Usable(syncs[s].row.unannotated))]
    /\ UNCHANGED <<hints, row, command, handler, restored>>

\* handle_page, and McpConnection.call: a tool of the present plan that is approved.
Call(s, t) ==
    /\ syncs[s].state = "running" /\ row.enabled
    /\ t \in row.plan \cap row.approved
    /\ called' = <<s, t>>
    /\ UNCHANGED <<hints, row, command, handler, syncs, restored>>

\* _set_state and _maybe_finish, and cmd_pause: the row is read, one field changed, and saved.
ReadRow ==
    /\ handler.pc = "idle" /\ handler' = [Idle EXCEPT !.pc = "read", !.row = row]
    /\ UNCHANGED <<hints, row, command, syncs, restored>>

SaveRow(enabled) ==
    /\ handler.pc = "read" /\ Save([handler.row EXCEPT !.enabled = enabled], {})
    /\ restored' = (restored \/ handler.row.plan # row.plan)
    /\ handler' = Idle
    /\ UNCHANGED <<hints, command>>

\* The steps that call no tool.
Quietly ==
    \/ \E t \in Tools, hint \in Hints : Annotate(t, hint)
    \/ \E unannotated \in BOOLEAN : Add(unannotated)
    \/ Load \/ ListTools \/ Commit \/ ShowTools \/ Abandon \/ ReadRow
    \/ \E s \in SyncIds : BeginSync(s) \/ CheckPlan(s)
    \/ \E enabled \in {FALSE, handler.row.enabled} : SaveRow(enabled)

GateNext ==
    \/ Quietly /\ called' = <<>>
    \/ \E t \in Tools : Sample(t) \/ Preview(t) \/ \E s \in SyncIds : Call(s, t)

GateSpec == GateInit /\ [][GateNext]_gateVars
-------------------------------------------------------------------------------
\* No tool is ever called whose name says that it writes, whatever the server says of it and
\* whatever plan the operator imports.
NoWriteIsCalled == called # <<>> => called[2] \notin WriteNames

\* A sync calls only tools that were found usable when it began, or when the plan was changed
\* since - unless a process that had read the row before a change saved it afterwards.
CheckedBeforeCalled ==
    called # <<>> /\ ~restored => called[1] = 0 \/ called[2] \in syncs[called[1]].checked
===============================================================================
