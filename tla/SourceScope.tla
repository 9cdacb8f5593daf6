----------------------------- MODULE SourceScope -----------------------------
(***************************************************************************)
(* What an answer of the MCP server may come from (mcp/tools.py,           *)
(* integrator/jobs.py sources_provider): the repositories of the           *)
(* configuration and, when sources are managed, the sources enabled in the *)
(* registry, which another process pauses and enables while a call runs.   *)
(* The server reads the registry through a cache.  A tool checks the scope *)
(* before it asks the store and filters what the store returned, except    *)
(* where it returns counts.                                                *)
(*                                                                         *)
(* The server runs one tool at a time (FastMCP calls a plain function on   *)
(* its event loop).  The store answers a filter with any part of what the  *)
(* filter admits.  Interceptors are the operator's own code: an answer     *)
(* they deny or thin out is one of those.                                  *)
(***************************************************************************)
EXTENDS Integers, FiniteSets

CONSTANTS
    Repos, Sources,  \* repositories a configuration may list, and managed sources
    CacheTtl,        \* seconds a cached list of sources is used (5 in the code)
    MaxRead,         \* bound: seconds a read of the registry takes
    MaxCall          \* bound: seconds between a tool's check and the store's answer

ASSUME ScopeAssumption ==
    /\ Repos \cap Sources = {}
    /\ CacheTtl \in Nat /\ MaxRead \in Nat /\ MaxCall \in Nat

VARIABLES
    scoping,   \* [allowlist, managed]: the server's configuration
    enabled,   \* sources enabled in the registry
    cache,     \* [age, value]: the provider's cache
    call,      \* the tool call in progress
    off        \* history: seconds since a source was last enabled

scopeVars == <<scoping, enabled, cache, call, off>>

Readers == {"search_context", "get_document", "list_entities", "list_sources"}
Everything == Repos \cup Sources

\* An age or a time past every limit counts no further.
Long == CacheTtl + MaxRead + MaxCall + 1
Later(t) == IF t < Long THEN t + 1 ELSE t

NoCall == [pc |-> "idle", tool |-> "none", asked |-> {}, scope |-> {}, found |-> {},
           read |-> {}, waited |-> 0, answer |-> {}]

ScopeInit ==
    /\ scoping \in [allowlist : SUBSET Repos, managed : BOOLEAN]
    /\ enabled \in SUBSET Sources
    /\ cache = [age |-> Long, value |-> {}]
    /\ call = NoCall
    /\ off = [s \in Sources |-> IF s \in enabled THEN 0 ELSE Long]

-------------------------------------------------------------------------------
\* The operator, in another process, and time.

Enable(s) ==
    /\ s \notin enabled
    /\ enabled' = enabled \cup {s} /\ off' = [off EXCEPT ![s] = 0]
    /\ UNCHANGED <<scoping, cache, call>>

\* Pause, remove, and add with --replace (a new source is not enabled).
Disable(s) ==
    /\ enabled' = enabled \ {s} /\ s \in enabled
    /\ UNCHANGED <<scoping, cache, call, off>>

Wait ==
    /\ call.pc # "idle" => call.waited < (IF call.pc \in {"check", "check again"} THEN MaxRead
                                                                                   ELSE MaxCall)
    /\ cache' = [cache EXCEPT !.age = Later(@)]
    /\ off' = [s \in Sources |-> IF s \in enabled THEN 0 ELSE Later(off[s])]
    /\ call' = [call EXCEPT !.waited = IF call.pc = "idle" THEN 0 ELSE @ + 1]
    /\ UNCHANGED <<scoping, enabled>>

-------------------------------------------------------------------------------
\* The provider.  A value older than the limit is read again; the time of the cache is that
\* of the end of the reading.

Fresh == ~scoping.managed \/ cache.age <= CacheTtl

Allowed == scoping.allowlist \cup (IF scoping.managed THEN cache.value ELSE {})

ReadSources ==
    /\ call.pc \in {"prepare", "post"} /\ ~Fresh
    /\ call' = [call EXCEPT !.pc = IF call.pc = "prepare" THEN "check" ELSE "check again",
                            !.read = enabled, !.waited = 0]
    /\ UNCHANGED <<scoping, enabled, cache, off>>

StoreSources ==
    /\ call.pc \in {"check", "check again"}
    /\ cache' = [age |-> 0, value |-> call.read]
    /\ call' = [call EXCEPT !.pc = IF call.pc = "check" THEN "prepare" ELSE "post",
                            !.read = {}, !.waited = 0]
    /\ UNCHANGED <<scoping, enabled, off>>

-------------------------------------------------------------------------------
\* A tool call: the repositories it asks for (all of them when it names none).

Begin(tool, asked) ==
    /\ call.pc = "idle"
    /\ call' = [NoCall EXCEPT !.pc = "prepare", !.tool = tool, !.asked = asked]
    /\ UNCHANGED <<scoping, enabled, cache, off>>

\* With nothing configured and nothing managed there is no restriction.
Unrestricted == scoping.allowlist = {} /\ ~scoping.managed

Prepare ==
    /\ call.pc = "prepare" /\ call.tool # "list_sources" /\ Fresh
    /\ LET scope == IF Unrestricted THEN call.asked ELSE call.asked \cap Allowed IN
       call' = IF scope = {} THEN [call EXCEPT !.pc = "answered"]
               ELSE [call EXCEPT !.pc = "query", !.scope = scope, !.waited = 0]
    /\ UNCHANGED <<scoping, enabled, cache, off>>

\* list_sources names what is configured and what is enabled; its counts are of those.
ListSources ==
    /\ call.pc = "prepare" /\ call.tool = "list_sources" /\ Fresh
    /\ call' = [call EXCEPT !.pc = "answered", !.answer = Allowed]
    /\ UNCHANGED <<scoping, enabled, cache, off>>

\* The store's answer.  get_document reads by id and drops what is out of scope; for one
\* document list_entities reads its rows like a search.
QueryStore(found) ==
    /\ call.pc = "query" /\ found \subseteq call.scope
    /\ call' = [call EXCEPT !.pc = "post", !.found = found]
    /\ UNCHANGED <<scoping, enabled, cache, off>>

\* Otherwise list_entities counts over the filter, and returns the counts as they are.
CountEntities(found) ==
    /\ call.pc = "query" /\ call.tool = "list_entities" /\ found \subseteq call.scope
    /\ call' = [call EXCEPT !.pc = "answered", !.answer = found]
    /\ UNCHANGED <<scoping, enabled, cache, off>>

Filtered_Not(results) == results  \* mutant: what the query returned is not filtered again

Filtered(results) == IF Unrestricted THEN results ELSE results \cap Allowed

Post ==
    /\ call.pc = "post" /\ Fresh
    /\ call' = [call EXCEPT !.pc = "answered", !.answer = Filtered(call.found)]
    /\ UNCHANGED <<scoping, enabled, cache, off>>

Return == call.pc = "answered" /\ call' = NoCall /\ UNCHANGED <<scoping, enabled, cache, off>>

ScopeNext ==
    \/ \E s \in Sources : Enable(s) \/ Disable(s)
    \/ Wait \/ ReadSources \/ StoreSources \/ Prepare \/ ListSources \/ Post \/ Return
    \/ \E tool \in Readers, asked \in {Everything} \cup {{r} : r \in Everything} : Begin(tool, asked)
    \/ \E found \in SUBSET call.scope : QueryStore(found) \/ CountEntities(found)

ScopeSpec == ScopeInit /\ [][ScopeNext]_scopeVars

-------------------------------------------------------------------------------
\* A pause reaches the readers: when an answer is made, each source in it was enabled a cache's
\* life and one slow reading of the registry ago, or later - for counts, which are not filtered
\* again, the time of the store's answer later still.  No answer holds a repository that was
\* not asked for or is not configured.
AnswersStayInScope ==
    [][call.pc # "answered" /\ call'.pc = "answered" =>
       /\ call.tool = "list_sources" \/ call'.answer \subseteq call.asked
       /\ Unrestricted \/ call'.answer \cap Repos \subseteq scoping.allowlist
       /\ \A s \in call'.answer \cap Sources :
            Unrestricted \/ off[s] <= CacheTtl + MaxRead
                                      + (IF call.pc = "query" THEN MaxCall ELSE 0)
      ]_scopeVars

===============================================================================
