----------------------------- MODULE AnswerProofs -----------------------------
(***************************************************************************)
(* What a reader is given.  For any repositories and sources, and any life *)
(* of the cache: how long a source that was paused can still be read.  For *)
(* any documents and any question about them: what find_related answers,   *)
(* and the status it gives an edge.  For any documents and any sizes: a    *)
(* document that was cut is read back to the character, its chunks fit,    *)
(* and the lines they name are those their text is on.                     *)
(***************************************************************************)
EXTENDS SourceScope, FindRelated, Chunking, FiniteSetTheorems, SequenceTheorems, TLAPS

-------------------------------------------------------------------------------
CallType ==
  [pc : {"idle", "prepare", "check", "query", "post", "check again", "answered"},
   tool : Readers \cup {"none"}, asked : SUBSET Everything, scope : SUBSET Everything,
   found : SUBSET Everything, read : SUBSET Sources, waited : Nat, answer : SUBSET Everything]

ScopeTypeOK ==
    /\ scoping \in [allowlist : SUBSET Repos, managed : BOOLEAN]
    /\ enabled \subseteq Sources
    /\ cache \in [age : Nat, value : SUBSET Sources]
    /\ call \in CallType
    /\ off \in [Sources -> Nat]

(* Nobody waits longer than the bounds say.                                *)
Patient == call.waited <= IF call.pc \in {"check", "check again"} THEN MaxRead ELSE MaxCall

(* How long ago a source was last enabled: that is enabled, that a reading *)
(* found, that the cache holds, that a scope admits.                       *)
Recent ==
    /\ \A s \in enabled : off[s] = 0
    /\ call.pc \in {"check", "check again"} => \A s \in call.read : off[s] <= call.waited
    /\ \A s \in cache.value : off[s] <= cache.age + MaxRead
    /\ call.pc = "query" /\ ~Unrestricted =>
         \A s \in call.scope \cap Sources : off[s] <= CacheTtl + MaxRead + call.waited
    /\ \A s \in Sources : off[s] <= Long

ScopesCovered ==
    /\ call.pc # "answered" => call.answer = {}
    /\ call.pc = "query" => /\ call.scope \subseteq call.asked
                            /\ Unrestricted \/ call.scope \cap Repos \subseteq scoping.allowlist
    /\ call.pc \in {"post", "check again"} => call.found \subseteq call.asked

ScopeInv == ScopeTypeOK /\ Patient /\ Recent /\ ScopesCovered

-----------------------------------------------------------------------------
LEMMA ScopeInitHolds == ScopeInit => ScopeInv
PROOF
  <1> SUFFICES ASSUME ScopeInit PROVE ScopeInv
    OBVIOUS
  <1>1. Long \in Nat
    BY ScopeAssumption DEF Long
  <1>2. ScopeTypeOK
    BY <1>1 DEF ScopeInit, ScopeTypeOK, CallType, NoCall
  <1>3. Patient /\ ScopesCovered
    BY ScopeAssumption DEF ScopeInit, Patient, ScopesCovered, NoCall
  <1>4. Recent
    BY <1>1 DEF ScopeInit, Recent, NoCall
  <1>. QED BY <1>2, <1>3, <1>4 DEF ScopeInv

(* What the provider says when it is asked.                                *)
LEMMA AllowedIsRecent ==
  ASSUME ScopeInv, Fresh
  PROVE  /\ Allowed \subseteq Everything /\ Allowed \cap Repos \subseteq scoping.allowlist
         /\ \A s \in Allowed \cap Sources : off[s] <= CacheTtl + MaxRead
PROOF
  <1>1. /\ scoping.allowlist \subseteq Repos /\ cache.value \subseteq Sources
        /\ Repos \cap Sources = {} /\ CacheTtl \in Nat /\ MaxRead \in Nat
        /\ cache.age \in Nat /\ \A s \in Sources : off[s] \in Nat
    BY ScopeAssumption DEF ScopeInv, ScopeTypeOK
  <1>2. ASSUME NEW s \in Allowed \cap Sources PROVE off[s] <= CacheTtl + MaxRead
    <2>1. scoping.managed /\ s \in cache.value /\ cache.age <= CacheTtl
      BY <1>1, <1>2 DEF Allowed, Fresh
    <2>2. off[s] <= cache.age + MaxRead
      BY <2>1 DEF ScopeInv, Recent
    <2>. QED BY <1>1, <2>1, <2>2
  <1>. QED BY <1>1, <1>2 DEF Allowed, Everything

-----------------------------------------------------------------------------
LEMMA WaitStep == ScopeInv /\ Wait => ScopeInv'
PROOF
  <1> SUFFICES ASSUME ScopeInv, Wait PROVE ScopeInv'
    OBVIOUS
  <1>1. Long \in Nat /\ MaxRead \in Nat /\ MaxCall \in Nat /\ CacheTtl \in Nat
    BY ScopeAssumption DEF Long
  <1>2. \A t \in Nat : Later(t) \in Nat /\ t <= Later(t) /\ Later(t) <= t + 1
                       /\ (t <= Long => Later(t) <= Long)
    BY <1>1 DEF Later
  <1>3. /\ cache.age \in Nat /\ cache.value \subseteq Sources
        /\ cache'.age = Later(cache.age) /\ cache'.value = cache.value
        /\ cache' \in [age : Nat, value : SUBSET Sources]
    BY <1>2 DEF Wait, ScopeInv, ScopeTypeOK
  <1> DEFINE n == IF call.pc = "idle" THEN 0 ELSE call.waited + 1
  <1>4. n \in Nat /\ call' = [call EXCEPT !.waited = n]
    <2>1. call.waited \in Nat
      BY DEF ScopeInv, ScopeTypeOK, CallType
    <2>2. n \in Nat
      BY <2>1
    <2>3. call' = [call EXCEPT !.waited = n]
      BY DEF Wait
    <2>. QED BY <2>2, <2>3
  <1>5. /\ call' \in CallType /\ call'.pc = call.pc /\ call'.tool = call.tool
        /\ call'.asked = call.asked /\ call'.scope = call.scope /\ call'.found = call.found
        /\ call'.read = call.read /\ call'.answer = call.answer /\ call'.waited = n
    <2> HIDE DEF n
    <2>. QED BY <1>4 DEF ScopeInv, ScopeTypeOK, CallType
  <1>6. /\ off' \in [Sources -> Nat]
        /\ \A s \in Sources : off'[s] = IF s \in enabled THEN 0 ELSE Later(off[s])
    BY <1>2 DEF Wait, ScopeInv, ScopeTypeOK
  <1>7. enabled' = enabled /\ scoping' = scoping
    BY DEF Wait
  <1>8. ScopeTypeOK'
    BY <1>3, <1>5, <1>6, <1>7 DEF ScopeInv, ScopeTypeOK
  <1>9. Patient'
    <2>1. call.waited \in Nat
      BY DEF ScopeInv, ScopeTypeOK, CallType
    <2>2. n <= IF call.pc \in {"check", "check again"} THEN MaxRead ELSE MaxCall
      <3>1. CASE call.pc = "idle"
        BY <1>1, <3>1
      <3>2. CASE call.pc # "idle"
        <4>1. call.waited < IF call.pc \in {"check", "check again"} THEN MaxRead ELSE MaxCall
          BY <3>2 DEF Wait
        <4>2. n = call.waited + 1
          BY <3>2
        <4> HIDE DEF n
        <4>3. CASE call.pc \in {"check", "check again"}
          <5>1. call.waited < MaxRead
            BY <4>1, <4>3
          <5>2. n <= MaxRead
            BY <1>1, <2>1, <4>2, <5>1
          <5>. QED BY <4>3, <5>2
        <4>4. CASE call.pc \notin {"check", "check again"}
          <5>1. call.waited < MaxCall
            BY <4>1, <4>4
          <5>2. n <= MaxCall
            BY <1>1, <2>1, <4>2, <5>1
          <5>. QED BY <4>4, <5>2
        <4>. QED BY <4>3, <4>4
      <3>. QED BY <3>1, <3>2
    <2> HIDE DEF n
    <2>. QED BY <1>5, <2>2 DEF Patient
  <1>10. ScopesCovered'
    BY <1>5, <1>7 DEF ScopeInv, ScopesCovered, Unrestricted
  <1>11. ASSUME NEW s \in Sources PROVE off'[s] \in Nat /\ off'[s] <= off[s] + 1 /\ off'[s] <= Long
    <2>1. off[s] \in Nat /\ off[s] <= Long
      BY <1>11 DEF ScopeInv, ScopeTypeOK, Recent
    <2>2. Later(off[s]) \in Nat /\ Later(off[s]) <= off[s] + 1 /\ Later(off[s]) <= Long
      BY <1>2, <2>1
    <2>. QED BY <1>1, <1>6, <2>1, <2>2
  <1>12. Recent'
    <2>1. ASSUME NEW s \in cache.value PROVE off'[s] <= cache'.age + MaxRead
      <3>1. s \in Sources /\ off[s] \in Nat /\ off[s] <= cache.age + MaxRead
        BY <1>3 DEF ScopeInv, ScopeTypeOK, Recent
      <3>2. cache'.age = cache.age + 1 \/ cache'.age >= Long
        BY <1>1, <1>3 DEF Later
      <3>. QED BY <1>1, <1>3, <1>11, <3>1, <3>2
    <2>2. ASSUME NEW s \in call.read, call.pc \in {"check", "check again"}
          PROVE  off'[s] <= call'.waited
      <3>1. s \in Sources /\ call.waited \in Nat /\ off[s] \in Nat /\ off[s] <= call.waited
        BY <2>2 DEF ScopeInv, ScopeTypeOK, CallType, Recent
      <3>2. n = call.waited + 1
        BY <2>2
      <3> HIDE DEF n
      <3>. QED BY <1>5, <1>11, <3>1, <3>2
    <2>3. ASSUME NEW s \in call.scope \cap Sources, call.pc = "query", ~Unrestricted
          PROVE  off'[s] <= CacheTtl + MaxRead + call'.waited
      <3>1. /\ call.waited \in Nat /\ off[s] \in Nat
            /\ off[s] <= CacheTtl + MaxRead + call.waited
        BY <2>3 DEF ScopeInv, ScopeTypeOK, CallType, Recent
      <3>. QED BY <1>1, <1>5, <1>11, <2>3, <3>1
    <2>4. \A s \in enabled : off'[s] = 0
      BY <1>6 DEF ScopeInv, ScopeTypeOK
    <2>. QED BY <1>3, <1>5, <1>7, <1>11, <2>1, <2>2, <2>3, <2>4 DEF Recent, Unrestricted
  <1>. QED BY <1>8, <1>9, <1>10, <1>12 DEF ScopeInv

(* Steps of the call that leave the sources and the cache alone.           *)
LEMMA CallMoves ==
  ASSUME ScopeInv, UNCHANGED <<scoping, enabled, cache, off>>, call' \in CallType,
         Patient', ScopesCovered',
         call'.pc \in {"check", "check again"} => \A s \in call'.read : off[s] <= call'.waited,
         call'.pc = "query" /\ ~Unrestricted =>
           \A s \in call'.scope \cap Sources : off[s] <= CacheTtl + MaxRead + call'.waited
  PROVE  ScopeInv'
PROOF
  <1>1. ScopeTypeOK'
    BY DEF ScopeInv, ScopeTypeOK
  <1>2. Recent'
    BY DEF ScopeInv, Recent, Unrestricted
  <1>. QED BY <1>1, <1>2 DEF ScopeInv

LEMMA BeginStep ==
  ASSUME ScopeInv, NEW tool \in Readers, NEW asked \in SUBSET Everything, Begin(tool, asked)
  PROVE  ScopeInv'
PROOF
  <1>1. /\ call' \in CallType /\ call'.pc = "prepare" /\ call'.waited = 0
        /\ call'.answer = {} /\ UNCHANGED <<scoping, enabled, cache, off>>
    BY DEF Begin, NoCall, CallType
  <1>2. Patient' /\ ScopesCovered'
    BY <1>1, ScopeAssumption DEF Patient, ScopesCovered
  <1>. QED BY <1>1, <1>2, CallMoves

LEMMA ReadStep == ASSUME ScopeInv, ReadSources PROVE ScopeInv'
PROOF
  <1>1. call \in CallType /\ enabled \subseteq Sources /\ call.pc \in {"prepare", "post"}
    BY DEF ReadSources, ScopeInv, ScopeTypeOK
  <1>2. /\ call' \in CallType
        /\ call'.pc = IF call.pc = "prepare" THEN "check" ELSE "check again"
        /\ call'.read = enabled /\ call'.waited = 0 /\ call'.found = call.found
        /\ call'.asked = call.asked /\ call'.answer = call.answer
    BY <1>1 DEF ReadSources, CallType
  <1>3. UNCHANGED <<scoping, enabled, cache, off>>
    BY DEF ReadSources
  <1>4. Patient' /\ ScopesCovered'
    <2>1. Patient'
      <3>1. call'.pc \in {"check", "check again"} /\ call'.waited = 0
        BY <1>2
      <3>2. 0 <= MaxRead
        BY ScopeAssumption
      <3>. QED BY <3>1, <3>2 DEF Patient
    <2>2. call.answer = {} /\ (call.pc = "post" => call.found \subseteq call.asked)
      BY <1>1 DEF ScopeInv, ScopesCovered
    <2>3. ScopesCovered'
      BY <1>1, <1>2, <2>2 DEF ScopesCovered
    <2>. QED BY <2>1, <2>3
  <1>5. \A s \in call'.read : off[s] <= call'.waited
    <2>1. \A s \in enabled : off[s] = 0
      BY DEF ScopeInv, Recent
    <2>2. call'.read = enabled /\ call'.waited = 0
      BY <1>2
    <2>3. 0 <= 0
      OBVIOUS
    <2>. QED BY <2>1, <2>2, <2>3
  <1>. QED BY <1>2, <1>3, <1>4, <1>5, CallMoves

LEMMA StoreStep == ASSUME ScopeInv, StoreSources PROVE ScopeInv'
PROOF
  <1>1. call \in CallType /\ call.pc \in {"check", "check again"}
    BY DEF StoreSources, ScopeInv, ScopeTypeOK
  <1>2. /\ call' \in CallType
        /\ call'.pc = IF call.pc = "check" THEN "prepare" ELSE "post"
        /\ call'.waited = 0 /\ call'.found = call.found /\ call'.asked = call.asked
        /\ call'.answer = call.answer
    BY <1>1 DEF StoreSources, CallType
  <1>3. /\ cache' = [age |-> 0, value |-> call.read] /\ UNCHANGED <<scoping, enabled, off>>
        /\ call.read \subseteq Sources
    BY <1>1 DEF StoreSources, CallType
  <1>4. ScopeTypeOK'
    BY <1>2, <1>3 DEF ScopeInv, ScopeTypeOK
  <1>5. Patient' /\ ScopesCovered'
    <2>1. Patient'
      BY <1>2, ScopeAssumption DEF Patient
    <2>2. call.answer = {} /\ (call.pc = "check again" => call.found \subseteq call.asked)
      BY <1>1 DEF ScopeInv, ScopesCovered
    <2>3. ScopesCovered'
      BY <1>1, <1>2, <2>2 DEF ScopesCovered
    <2>. QED BY <2>1, <2>3
  <1>6. \A s \in cache'.value : off'[s] <= cache'.age + MaxRead
    <2>1. call.waited <= MaxRead /\ call.waited \in Nat /\ MaxRead \in Nat
      BY <1>1, ScopeAssumption DEF ScopeInv, Patient, CallType
    <2>2. \A s \in call.read : off[s] <= call.waited /\ off[s] \in Nat
      BY <1>1, <1>3 DEF ScopeInv, ScopeTypeOK, Recent
    <2>. QED BY <1>3, <2>1, <2>2
  <1>7. Recent'
    BY <1>1, <1>2, <1>3, <1>6 DEF ScopeInv, Recent
  <1>. QED BY <1>4, <1>5, <1>7 DEF ScopeInv

LEMMA PrepareStep == ASSUME ScopeInv, Prepare PROVE ScopeInv'
PROOF
  <1> DEFINE scope == IF Unrestricted THEN call.asked ELSE call.asked \cap Allowed
  <1>1. /\ call \in CallType /\ call.pc = "prepare" /\ Fresh
        /\ UNCHANGED <<scoping, enabled, cache, off>>
        /\ call' = IF scope = {} THEN [call EXCEPT !.pc = "answered"]
                   ELSE [call EXCEPT !.pc = "query", !.scope = scope, !.waited = 0]
    BY DEF Prepare, ScopeInv, ScopeTypeOK
  <1>2. /\ scope \subseteq call.asked /\ scope \subseteq Everything
        /\ Unrestricted \/ (/\ scope \cap Repos \subseteq scoping.allowlist
                            /\ \A s \in scope \cap Sources : off[s] <= CacheTtl + MaxRead)
    BY <1>1, AllowedIsRecent DEF CallType
  <1> HIDE DEF scope
  <1>3. CASE call' = [call EXCEPT !.pc = "answered"]
    <2>1. call' \in CallType /\ call'.pc = "answered" /\ call'.waited = call.waited
      BY <1>1, <1>3 DEF CallType
    <2>2. Patient' /\ ScopesCovered'
      BY <1>1, <2>1 DEF ScopeInv, Patient, ScopesCovered
    <2>. QED BY <1>1, <2>1, <2>2, CallMoves
  <1>4. CASE call' = [call EXCEPT !.pc = "query", !.scope = scope, !.waited = 0]
    <2>1. /\ call' \in CallType /\ call'.pc = "query" /\ call'.scope = scope
          /\ call'.waited = 0 /\ call'.asked = call.asked /\ call'.answer = call.answer
      <3>1. scope \in SUBSET Everything
        BY <1>2
      <3>2. call \in CallType
        BY <1>1
      <3>. QED BY <1>4, <3>1, <3>2 DEF CallType
    <2>2. Patient'
      BY <2>1, ScopeAssumption DEF Patient
    <2>3. ScopesCovered'
      BY <1>1, <1>2, <2>1 DEF ScopeInv, ScopesCovered, Unrestricted
    <2>4. ~Unrestricted => \A s \in call'.scope \cap Sources :
                             off[s] <= CacheTtl + MaxRead + call'.waited
      BY <1>2, <2>1, ScopeAssumption
    <2>. QED BY <1>1, <2>1, <2>2, <2>3, <2>4, CallMoves
  <1>. QED BY <1>1, <1>3, <1>4

(* Every other step of the call leaves its place with the answer or with   *)
(* what the store found.                                                   *)
LEMMA AnswerStep ==
  ASSUME ScopeInv,
         \/ ListSources \/ Post \/ Return
         \/ \E found \in SUBSET call.scope : QueryStore(found) \/ CountEntities(found)
  PROVE  ScopeInv'
PROOF
  <1>1. /\ call \in CallType /\ UNCHANGED <<scoping, enabled, cache, off>>
        /\ MaxCall \in Nat /\ Allowed \subseteq Everything
    BY ScopeAssumption DEF ListSources, Post, Return, QueryStore, CountEntities, ScopeInv,
                           ScopeTypeOK, Allowed, Everything
  <1>2. CASE Return
    <2>1. call' = NoCall /\ NoCall \in CallType
      BY <1>2 DEF Return, NoCall, CallType
    <2>2. call'.pc = "idle" /\ call'.waited = 0 /\ call'.answer = {}
      BY <2>1 DEF NoCall
    <2>3. Patient' /\ ScopesCovered'
      BY <1>1, <2>2 DEF Patient, ScopesCovered
    <2>. QED BY <1>1, <2>1, <2>2, <2>3, CallMoves
  <1>3. ASSUME NEW answer \in SUBSET Everything, call.pc \in {"prepare", "post", "query"},
               call' = [call EXCEPT !.pc = "answered", !.answer = answer]
        PROVE  ScopeInv'
    <2>1. call' \in CallType /\ call'.pc = "answered" /\ call'.waited = call.waited
      BY <1>1, <1>3 DEF CallType
    <2>2. Patient' /\ ScopesCovered'
      BY <1>3, <2>1 DEF ScopeInv, Patient, ScopesCovered
    <2>. QED BY <1>1, <2>1, <2>2, CallMoves
  <1>4. CASE ListSources
    BY <1>1, <1>3, <1>4 DEF ListSources
  <1>5. CASE Post
    <2>1. Filtered(call.found) \in SUBSET Everything
      BY <1>1 DEF Filtered, CallType
    <2>. QED BY <1>3, <1>5, <2>1 DEF Post
  <1>6. ASSUME NEW found \in SUBSET call.scope, CountEntities(found) PROVE ScopeInv'
    <2>1. found \in SUBSET Everything
      BY <1>1 DEF CallType
    <2>. QED BY <1>3, <1>6, <2>1 DEF CountEntities
  <1>7. ASSUME NEW found \in SUBSET call.scope, QueryStore(found) PROVE ScopeInv'
    <2>1. /\ call' \in CallType /\ call.pc = "query" /\ call'.pc = "post"
          /\ call'.found = found /\ call'.waited = call.waited /\ call'.asked = call.asked
          /\ call'.answer = call.answer
      BY <1>1, <1>7 DEF QueryStore, CallType
    <2>2. Patient' /\ ScopesCovered'
      BY <2>1 DEF ScopeInv, Patient, ScopesCovered
    <2>. QED BY <1>1, <2>1, <2>2, CallMoves
  <1>. QED BY <1>2, <1>4, <1>5, <1>6, <1>7

LEMMA ScopeStep == ScopeInv /\ [ScopeNext]_scopeVars => ScopeInv'
PROOF
  <1> SUFFICES ASSUME ScopeInv, [ScopeNext]_scopeVars PROVE ScopeInv'
    OBVIOUS
  <1>1. ASSUME NEW s \in Sources, Enable(s) \/ Disable(s) PROVE ScopeInv'
    <2>1. /\ UNCHANGED <<scoping, cache, call>>
          /\ enabled \subseteq Sources /\ off \in [Sources -> Nat]
          /\ \A q \in enabled : off[q] = 0
      BY <1>1 DEF Enable, Disable, ScopeInv, ScopeTypeOK, Recent
    <2>2. /\ enabled' \subseteq Sources /\ off' \in [Sources -> Nat]
          /\ \A q \in Sources : off'[q] = 0 \/ off'[q] = off[q]
          /\ \A q \in enabled' : off'[q] = 0
      <3>1. CASE Enable(s)
        BY <2>1, <3>1 DEF Enable
      <3>2. CASE Disable(s)
        BY <2>1, <3>2 DEF Disable
      <3>. QED BY <1>1, <3>1, <3>2
    <2>3. ScopeTypeOK' /\ Patient' /\ ScopesCovered'
      BY <2>1, <2>2 DEF ScopeInv, ScopeTypeOK, Patient, ScopesCovered, Unrestricted
    <2>4. /\ Long \in Nat /\ MaxRead \in Nat /\ CacheTtl \in Nat
      BY ScopeAssumption DEF Long
    <2>5. /\ call.waited \in Nat /\ cache.age \in Nat
          /\ call.read \subseteq Sources /\ cache.value \subseteq Sources
      BY DEF ScopeInv, ScopeTypeOK, CallType
    <2>6. \A q \in Sources : \A limit \in Nat : off[q] <= limit => off'[q] <= limit
      BY <2>1, <2>2
    <2>7. cache.age + MaxRead \in Nat /\ CacheTtl + MaxRead + call.waited \in Nat
      BY <2>4, <2>5
    <2>8. Recent'
      BY <2>1, <2>2, <2>4, <2>5, <2>6, <2>7 DEF ScopeInv, Recent, Unrestricted
    <2>. QED BY <2>3, <2>8 DEF ScopeInv
  <1>2. ASSUME NEW tool \in Readers, NEW asked \in {Everything} \cup {{r} : r \in Everything},
               Begin(tool, asked)
        PROVE  ScopeInv'
    BY <1>2, BeginStep
  <1>3. CASE Wait \/ ReadSources \/ StoreSources \/ Prepare
    BY <1>3, WaitStep, ReadStep, StoreStep, PrepareStep
  <1>4. CASE \/ ListSources \/ Post \/ Return
             \/ \E found \in SUBSET call.scope : QueryStore(found) \/ CountEntities(found)
    BY <1>4, AnswerStep
  <1>5. CASE UNCHANGED scopeVars
    BY <1>5 DEF scopeVars, ScopeInv, ScopeTypeOK, Patient, Recent, ScopesCovered, Unrestricted
  <1>. QED BY <1>1, <1>2, <1>3, <1>4, <1>5 DEF ScopeNext

-----------------------------------------------------------------------------
Justified ==
  call.pc # "answered" /\ call'.pc = "answered" =>
    /\ call.tool = "list_sources" \/ call'.answer \subseteq call.asked
    /\ Unrestricted \/ call'.answer \cap Repos \subseteq scoping.allowlist
    /\ \A s \in call'.answer \cap Sources :
         Unrestricted \/ off[s] <= CacheTtl + MaxRead + (IF call.pc = "query" THEN MaxCall ELSE 0)

LEMMA AnswersJustified == ScopeInv /\ [ScopeNext]_scopeVars => [Justified]_scopeVars
PROOF
  <1> SUFFICES ASSUME ScopeInv, ScopeNext, call.pc # "answered", call'.pc = "answered"
               PROVE  Justified
    BY DEF Justified, scopeVars
  <1>1. call \in CallType /\ CacheTtl \in Nat /\ MaxRead \in Nat /\ MaxCall \in Nat
        /\ call.answer = {}
    BY ScopeAssumption DEF ScopeInv, ScopeTypeOK, ScopesCovered
  <1>2. \/ Prepare \/ ListSources \/ Post
        \/ \E found \in SUBSET call.scope : CountEntities(found)
    BY <1>1 DEF ScopeNext, Enable, Disable, Wait, ReadSources, StoreSources, Begin, Return,
                QueryStore, CallType, NoCall
  <1>3. CASE Prepare
    <2>1. call'.answer = {}
      BY <1>1, <1>3 DEF Prepare, CallType
    <2>. QED BY <2>1 DEF Justified
  <1>4. CASE ListSources
    <2>1. call'.answer = Allowed /\ Fresh /\ call.tool = "list_sources" /\ call.pc = "prepare"
      BY <1>1, <1>4 DEF ListSources, CallType
    <2>. QED BY <1>1, <2>1, AllowedIsRecent DEF Justified
  <1>5. CASE Post
    <2>1. call'.answer = Filtered(call.found) /\ Fresh /\ call.pc = "post"
      BY <1>1, <1>5 DEF Post, CallType
    <2>2. call.found \subseteq call.asked
      BY <2>1 DEF ScopeInv, ScopesCovered
    <2>. QED BY <1>1, <2>1, <2>2, AllowedIsRecent DEF Justified, Filtered
  <1>6. ASSUME NEW found \in SUBSET call.scope, CountEntities(found) PROVE Justified
    <2>1. call'.answer = found /\ call.pc = "query"
      BY <1>1, <1>6 DEF CountEntities, CallType
    <2>2. /\ call.scope \subseteq call.asked
          /\ Unrestricted \/ call.scope \cap Repos \subseteq scoping.allowlist
          /\ call.waited \in Nat /\ call.waited <= MaxCall
      BY <1>1, <2>1 DEF ScopeInv, ScopesCovered, Patient, CallType
    <2>3. ASSUME NEW s \in found \cap Sources, ~Unrestricted
          PROVE  off[s] <= CacheTtl + MaxRead + MaxCall
      <3>1. off[s] \in Nat /\ off[s] <= CacheTtl + MaxRead + call.waited
        BY <2>1, <2>3 DEF ScopeInv, ScopeTypeOK, Recent
      <3>. QED BY <1>1, <2>2, <3>1
    <2>. QED BY <2>1, <2>2, <2>3 DEF Justified
  <1>. QED BY <1>2, <1>3, <1>4, <1>5, <1>6

(* A pause reaches the readers: what an answer names was enabled a cache's *)
(* life and one reading of the registry ago or later (counts: and one      *)
(* answer of the store).  The provider's cache bounds what Prepare admits  *)
(* and what Post lets through.                                             *)
THEOREM PauseReachesReaders == ScopeSpec => AnswersStayInScope
PROOF
  <1>1. ScopeInv /\ [ScopeNext]_scopeVars => [Justified]_scopeVars
    BY AnswersJustified
  <1>. QED BY <1>1, ScopeInitHolds, ScopeStep, PTL DEF ScopeSpec, AnswersStayInScope, Justified

-------------------------------------------------------------------------------
(* Facts about numbers.                                                    *)

LEMMA LeastNumber ==
  ASSUME NEW S, S \subseteq Nat, S # {}
  PROVE  \E x \in S : \A y \in S : x <= y
PROOF
  <1> DEFINE Less == OpToRel(<, Nat)
  <1>1. \A x, y \in Nat : <<y, x>> \in Less <=> y < x
    BY Zenon DEF OpToRel
  <1>2. IsWellFoundedOn(Less, Nat)
    BY NatLessThanWellFounded
  <1>. HIDE DEF Less
  <1>3. PICK x \in S : \A y \in S : ~(<<y, x>> \in Less)
    BY <1>2, WFMin
  <1>4. ASSUME NEW y \in S PROVE x <= y
    <2>1. ~(y < x) /\ x \in Nat /\ y \in Nat
      BY <1>1, <1>3
    <2>. QED BY <2>1
  <1>. QED BY <1>4


-------------------------------------------------------------------------------
(* The relationships found.                                                *)

---------------------------------------------------------------------------
(* Classifying a statement leaves alone what it is about.                  *)
LEMMA ClassifiedSays ==
  ASSUME NEW r \in Statement, NEW doc \in SourceDocument
  PROVE  /\ Classify(r, doc) \in Statement
         /\ Classify(r, doc).type = r.type /\ Classify(r, doc).source = r.source
         /\ Classify(r, doc).target = r.target
         /\ Classify(r, doc).source_type = r.source_type
         /\ Classify(r, doc).target_type = r.target_type
         /\ r.origin = Explicit => /\ Classify(r, doc).status = "current"
                                  /\ Classify(r, doc).as_of = doc.updated
         /\ r.origin = Llm => /\ Classify(r, doc).status = Table(doc, Known(r.assertion))
                             /\ Classify(r, doc).as_of = StatementTime(doc)
PROOF
  <1> DEFINE c == Classify(r, doc)
  <1>1. /\ Known(r.assertion) \in Assertions /\ Table(doc, Known(r.assertion)) \in Statuses
        /\ StatementTime(doc) \in Nat /\ doc.updated \in Nat /\ "current" \in Statuses
    <2>1. Known(r.assertion) \in Assertions
      BY DEF Known, Assertions
    <2>2. ASSUME NEW a PROVE Table(doc, a) \in Statuses
      BY DEF Table, Statuses, Affirming, Denying
    <2>3. StatementTime(doc) \in Nat /\ doc.updated \in Nat
      BY DEF StatementTime, SourceDocument
    <2>. QED BY <2>1, <2>2, <2>3 DEF Statuses, Affirming
  <1>2. CASE r.origin = Explicit
    <2>1. c = [r EXCEPT !.status = "current", !.as_of = doc.updated] /\ Llm # Explicit
      BY <1>2 DEF Classify, Llm, Explicit
    <2> HIDE DEF c
    <2>2. /\ c \in Statement
          /\ c.type = r.type /\ c.source = r.source /\ c.target = r.target
          /\ c.source_type = r.source_type /\ c.target_type = r.target_type
          /\ c.status = "current" /\ c.as_of = doc.updated
      BY <1>1, <2>1 DEF Statement
    <2>. QED BY <1>2, <2>1, <2>2 DEF c
  <1>3. CASE r.origin # Explicit
    <2>1. c = [r EXCEPT !.assertion = Known(r.assertion),
                        !.status = Table(doc, Known(r.assertion)), !.as_of = StatementTime(doc)]
      BY <1>3 DEF Classify
    <2> HIDE DEF c
    <2>2. /\ c \in Statement
          /\ c.type = r.type /\ c.source = r.source /\ c.target = r.target
          /\ c.source_type = r.source_type /\ c.target_type = r.target_type
          /\ c.status = Table(doc, Known(r.assertion)) /\ c.as_of = StatementTime(doc)
      BY <1>1, <2>1 DEF Statement
    <2>. QED BY <1>3, <2>2 DEF c
  <1>. QED BY <1>2, <1>3

LEMMA StructuredSays ==
  ASSUME NEW doc \in SourceDocument
  PROVE  /\ Structured(doc) \in Seq(Statement) /\ Len(Structured(doc)) = Len(doc.parsed)
         /\ \A i \in 1..Len(doc.parsed) :
              /\ Structured(doc)[i].type = doc.parsed[i].type
              /\ Structured(doc)[i].source = doc.parsed[i].source
              /\ Structured(doc)[i].target = doc.parsed[i].target
              /\ Structured(doc)[i].source_type = doc.parsed[i].source_type
              /\ Structured(doc)[i].target_type = doc.parsed[i].target_type
              /\ EdgeOf(Structured(doc)[i]) = EdgeOf(doc.parsed[i])
              /\ Structured(doc)[i].status = "current" /\ Structured(doc)[i].as_of = doc.updated
PROOF
  <1>1. doc.parsed \in Seq(Statement)
    BY DEF SourceDocument
  <1>2. /\ Len(doc.parsed) \in Nat /\ DOMAIN doc.parsed = 1..Len(doc.parsed)
        /\ \A i \in 1..Len(doc.parsed) : doc.parsed[i] \in Statement
    BY <1>1
  <1>3. \A i \in 1..Len(doc.parsed) :
          Structured(doc)[i] = Classify([doc.parsed[i] EXCEPT !.origin = Explicit], doc)
    BY <1>2 DEF Structured
  <1>4. ASSUME NEW i \in 1..Len(doc.parsed)
        PROVE  /\ Structured(doc)[i] \in Statement
               /\ Structured(doc)[i].type = doc.parsed[i].type
               /\ Structured(doc)[i].source = doc.parsed[i].source
               /\ Structured(doc)[i].target = doc.parsed[i].target
               /\ Structured(doc)[i].source_type = doc.parsed[i].source_type
               /\ Structured(doc)[i].target_type = doc.parsed[i].target_type
               /\ EdgeOf(Structured(doc)[i]) = EdgeOf(doc.parsed[i])
               /\ Structured(doc)[i].status = "current" /\ Structured(doc)[i].as_of = doc.updated
    <2> DEFINE r == doc.parsed[i]
               o == [r EXCEPT !.origin = Explicit]
               c == Structured(doc)[i]
    <2>1. r \in Statement /\ c = Classify(o, doc)
      BY <1>2, <1>3
    <2> HIDE DEF c, r
    <2>2. /\ o \in Statement
          /\ o.type = r.type /\ o.source = r.source /\ o.target = r.target
          /\ o.source_type = r.source_type /\ o.target_type = r.target_type
          /\ o.assertion = r.assertion /\ o.origin = Explicit
      BY <2>1 DEF Statement
    <2> HIDE DEF o
    <2>3. /\ c \in Statement
          /\ c.type = r.type /\ c.source = r.source /\ c.target = r.target
          /\ c.source_type = r.source_type /\ c.target_type = r.target_type
          /\ c.status = "current" /\ c.as_of = doc.updated
      BY <2>1, <2>2, ClassifiedSays
    <2>. QED BY <2>3 DEF c, r, EdgeOf
  <1>5. Structured(doc) \in [1..Len(doc.parsed) -> Statement]
    BY <1>2, <1>4 DEF Structured
  <1>6. Structured(doc) \in Seq(Statement) /\ Len(Structured(doc)) = Len(doc.parsed)
    BY <1>2, <1>5
  <1>. QED BY <1>4, <1>6

LEMMA GroundedSays ==
  ASSUME NEW doc \in SourceDocument
  PROVE  /\ Grounded(doc) \in Seq(Statement) /\ Len(Grounded(doc)) = Len(doc.model)
         /\ \A i \in 1..Len(doc.model) :
              /\ Grounded(doc)[i].type = doc.model[i].type
              /\ Grounded(doc)[i].source = doc.model[i].source
              /\ Grounded(doc)[i].target = doc.model[i].target
              /\ Grounded(doc)[i].source_type = doc.model[i].source_type
              /\ Grounded(doc)[i].target_type = doc.model[i].target_type
              /\ EdgeOf(Grounded(doc)[i]) = EdgeOf(doc.model[i])
              /\ Grounded(doc)[i].status = Table(doc, Known(doc.model[i].assertion))
              /\ Grounded(doc)[i].as_of = StatementTime(doc)
PROOF
  <1>1. doc.model \in Seq(Statement)
    BY DEF SourceDocument
  <1>2. /\ Len(doc.model) \in Nat /\ DOMAIN doc.model = 1..Len(doc.model)
        /\ \A i \in 1..Len(doc.model) : doc.model[i] \in Statement
    BY <1>1
  <1>3. \A i \in 1..Len(doc.model) :
          Grounded(doc)[i] = Classify([doc.model[i] EXCEPT !.origin = Llm], doc)
    BY <1>2 DEF Grounded
  <1>4. ASSUME NEW i \in 1..Len(doc.model)
        PROVE  /\ Grounded(doc)[i] \in Statement
               /\ Grounded(doc)[i].type = doc.model[i].type
               /\ Grounded(doc)[i].source = doc.model[i].source
               /\ Grounded(doc)[i].target = doc.model[i].target
               /\ Grounded(doc)[i].source_type = doc.model[i].source_type
               /\ Grounded(doc)[i].target_type = doc.model[i].target_type
               /\ EdgeOf(Grounded(doc)[i]) = EdgeOf(doc.model[i])
               /\ Grounded(doc)[i].status = Table(doc, Known(doc.model[i].assertion))
               /\ Grounded(doc)[i].as_of = StatementTime(doc)
    <2> DEFINE r == doc.model[i]
               o == [r EXCEPT !.origin = Llm]
               c == Grounded(doc)[i]
    <2>1. r \in Statement /\ c = Classify(o, doc)
      BY <1>2, <1>3
    <2> HIDE DEF c, r
    <2>2. /\ o \in Statement
          /\ o.type = r.type /\ o.source = r.source /\ o.target = r.target
          /\ o.source_type = r.source_type /\ o.target_type = r.target_type
          /\ o.assertion = r.assertion /\ o.origin = Llm
      BY <2>1 DEF Statement
    <2> HIDE DEF o
    <2>3. /\ c \in Statement
          /\ c.type = r.type /\ c.source = r.source /\ c.target = r.target
          /\ c.source_type = r.source_type /\ c.target_type = r.target_type
          /\ c.status = Table(doc, Known(r.assertion)) /\ c.as_of = StatementTime(doc)
      BY <2>1, <2>2, ClassifiedSays
    <2>. QED BY <2>3 DEF c, r, EdgeOf
  <1>5. Grounded(doc) \in [1..Len(doc.model) -> Statement]
    BY <1>2, <1>4 DEF Grounded
  <1>6. Grounded(doc) \in Seq(Statement) /\ Len(Grounded(doc)) = Len(doc.model)
    BY <1>2, <1>5
  <1>. QED BY <1>4, <1>6

(* What a merged document m holds of the statements a and b: the parser's  *)
(* last statement of an edge, or the model's first.                        *)
OneEach(m, a, b, n) ==
  /\ DOMAIN m \subseteq 1..(n + Len(b))
  /\ \A i \in DOMAIN m : i <= n =>
       /\ i \in 1..n /\ m[i] = a[i]
       /\ \A j \in (i + 1)..n : EdgeOf(a[j]) # EdgeOf(a[i])
  /\ \A i \in DOMAIN m : i > n =>
       /\ i - n \in 1..Len(b) /\ m[i] = b[i - n]
       /\ \A j \in 1..n : EdgeOf(a[j]) # EdgeOf(m[i])
       /\ \A j \in 1..(i - n - 1) : EdgeOf(b[j]) # EdgeOf(m[i])
  /\ \A i \in 1..n :
       (\A j \in (i + 1)..n : EdgeOf(a[j]) # EdgeOf(a[i])) => i \in DOMAIN m
  /\ \A i \in 1..Len(b) :
       /\ \A j \in 1..n : EdgeOf(a[j]) # EdgeOf(b[i])
       /\ \A j \in 1..(i - 1) : EdgeOf(b[j]) # EdgeOf(b[i])
       => n + i \in DOMAIN m
  /\ \A i, j \in DOMAIN m : EdgeOf(m[i]) = EdgeOf(m[j]) => i = j

LEMMA MergedSays ==
  ASSUME NEW a \in Seq(Statement), NEW b \in Seq(Statement)
  PROVE  OneEach(Merge(a, b), a, b, Len(a))
PROOF
  <1> DEFINE n == Len(a)
             m == Merge(a, b)
             Last == {i \in 1..n : \A j \in (i + 1)..n : EdgeOf(a[j]) # EdgeOf(a[i])}
             New == {i \in 1..Len(b) : /\ \A j \in 1..n : EdgeOf(a[j]) # EdgeOf(b[i])
                                       /\ \A j \in 1..(i - 1) : EdgeOf(b[j]) # EdgeOf(b[i])}
  <1>1. n \in Nat /\ Len(b) \in Nat
    OBVIOUS
  <1>2. /\ DOMAIN m = Last \union {n + j : j \in New}
        /\ \A i \in DOMAIN m : m[i] = IF i <= n THEN a[i] ELSE b[i - n]
    BY DEF Merge
  <1> HIDE DEF m, n
  <1>3. \A i \in DOMAIN m : (i \in Last /\ i <= n) \/ (i > n /\ i - n \in New)
    BY <1>1, <1>2
  <1>4. \A i \in Last : i \in DOMAIN m
    BY <1>2
  <1>5. \A i \in New : n + i \in DOMAIN m
    BY <1>2
  <1>6. DOMAIN m \subseteq 1..(n + Len(b))
    BY <1>1, <1>2
  <1>7. ASSUME NEW i \in DOMAIN m, i <= n
        PROVE  /\ i \in 1..n /\ m[i] = a[i]
               /\ \A j \in (i + 1)..n : EdgeOf(a[j]) # EdgeOf(a[i])
    BY <1>1, <1>2, <1>3, <1>6, <1>7
  <1>8. ASSUME NEW i \in DOMAIN m, i > n
        PROVE  /\ i - n \in 1..Len(b) /\ m[i] = b[i - n]
               /\ \A j \in 1..n : EdgeOf(a[j]) # EdgeOf(m[i])
               /\ \A j \in 1..(i - n - 1) : EdgeOf(b[j]) # EdgeOf(m[i])
    <2>1. i \in Nat /\ ~(i <= n) /\ i - n \in New
      BY <1>1, <1>3, <1>6, <1>8
    <2>2. m[i] = b[i - n]
      BY <1>2, <2>1
    <2>. QED BY <2>1, <2>2
  <1>9. ASSUME NEW i \in DOMAIN m, NEW j \in DOMAIN m, EdgeOf(m[i]) = EdgeOf(m[j]) PROVE i = j
    <2>1. ASSUME NEW x \in DOMAIN m, NEW y \in DOMAIN m, x < y, EdgeOf(m[x]) = EdgeOf(m[y])
          PROVE  FALSE
      <3>1. x \in Nat /\ y \in Nat
        BY <1>6
      <3>2. CASE y <= n
        <4>1. x <= n /\ x \in 1..n /\ m[x] = a[x] /\ y \in (x + 1)..n /\ m[y] = a[y]
          BY <1>1, <1>7, <2>1, <3>1, <3>2
        <4>. QED BY <1>7, <2>1, <4>1
      <3>3. CASE y > n /\ x <= n
        <4>1. x \in 1..n /\ m[x] = a[x]
          BY <1>7, <3>3
        <4>. QED BY <1>8, <2>1, <3>3, <4>1
      <3>4. CASE y > n /\ x > n
        <4>1. m[x] = b[x - n] /\ x - n \in 1..(y - n - 1)
          BY <1>1, <1>8, <2>1, <3>1, <3>4
        <4>. QED BY <1>8, <2>1, <3>4, <4>1
      <3>. QED BY <1>1, <3>1, <3>2, <3>3, <3>4
    <2>2. i \in Int /\ j \in Int
      BY <1>6
    <2>. QED BY <1>9, <2>1, <2>2
  <1>. QED BY <1>4, <1>5, <1>6, <1>7, <1>8, <1>9 DEF OneEach, m, n

---------------------------------------------------------------------------
(* What the query asks of an edge, whoever states it.                      *)
Asked(e) ==
  /\ \/ e.direction = "incoming" /\ Incoming /\ e.of[3] = Wanted
     \/ e.direction = "outgoing" /\ Outgoing /\ e.of[1] = Wanted
  /\ query.types = {} \/ e.of[2] \in query.types

LEMMA MatchedMeans ==
  ASSUME NEW r, NEW e, EdgeOf(r) = e.of
  PROVE  e.direction \in Matched(r) <=> Asked(e) /\ Fits(r, e)
PROOF
  <1>1. e.of = <<Key(r.source), r.type, Key(r.target)>>
    BY DEF EdgeOf
  <1>2. e.of[1] = Key(r.source) /\ e.of[2] = r.type /\ e.of[3] = Key(r.target)
    BY <1>1
  <1>3. CASE e.direction = "incoming"
    BY <1>2, <1>3 DEF Matched, About, Asked, Fits, TypeCompatible
  <1>4. CASE e.direction = "outgoing"
    BY <1>2, <1>4 DEF Matched, About, Asked, Fits, TypeCompatible
  <1>5. CASE e.direction \notin {"incoming", "outgoing"}
    BY <1>5 DEF Matched, Asked
  <1>. QED BY <1>3, <1>4, <1>5

LEMMA RelationshipsTyped ==
  ASSUME NEW doc \in SourceDocument
  PROVE  /\ DOMAIN Relationships(doc) \subseteq Nat
         /\ \A i \in DOMAIN Relationships(doc) : Relationships(doc)[i] \in Statement
PROOF
  <1> DEFINE a == Structured(doc)
             b == Grounded(doc)
  <1>1. a \in Seq(Statement) /\ b \in Seq(Statement)
    BY StructuredSays, GroundedSays
  <1>2. doc.by \in {"parser", "model", "both"}
    BY DEF SourceDocument
  <1> HIDE DEF a, b
  <1>3. CASE doc.by = "parser"
    <2>1. Relationships(doc) = a
      BY <1>3 DEF Relationships, a
    <2>. QED BY <1>1, <2>1
  <1>4. CASE doc.by = "model"
    <2>1. Relationships(doc) = b
      BY <1>4 DEF Relationships, b
    <2>. QED BY <1>1, <2>1
  <1>5. CASE doc.by = "both"
    <2> DEFINE m == Merge(a, b)
    <2>1. Relationships(doc) = m
      BY <1>5 DEF Relationships, a, b
    <2> HIDE DEF m
    <2>2. /\ DOMAIN m \subseteq 1..(Len(a) + Len(b)) /\ Len(a) \in Nat /\ Len(b) \in Nat
          /\ \A i \in DOMAIN m : i <= Len(a) => i \in 1..Len(a) /\ m[i] = a[i]
          /\ \A i \in DOMAIN m : i > Len(a) => i - Len(a) \in 1..Len(b) /\ m[i] = b[i - Len(a)]
      BY <1>1, MergedSays DEF m, OneEach
    <2>3. \A i \in DOMAIN m : m[i] \in Statement
      <3>1. ASSUME NEW i \in DOMAIN m PROVE m[i] \in Statement
        <4>1. i \in Nat /\ (i <= Len(a) \/ i > Len(a))
          BY <2>2
        <4>. QED BY <1>1, <2>2, <4>1
      <3>. QED BY <3>1
    <2>. QED BY <2>1, <2>2, <2>3
  <1>. QED BY <1>2, <1>3, <1>4, <1>5

(* What a document says of an edge that is asked for: nothing, or what its *)
(* configuration states, or what the model read in its text.               *)
LEMMA Heard ==
  ASSUME NEW doc \in SourceDocument, NEW e, Asked(e)
  PROVE  LET row == Row(doc)
             said == FirstSpoken(row, e.direction, e.of)
         IN  /\ Spoken(row, e.direction, e.of) = {} =>
                  ~Configures(doc, e) /\ \A A : ~Writes(doc, e, A)
             /\ Spoken(row, e.direction, e.of) # {} =>
                  \/ /\ said.status = "current" /\ said.as_of \in Nat
                     /\ Configures(doc, e) /\ \A A : ~Writes(doc, e, A)
                  \/ \E a : /\ said.status = Table(doc, Known(a))
                            /\ said.as_of = StatementTime(doc)
                            /\ ~Configures(doc, e) /\ \A A : Writes(doc, e, A) <=> a \in A
PROOF
  <1> DEFINE R == Relationships(doc)
             S == Spoken(Row(doc), e.direction, e.of)
             said == FirstSpoken(Row(doc), e.direction, e.of)
             p == doc.parsed
             l == doc.model
  <1>1. S = {i \in DOMAIN R : EdgeOf(R[i]) = e.of /\ e.direction \in Matched(R[i])}
    BY DEF Spoken, Row
  <1>2. S = {i \in DOMAIN R : Fits(R[i], e)}
    <2>1. ASSUME NEW i \in DOMAIN R
          PROVE  (EdgeOf(R[i]) = e.of /\ e.direction \in Matched(R[i])) <=> Fits(R[i], e)
      <3>1. CASE EdgeOf(R[i]) = e.of
        BY <3>1, MatchedMeans
      <3>2. CASE EdgeOf(R[i]) # e.of
        BY <3>2 DEF Fits
      <3>. QED BY <3>1, <3>2
    <2>. QED BY <1>1, <2>1
  <1>3. DOMAIN R \subseteq Nat
    BY RelationshipsTyped
  <1>4. ASSUME S # {}
        PROVE  \E i \in S : said = R[i] /\ \A j \in S : i <= j
    <2>1. \E i \in S : \A j \in S : i <= j
      BY <1>1, <1>3, <1>4, LeastNumber
    <2>2. said = R[CHOOSE i \in S : \A j \in S : i <= j]
      BY DEF FirstSpoken, Row
    <2>. QED BY <2>1, <2>2
  <1>5. /\ Len(p) \in Nat /\ DOMAIN p = 1..Len(p) /\ Len(l) \in Nat /\ DOMAIN l = 1..Len(l)
        /\ doc.by \in {"parser", "model", "both"} /\ doc.updated \in Nat
    BY DEF SourceDocument
  <1>6. \A r, q : EdgeOf(r) = EdgeOf(q) /\ r.source_type = q.source_type
                   /\ r.target_type = q.target_type => (Fits(r, e) <=> Fits(q, e))
    BY DEF Fits
  <1>7. \A i \in 1..Len(p) : Fits(Structured(doc)[i], e) <=> Fits(p[i], e)
    BY <1>6, StructuredSays
  <1>8. \A i \in 1..Len(l) : Fits(Grounded(doc)[i], e) <=> Fits(l[i], e)
    BY <1>6, GroundedSays
  <1> HIDE DEF R, S, said, p, l
  <1>9. CASE doc.by = "parser"
    <2>1. R = Structured(doc) /\ DOMAIN R = 1..Len(p)
      BY <1>9, StructuredSays DEF Relationships, R, p
    <2>2. \A A : ~Writes(doc, e, A)
      BY <1>9 DEF Writes
    <2>3. Configures(doc, e) <=> \E i \in 1..Len(p) : Fits(p[i], e)
      BY <1>5, <1>9 DEF Configures, p
    <2>4. Configures(doc, e) <=> S # {}
      BY <1>2, <1>7, <2>1, <2>3
    <2>5. S # {} => said.status = "current" /\ said.as_of \in Nat
      BY <1>2, <1>4, <1>5, <2>1, StructuredSays DEF p
    <2>. QED BY <2>2, <2>4, <2>5 DEF S, said
  <1>10. CASE doc.by = "model"
    <2>1. R = Grounded(doc) /\ DOMAIN R = 1..Len(l)
      BY <1>10, GroundedSays DEF Relationships, R, l
    <2>2. ~Configures(doc, e)
      BY <1>10 DEF Configures
    <2>3. \A i : i \in S <=> i \in 1..Len(l) /\ Fits(l[i], e)
      BY <1>2, <1>8, <2>1
    <2>4. \A A : Writes(doc, e, A) <=>
                   \E i \in 1..Len(l) : /\ Fits(l[i], e) /\ l[i].assertion \in A
                                        /\ \A j \in 1..(i - 1) : ~Fits(l[j], e)
      BY <1>5, <1>10 DEF Writes, l
    <2>5. S = {} => \A A : ~Writes(doc, e, A)
      BY <2>3, <2>4
    <2>6. ASSUME S # {}
          PROVE  \E a : /\ said.status = Table(doc, Known(a)) /\ said.as_of = StatementTime(doc)
                        /\ \A A : Writes(doc, e, A) <=> a \in A
      <3>1. PICK i \in S : said = R[i] /\ \A j \in S : i <= j
        BY <1>4, <2>6
      <3>2. i \in 1..Len(l) /\ Fits(l[i], e) /\ \A j \in 1..Len(l) : Fits(l[j], e) => i <= j
        BY <2>3, <3>1
      <3>3. /\ said.status = Table(doc, Known(l[i].assertion))
            /\ said.as_of = StatementTime(doc)
        BY <2>1, <3>1, <3>2, GroundedSays DEF l
      <3>4. ASSUME NEW A PROVE Writes(doc, e, A) <=> l[i].assertion \in A
        <4>1. ASSUME NEW k \in 1..Len(l), Fits(l[k], e), \A j \in 1..(k - 1) : ~Fits(l[j], e)
              PROVE  k = i
          BY <1>5, <3>2, <4>1
        <4>2. \A j \in 1..(i - 1) : ~Fits(l[j], e)
          BY <1>5, <3>2
        <4>. QED BY <2>4, <3>2, <4>1, <4>2
      <3>. QED BY <3>3, <3>4
    <2>. QED BY <2>2, <2>5, <2>6 DEF S, said
  <1>11. CASE doc.by = "both"
    <2> DEFINE a == Structured(doc)
               b == Grounded(doc)
               n == Len(p)
    <2>1. R = Merge(a, b)
      BY <1>11 DEF Relationships, R
    <2>2. /\ a \in Seq(Statement) /\ Len(a) = n /\ n \in Nat
          /\ b \in Seq(Statement) /\ Len(b) = Len(l) /\ Len(l) \in Nat
          /\ \A i \in 1..n : EdgeOf(a[i]) = EdgeOf(p[i]) /\ a[i].status = "current"
                              /\ a[i].as_of = doc.updated /\ (Fits(a[i], e) <=> Fits(p[i], e))
          /\ \A i \in 1..Len(l) : EdgeOf(b[i]) = EdgeOf(l[i])
                              /\ b[i].status = Table(doc, Known(l[i].assertion))
                              /\ b[i].as_of = StatementTime(doc)
                              /\ (Fits(b[i], e) <=> Fits(l[i], e))
      BY <1>5, <1>7, <1>8, StructuredSays, GroundedSays DEF p, l
    <2> HIDE DEF a, b, n
    <2>3. /\ DOMAIN R \subseteq 1..(n + Len(l))
          /\ \A i \in DOMAIN R : i <= n =>
               /\ i \in 1..n /\ R[i] = a[i]
               /\ \A j \in (i + 1)..n : EdgeOf(a[j]) # EdgeOf(a[i])
          /\ \A i \in DOMAIN R : i > n =>
               /\ i - n \in 1..Len(l) /\ R[i] = b[i - n]
               /\ \A j \in 1..n : EdgeOf(a[j]) # EdgeOf(R[i])
               /\ \A j \in 1..(i - n - 1) : EdgeOf(b[j]) # EdgeOf(R[i])
          /\ \A i \in 1..n :
               (\A j \in (i + 1)..n : EdgeOf(a[j]) # EdgeOf(a[i])) => i \in DOMAIN R
          /\ \A i \in 1..Len(l) :
               /\ \A j \in 1..n : EdgeOf(a[j]) # EdgeOf(b[i])
               /\ \A j \in 1..(i - 1) : EdgeOf(b[j]) # EdgeOf(b[i])
               => n + i \in DOMAIN R
          /\ \A i, j \in DOMAIN R : EdgeOf(R[i]) = EdgeOf(R[j]) => i = j
      <3>1. OneEach(R, a, b, n)
        BY <2>1, <2>2, MergedSays
      <3>. QED BY <2>2, <3>1 DEF OneEach
    <2>4. \A r : Fits(r, e) => EdgeOf(r) = e.of
      BY DEF Fits
    <2>5. Configures(doc, e) <=> \E i \in S : i <= n
      <3>1. Configures(doc, e) <=>
              \E i \in 1..n : Fits(p[i], e) /\ \A j \in (i + 1)..n : EdgeOf(p[j]) # e.of
        BY <1>5, <1>11 DEF Configures, n, p
      <3>2. ASSUME NEW i \in 1..n, Fits(p[i], e), \A j \in (i + 1)..n : EdgeOf(p[j]) # e.of
            PROVE  i \in S /\ i <= n
        <4>1. \A j \in (i + 1)..n : j \in 1..n
          BY <2>2
        <4>2. \A j \in (i + 1)..n : EdgeOf(a[j]) # EdgeOf(a[i])
          BY <2>2, <2>4, <3>2, <4>1
        <4>3. i \in DOMAIN R /\ i <= n
          BY <2>2, <2>3, <4>2
        <4>4. R[i] = a[i]
          BY <2>3, <4>3
        <4>. QED BY <1>2, <2>2, <3>2, <4>3, <4>4
      <3>3. ASSUME NEW i \in S, i <= n
            PROVE  i \in 1..n /\ Fits(p[i], e) /\ \A j \in (i + 1)..n : EdgeOf(p[j]) # e.of
        <4>1. i \in DOMAIN R /\ Fits(R[i], e)
          BY <1>2
        <4>2. /\ i \in 1..n /\ R[i] = a[i]
              /\ \A j \in (i + 1)..n : EdgeOf(a[j]) # EdgeOf(a[i])
          BY <2>3, <3>3, <4>1
        <4>3. \A j \in (i + 1)..n : j \in 1..n
          BY <2>2, <4>2
        <4>4. Fits(p[i], e) /\ EdgeOf(a[i]) = e.of
          BY <2>2, <2>4, <4>1, <4>2
        <4>. QED BY <2>2, <4>2, <4>3, <4>4
      <3>. QED BY <3>1, <3>2, <3>3
    <2>6. ASSUME NEW A
          PROVE  Writes(doc, e, A) <=> \E i \in S : i > n /\ l[i - n].assertion \in A
      <3>1. Writes(doc, e, A) <=>
              /\ \A j \in 1..n : EdgeOf(p[j]) # e.of
              /\ \E i \in 1..Len(l) : /\ Fits(l[i], e) /\ l[i].assertion \in A
                                      /\ \A j \in 1..(i - 1) : EdgeOf(l[j]) # e.of
        BY <1>5, <1>11 DEF Writes, n, p, l
      <3>2. ASSUME \A j \in 1..n : EdgeOf(p[j]) # e.of, NEW i \in 1..Len(l), Fits(l[i], e),
                   \A j \in 1..(i - 1) : EdgeOf(l[j]) # e.of
            PROVE  n + i \in S /\ n + i > n /\ (n + i) - n = i
        <4>1. \A j \in 1..(i - 1) : j \in 1..Len(l)
          BY <2>2
        <4>2. /\ EdgeOf(b[i]) = e.of
              /\ \A j \in 1..n : EdgeOf(a[j]) # EdgeOf(b[i])
              /\ \A j \in 1..(i - 1) : EdgeOf(b[j]) # EdgeOf(b[i])
          BY <2>2, <2>4, <3>2, <4>1
        <4>3. n + i \in DOMAIN R /\ n + i > n /\ (n + i) - n = i
          BY <2>2, <2>3, <4>2
        <4>4. R[n + i] = b[i]
          BY <2>3, <4>3
        <4>. QED BY <1>2, <2>2, <3>2, <4>3, <4>4
      <3>3. ASSUME NEW i \in S, i > n
            PROVE  /\ i - n \in 1..Len(l) /\ Fits(l[i - n], e)
                   /\ \A j \in 1..n : EdgeOf(p[j]) # e.of
                   /\ \A j \in 1..(i - n - 1) : EdgeOf(l[j]) # e.of
        <4>1. i \in DOMAIN R /\ Fits(R[i], e) /\ EdgeOf(R[i]) = e.of
          BY <1>2, <2>4
        <4>2. /\ i - n \in 1..Len(l) /\ R[i] = b[i - n]
              /\ \A j \in 1..n : EdgeOf(a[j]) # EdgeOf(R[i])
              /\ \A j \in 1..(i - n - 1) : EdgeOf(b[j]) # EdgeOf(R[i])
          BY <2>3, <3>3, <4>1
        <4>3. \A j \in 1..(i - n - 1) : j \in 1..Len(l)
          BY <2>2, <4>2
        <4>. QED BY <2>2, <4>1, <4>2, <4>3
      <3>. QED BY <3>1, <3>2, <3>3
    <2>7. \A i, j \in S : i = j
      BY <1>2, <2>3, <2>4
    <2>8. CASE S = {}
      BY <2>5, <2>6, <2>8 DEF S
    <2>9. CASE S # {}
      <3>1. PICK i \in S : said = R[i]
        BY <1>4, <2>9
      <3>2. i \in DOMAIN R /\ i \in Nat
        BY <1>2, <1>3
      <3>3. CASE i <= n
        <4>1. said = a[i] /\ i \in 1..n
          BY <2>3, <3>1, <3>2, <3>3
        <4>2. said.status = "current" /\ said.as_of \in Nat
          BY <1>5, <2>2, <4>1
        <4>3. Configures(doc, e) /\ \A A : ~Writes(doc, e, A)
          BY <2>2, <2>5, <2>6, <2>7, <3>2, <3>3
        <4>. QED BY <2>9, <4>2, <4>3 DEF S, said
      <3>4. CASE i > n
        <4>1. said = b[i - n] /\ i - n \in 1..Len(l)
          BY <2>3, <3>1, <3>2, <3>4
        <4>2. /\ said.status = Table(doc, Known(l[i - n].assertion))
              /\ said.as_of = StatementTime(doc)
          BY <2>2, <4>1
        <4>3. ~Configures(doc, e) /\ \A A : Writes(doc, e, A) <=> l[i - n].assertion \in A
          BY <2>2, <2>5, <2>6, <2>7, <3>2, <3>4
        <4>. QED BY <2>9, <4>2, <4>3 DEF S, said
      <3>. QED BY <2>2, <3>2, <3>3, <3>4
    <2>. QED BY <2>8, <2>9
  <1>. QED BY <1>5, <1>9, <1>10, <1>11

LEMMA TableMeans ==
  ASSUME NEW doc, NEW a
  PROVE  /\ Table(doc, Known(a)) \in Statuses /\ Table(doc, Known(a)) # "current"
         /\ Table(doc, Known(a)) \in Affirming <=> InEffect(doc) /\ a \in {"present", "added"}
         /\ Table(doc, Known(a)) \in Denying <=> a = "negated" \/ (InEffect(doc) /\ a = "removed")
PROOF
  <1>1. InEffect(doc) <=> ~Rejected(doc) /\ ~Pending(doc)
    BY DEF InEffect, Rejected, Pending
  <1>2. Rejected(doc) => ~Pending(doc)
    BY DEF Rejected, Pending
  <1>3. CASE a \in Assertions
    BY <1>1, <1>2, <1>3 DEF Known, Table, Statuses, Affirming, Denying, Assertions
  <1>4. CASE a \notin Assertions
    BY <1>4 DEF Known, Table, Statuses, Affirming, Denying, Assertions
  <1>. QED BY <1>3, <1>4

(* What a document says of an edge is what it bears out of it.             *)
Honest(doc, e, said) ==
  /\ said.status \in Statuses /\ said.as_of \in Nat
  /\ said.status = "current" <=> Configures(doc, e)
  /\ said.status \in Affirming <=> Affirms(doc, e)
  /\ said.status \in Denying <=> Denies(doc, e)
  /\ said.status # "current" => said.as_of = StatementTime(doc)

LEMMA Verdict ==
  ASSUME NEW doc \in SourceDocument, NEW e, Asked(e)
  PROVE  /\ Spoken(Row(doc), e.direction, e.of) = {} =>
              ~Affirms(doc, e) /\ ~Denies(doc, e) /\ ~Configures(doc, e)
         /\ Spoken(Row(doc), e.direction, e.of) # {} =>
              Honest(doc, e, FirstSpoken(Row(doc), e.direction, e.of))
PROOF
  <1> DEFINE S == Spoken(Row(doc), e.direction, e.of)
             said == FirstSpoken(Row(doc), e.direction, e.of)
  <1>1. CASE S = {}
    BY <1>1, Heard DEF Affirms, Denies
  <1>2. CASE S # {} /\ Configures(doc, e)
    <2>1. said.status = "current" /\ said.as_of \in Nat /\ \A A : ~Writes(doc, e, A)
      BY <1>2, Heard
    <2>. QED BY <1>2, <2>1 DEF Honest, Affirms, Denies, Statuses, Affirming, Denying
  <1>3. CASE S # {} /\ ~Configures(doc, e)
    <2>1. PICK a : /\ said.status = Table(doc, Known(a)) /\ said.as_of = StatementTime(doc)
                   /\ \A A : Writes(doc, e, A) <=> a \in A
      BY <1>3, Heard
    <2>2. StatementTime(doc) \in Nat
      BY DEF StatementTime, SourceDocument
    <2> HIDE DEF said
    <2>3. Affirms(doc, e) <=> InEffect(doc) /\ a \in {"present", "added"}
      BY <1>3, <2>1 DEF Affirms
    <2>4. Denies(doc, e) <=> a = "negated" \/ (InEffect(doc) /\ a = "removed")
      BY <2>1 DEF Denies
    <2>5. Honest(doc, e, said)
      BY <1>3, <2>1, <2>2, <2>3, <2>4, TableMeans DEF Honest
    <2>. QED BY <1>3, <2>5 DEF said
  <1>. QED BY <1>1, <1>2, <1>3

---------------------------------------------------------------------------
(* The searches find every document that speaks of an edge that is asked   *)
(* for, and no document of another repository.                             *)
LEMMA Searched ==
  ASSUME Wanted # Nobody
  PROVE  /\ \A row \in Collected : \E doc \in Reached : row = Row(doc)
         /\ \A doc \in Reached : \A e :
              Spoken(Row(doc), e.direction, e.of) # {} => Row(doc) \in Collected
PROOF
  <1>1. ASSUME NEW row \in Collected PROVE \E doc \in Reached : row = Row(doc)
    <2>1. PICK doc \in lake : row = Row(doc)
      BY DEF Collected, Rows
    <2>2. InScope(row)
      BY DEF Collected, Found, Typed
    <2>3. doc \in Reached
      BY <2>1, <2>2 DEF InScope, Reached, Row
    <2>. QED BY <2>1, <2>3
  <1>2. ASSUME NEW doc \in Reached, NEW e, Spoken(Row(doc), e.direction, e.of) # {}
        PROVE  Row(doc) \in Collected
    <2> DEFINE row == Row(doc)
               R == Relationships(doc)
    <2>1. /\ row.relationships = R /\ row.repo = doc.repo
          /\ row.target_keys = {Key(R[i].target) : i \in DOMAIN R} \ {Nobody}
          /\ row.source_keys = {Key(R[i].source) : i \in DOMAIN R} \ {Nobody}
          /\ row.types = {R[i].type : i \in DOMAIN R}
      BY DEF Row
    <2> HIDE DEF row, R
    <2>2. PICK i \in DOMAIN R : e.direction \in Matched(R[i])
      BY <1>2, <2>1 DEF Spoken, row
    <2>3. About(R[i], e.direction) /\ (query.types = {} \/ R[i].type \in query.types)
          /\ e.direction \in {"incoming", "outgoing"}
      BY <2>2 DEF Matched
    <2>4. Typed(row)
      <3>1. InScope(row)
        BY <2>1 DEF InScope, Reached
      <3>2. R[i].type \in row.types
        BY <2>1
      <3>. QED BY <2>3, <3>1, <3>2 DEF Typed
    <2>5. CASE e.direction = "incoming"
      <3>1. Incoming /\ Key(R[i].target) = Wanted
        BY <2>3, <2>5 DEF About
      <3>2. Wanted \in row.target_keys
        BY <2>1, <3>1
      <3>3. 1 \in Found(row)
        BY <2>4, <3>1, <3>2 DEF Found
      <3>. QED BY <3>3 DEF Collected, Rows, Reached, row
    <2>6. CASE e.direction = "outgoing"
      <3>1. Outgoing /\ Key(R[i].source) = Wanted
        BY <2>3, <2>6 DEF About
      <3>2. Wanted \in row.source_keys
        BY <2>1, <3>1
      <3>3. 2 \in Found(row)
        BY <2>4, <3>1, <3>2 DEF Found
      <3>. QED BY <3>3 DEF Collected, Rows, Reached, row
    <2>. QED BY <2>3, <2>5, <2>6
  <1>. QED BY <1>1, <1>2

LEMMA EdgesAreAsked ==
  ASSUME NEW e \in EdgesFound
  PROVE  /\ Wanted # Nobody /\ Asked(e)
         /\ e = [direction |-> e.direction, of |-> e.of]
         /\ \E doc \in Reached : \E i \in DOMAIN Relationships(doc) :
              EdgeOf(Relationships(doc)[i]) = e.of /\ e.direction \in Matched(Relationships(doc)[i])
PROOF
  <1>1. PICK row \in Collected : \E i \in DOMAIN row.relationships :
          \E d \in Matched(row.relationships[i]) :
            e = [direction |-> d, of |-> EdgeOf(row.relationships[i])]
    BY DEF EdgesFound
  <1>8. PICK i \in DOMAIN row.relationships : \E d \in Matched(row.relationships[i]) :
            e = [direction |-> d, of |-> EdgeOf(row.relationships[i])]
    BY <1>1
  <1>2. PICK d \in Matched(row.relationships[i]) :
            e = [direction |-> d, of |-> EdgeOf(row.relationships[i])]
    BY <1>8
  <1>3. /\ e.direction = d /\ e.of = EdgeOf(row.relationships[i])
        /\ e = [direction |-> e.direction, of |-> e.of]
    BY <1>2
  <1>4. Wanted # Nobody
    BY DEF Collected
  <1>5. PICK doc \in Reached : row = Row(doc)
    BY <1>4, Searched
  <1>6. row.relationships = Relationships(doc)
    BY <1>5 DEF Row
  <1>7. Asked(e)
    BY <1>3, MatchedMeans
  <1>. QED BY <1>2, <1>3, <1>4, <1>5, <1>6, <1>7, <1>8

LEMMA Finalized ==
  ASSUME NEW F
  PROVE  /\ \A f \in F : \E e \in FinalizeEdges(F) :
              e.direction = f.direction /\ e.of = f.of
         /\ \A e \in FinalizeEdges(F) : \E f \in F :
              /\ e.direction = f.direction /\ e.of = f.of
              /\ e.status = Aggregate(AddEdge(f.direction, f.of)).status
              /\ e.conflicting = Aggregate(AddEdge(f.direction, f.of)).conflicting
PROOF
  <1> DEFINE Told(f) == [direction |-> f.direction, of |-> f.of,
                         status |-> Aggregate(AddEdge(f.direction, f.of)).status,
                         conflicting |-> Aggregate(AddEdge(f.direction, f.of)).conflicting]
             all == {Told(f) : f \in F}
             Flagged(e) == [direction |-> e.direction, of |-> e.of, status |-> e.status,
                            conflicting |-> e.conflicting,
                            absent_from_current_config |->
                              e.status # "current" /\ Configured(e, all)]
  <1>1. FinalizeEdges(F) = {Flagged(e) : e \in all}
    BY DEF FinalizeEdges
  <1>2. \A f : /\ Told(f).direction = f.direction /\ Told(f).of = f.of
               /\ Told(f).status = Aggregate(AddEdge(f.direction, f.of)).status
               /\ Told(f).conflicting = Aggregate(AddEdge(f.direction, f.of)).conflicting
    OBVIOUS
  <1>3. \A e : /\ Flagged(e).direction = e.direction /\ Flagged(e).of = e.of
               /\ Flagged(e).status = e.status /\ Flagged(e).conflicting = e.conflicting
    OBVIOUS
  <1>4. /\ \A f \in F : Flagged(Told(f)) \in FinalizeEdges(F)
        /\ \A e \in FinalizeEdges(F) : \E f \in F : e = Flagged(Told(f))
    BY <1>1
  <1> HIDE DEF Told, all, Flagged
  <1>5. ASSUME NEW f \in F
        PROVE  \E e \in FinalizeEdges(F) : e.direction = f.direction /\ e.of = f.of
    BY <1>2, <1>3, <1>4
  <1>6. ASSUME NEW e \in FinalizeEdges(F)
        PROVE  \E f \in F :
              /\ e.direction = f.direction /\ e.of = f.of
              /\ e.status = Aggregate(AddEdge(f.direction, f.of)).status
              /\ e.conflicting = Aggregate(AddEdge(f.direction, f.of)).conflicting
    <2>1. PICK f \in F : e = Flagged(Told(f))
      BY <1>4
    <2>2. e.direction = Told(f).direction /\ e.of = Told(f).of /\ e.status = Told(f).status
          /\ e.conflicting = Told(f).conflicting
      BY <1>3, <2>1
    <2>3. /\ e.direction = f.direction /\ e.of = f.of
          /\ e.status = Aggregate(AddEdge(f.direction, f.of)).status
          /\ e.conflicting = Aggregate(AddEdge(f.direction, f.of)).conflicting
      BY <1>2, <2>2
    <2>. QED BY <2>3
  <1>. QED BY <1>5, <1>6

---------------------------------------------------------------------------
(* max() over claims has a result.                                         *)
LEMMA NewestClaim ==
  ASSUME NEW C, IsFiniteSet(C), C # {}, \A c \in C : c.as_of \in Nat /\ c.place \in Nat
  PROVE  Latest(C) \in C /\ \A f \in C : f.as_of <= Latest(C).as_of
PROOF
  <1> DEFINE Better(e) == {f \in C : \/ f.as_of > e.as_of
                                    \/ (f.as_of = e.as_of /\ f.place < e.place)}
             sizes_ == {Cardinality(Better(e)) : e \in C}
  <1>1. ASSUME NEW e \in C
        PROVE  Better(e) \subseteq C /\ IsFiniteSet(Better(e)) /\ Cardinality(Better(e)) \in Nat
    <2>1. Better(e) \subseteq C
      OBVIOUS
    <2>2. IsFiniteSet(Better(e))
      BY <2>1, FS_Subset
    <2>. QED BY <2>1, <2>2, FS_CardinalityType
  <1>2. sizes_ \subseteq Nat /\ sizes_ # {}
    BY <1>1
  <1>3. PICK n \in sizes_ : \A m \in sizes_ : n <= m
    BY <1>2, LeastNumber
  <1>4. PICK e \in C : \A f \in C : Cardinality(Better(e)) <= Cardinality(Better(f))
    BY <1>3
  <1>5. ASSUME NEW f \in Better(e) PROVE FALSE
    <2>1. f \in C /\ (f.as_of > e.as_of \/ (f.as_of = e.as_of /\ f.place < e.place))
      BY <1>5
    <2>2. /\ e.as_of \in Nat /\ e.place \in Nat /\ f.as_of \in Nat /\ f.place \in Nat
      BY <2>1
    <2>3. ASSUME NEW g \in Better(f) PROVE g \in Better(e)
      <3>1. /\ g \in C /\ g.as_of \in Nat /\ g.place \in Nat
            /\ g.as_of > f.as_of \/ (g.as_of = f.as_of /\ g.place < f.place)
        BY <2>3
      <3>. QED BY <2>1, <2>2, <3>1
    <2>4. f \notin Better(f)
      BY <2>2
    <2> HIDE DEF Better
    <2>5. Better(f) \subseteq Better(e) /\ Better(f) # Better(e)
      BY <1>5, <2>3, <2>4
    <2>6. /\ Cardinality(Better(f)) <= Cardinality(Better(e))
          /\ Cardinality(Better(f)) # Cardinality(Better(e))
      BY <1>1, <2>5, FS_Subset
    <2>7. Cardinality(Better(e)) <= Cardinality(Better(f))
      BY <1>4, <2>1
    <2>8. Cardinality(Better(e)) \in Nat /\ Cardinality(Better(f)) \in Nat
      BY <1>1, <2>1
    <2>. QED BY <2>6, <2>7, <2>8
  <1>6. ASSUME NEW f \in C PROVE f.as_of <= e.as_of /\ (f.as_of = e.as_of => e.place <= f.place)
    <2>1. /\ e.as_of \in Nat /\ e.place \in Nat /\ f.as_of \in Nat /\ f.place \in Nat
      OBVIOUS
    <2>2. ~(f.as_of > e.as_of) /\ ~(f.as_of = e.as_of /\ f.place < e.place)
      BY <1>5
    <2>. QED BY <2>1, <2>2
  <1> DEFINE Good(x) == \A f \in C : f.as_of <= x.as_of /\ (f.as_of = x.as_of => x.place <= f.place)
  <1>7. Latest(C) = CHOOSE x \in C : Good(x)
    BY DEF Latest
  <1>8. Good(e)
    BY <1>6
  <1> HIDE DEF Good
  <1>9. Latest(C) \in C /\ Good(Latest(C))
    BY <1>7, <1>8
  <1>. QED BY <1>9 DEF Good

RelatedInv ==
  /\ lake \subseteq SourceDocument /\ IsFiniteSet(lake) /\ query \in Query
  /\ ~answered => edges = {}
  /\ answered => edges = {e \in FinalizeEdges(EdgesFound) :
                            query.statuses = {} \/ e.status \in query.statuses}

LEMMA ImageFinite ==
  ASSUME NEW S, IsFiniteSet(S), NEW g, NEW T, T = {g[x] : x \in S}, DOMAIN g = S, g \in [S -> T]
  PROVE  IsFiniteSet(T)
PROOF
  <1>1. g \in Surjection(S, T)
    BY DEF Surjection
  <1>. QED BY <1>1, FS_Surjection

LEMMA CollectedFinite ==
  ASSUME RelatedInv
  PROVE  IsFiniteSet(Collected)
PROOF
  <1> DEFINE g == [doc \in lake |-> Row(doc)]
  <1>1. Rows = {g[doc] : doc \in lake} /\ DOMAIN g = lake
    BY DEF Rows
  <1>2. g \in [lake -> Rows]
    BY DEF Rows
  <1> HIDE DEF g
  <1>3. IsFiniteSet(Rows)
    BY <1>1, <1>2, ImageFinite DEF RelatedInv
  <1>4. Collected \subseteq Rows
    BY DEF Collected
  <1>. QED BY <1>3, <1>4, FS_Subset

(* The evidence for an edge: a record for every document that speaks of    *)
(* it.                                                                     *)
LEMMA EvidenceOf ==
  ASSUME RelatedInv, NEW e, Asked(e), Wanted # Nobody
  PROVE  LET evidence == AddEdge(e.direction, e.of)
         IN  /\ IsFiniteSet(evidence)
             /\ \A v \in evidence :
                  /\ v.status \in Statuses /\ v.as_of \in Nat /\ v.place \in Nat
                  /\ \E doc \in Reached : Honest(doc, e, v)
             /\ \A doc \in Reached : \/ ~Affirms(doc, e) /\ ~Denies(doc, e) /\ ~Configures(doc, e)
                                     \/ \E v \in evidence : Honest(doc, e, v)
PROOF
  <1> DEFINE Speakers == {r \in Collected : Spoken(r, e.direction, e.of) # {}}
             Said(row) == FirstSpoken(row, e.direction, e.of)
             Place(row) == Cardinality({other \in Collected : Ahead(other, row)})
             g == [row \in Speakers |-> [status |-> Said(row).status, as_of |-> Said(row).as_of,
                                         place |-> Place(row)]]
             evidence == AddEdge(e.direction, e.of)
  <1>1. evidence = {g[row] : row \in Speakers} /\ DOMAIN g = Speakers
    BY DEF AddEdge
  <1>2. g \in [Speakers -> evidence]
    BY DEF AddEdge
  <1>3. \A row \in Speakers : /\ g[row].status = Said(row).status
                              /\ g[row].as_of = Said(row).as_of /\ g[row].place = Place(row)
    OBVIOUS
  <1>4. IsFiniteSet(Collected) /\ Speakers \subseteq Collected
    BY CollectedFinite
  <1>5. ASSUME NEW row PROVE Place(row) \in Nat
    <2>1. {other \in Collected : Ahead(other, row)} \subseteq Collected
      OBVIOUS
    <2>2. IsFiniteSet({other \in Collected : Ahead(other, row)})
      BY <1>4, <2>1, FS_Subset
    <2>. QED BY <2>2, FS_CardinalityType
  <1>6. \A doc \in Reached : doc \in SourceDocument
    BY DEF Reached, RelatedInv
  <1>7. \A doc \in Reached : Row(doc) \in Speakers => Honest(doc, e, Said(Row(doc)))
    BY <1>6, Verdict
  <1>8. \A doc \in Reached : Row(doc) \in Speakers
                             \/ (~Affirms(doc, e) /\ ~Denies(doc, e) /\ ~Configures(doc, e))
    BY <1>6, Searched, Verdict
  <1>9. \A row \in Speakers : \E doc \in Reached : row = Row(doc)
    BY <1>4, Searched
  <1> HIDE DEF Speakers, Said, Place, g, evidence
  <1>10. IsFiniteSet(evidence)
    <2>1. IsFiniteSet(Speakers)
      BY <1>4, FS_Subset
    <2>. QED BY <1>1, <1>2, <2>1, ImageFinite
  <1>11. \A doc, v, w : v.status = w.status /\ v.as_of = w.as_of =>
                        (Honest(doc, e, v) <=> Honest(doc, e, w))
    BY DEF Honest
  <1>12. ASSUME NEW v \in evidence
         PROVE  /\ v.status \in Statuses /\ v.as_of \in Nat /\ v.place \in Nat
                /\ \E doc \in Reached : Honest(doc, e, v)
    <2>1. PICK row \in Speakers : v = g[row]
      BY <1>1
    <2>2. PICK doc \in Reached : row = Row(doc)
      BY <1>9
    <2>3. Honest(doc, e, v)
      BY <1>3, <1>7, <1>11, <2>1, <2>2
    <2>4. v.place \in Nat
      BY <1>3, <1>5, <2>1
    <2>. QED BY <2>3, <2>4 DEF Honest
  <1>13. ASSUME NEW doc \in Reached, Row(doc) \in Speakers
         PROVE  \E v \in evidence : Honest(doc, e, v)
    <2>1. g[Row(doc)] \in evidence
      BY <1>1, <1>13
    <2>2. Honest(doc, e, g[Row(doc)])
      BY <1>3, <1>7, <1>11, <1>13
    <2>. QED BY <2>1, <2>2
  <1>. QED BY <1>8, <1>10, <1>12, <1>13 DEF evidence

LEMMA RelatedInitHolds == RelatedInit => RelatedInv
PROOF
  <1> SUFFICES ASSUME RelatedInit PROVE RelatedInv
    OBVIOUS
  <1>1. PICK q \in Questions : lake = q[1] /\ query = q[2]
    BY DEF RelatedInit
  <1>2. lake \subseteq SourceDocument /\ IsFiniteSet(lake) /\ query \in Query
    BY <1>1, QuestionsAssumption
  <1>. QED BY <1>2 DEF RelatedInit, RelatedInv

LEMMA RelatedStep == RelatedInv /\ [Answer]_relatedVars => RelatedInv'
PROOF
  <1> SUFFICES ASSUME RelatedInv, [Answer]_relatedVars PROVE RelatedInv'
    OBVIOUS
  <1>1. lake' = lake /\ query' = query
    BY DEF Answer, relatedVars
  <1>2. Rows' = Rows
    BY <1>1 DEF Rows
  <1>3. Wanted' = Wanted /\ Incoming' = Incoming /\ Outgoing' = Outgoing
    BY <1>1 DEF Wanted, Incoming, Outgoing
  <1>4. \A row : Found(row)' = Found(row)
    BY <1>1, <1>3 DEF Found, Typed, InScope
  <1>5. Collected' = Collected
    BY <1>2, <1>3, <1>4 DEF Collected
  <1>6. \A r : Matched(r)' = Matched(r)
    BY <1>1, <1>3 DEF Matched, About, TypeCompatible
  <1>7. EdgesFound' = EdgesFound
    BY <1>5, <1>6 DEF EdgesFound
  <1>8. \A a, b : Ahead(a, b)' <=> Ahead(a, b)
    BY <1>4 DEF Ahead
  <1>9. \A row, d, of : /\ Spoken(row, d, of)' = Spoken(row, d, of)
                        /\ FirstSpoken(row, d, of)' = FirstSpoken(row, d, of)
    <2>1. \A row, d, of : Spoken(row, d, of)' = Spoken(row, d, of)
      BY <1>6 DEF Spoken
    <2>. QED BY <2>1 DEF FirstSpoken
  <1>10. \A d, of : AddEdge(d, of)' = AddEdge(d, of)
    BY <1>5, <1>8, <1>9 DEF AddEdge
  <1>11. FinalizeEdges(EdgesFound)' = FinalizeEdges(EdgesFound)
    BY <1>7, <1>10 DEF FinalizeEdges, Configured
  <1>12. CASE Answer
    BY <1>1, <1>11, <1>12 DEF RelatedInv, Answer
  <1>13. CASE UNCHANGED relatedVars
    BY <1>1, <1>11, <1>13 DEF RelatedInv, relatedVars
  <1>. QED BY <1>12, <1>13

LEMMA RelatedAlways == RelatedSpec => []RelatedInv
  BY RelatedInitHolds, RelatedStep, PTL DEF RelatedSpec

LEMMA AnswerIsExact == RelatedInv => RelatedExactly
PROOF
  <1> SUFFICES ASSUME RelatedInv, answered, query.statuses = {} PROVE RelatedExactly
    BY DEF RelatedExactly
  <1> DEFINE known == UNION {{EdgeOf(Relationships(doc)[i]) : i \in DOMAIN Relationships(doc)} :
                               doc \in lake}
             Told == {[direction |-> e.direction, of |-> e.of] : e \in edges}
             Asks(doc, e) == \E i \in DOMAIN Relationships(doc) :
               LET r == Relationships(doc)[i]
               IN  EdgeOf(r) = e.of /\ Asked(e) /\ Fits(r, e)
             True == {e \in [direction : {"incoming", "outgoing"}, of : known] :
                        Wanted # Nobody /\ \E doc \in Reached : Asks(doc, e)}
  <1>1. edges = FinalizeEdges(EdgesFound)
    BY DEF RelatedInv
  <1>2. Told = EdgesFound
    <2>1. \A e \in EdgesFound : e = [direction |-> e.direction, of |-> e.of]
      BY EdgesAreAsked
    <2>2. ASSUME NEW x \in Told PROVE x \in EdgesFound
      <3>1. PICK e \in edges : x = [direction |-> e.direction, of |-> e.of]
        OBVIOUS
      <3>2. PICK f \in EdgesFound : e.direction = f.direction /\ e.of = f.of
        BY <1>1, Finalized
      <3>. QED BY <2>1, <3>1, <3>2
    <2>3. ASSUME NEW x \in EdgesFound PROVE x \in Told
      <3>1. PICK e \in edges : e.direction = x.direction /\ e.of = x.of
        BY <1>1, Finalized
      <3>. QED BY <2>1, <3>1
    <2>. QED BY <2>2, <2>3
  <1>3. EdgesFound \subseteq True
    <2>1. ASSUME NEW e \in EdgesFound PROVE e \in True
      <3>1. /\ Wanted # Nobody /\ Asked(e)
            /\ e = [direction |-> e.direction, of |-> e.of]
        BY EdgesAreAsked
      <3>2. PICK doc \in Reached : \E i \in DOMAIN Relationships(doc) :
              EdgeOf(Relationships(doc)[i]) = e.of /\ e.direction \in Matched(Relationships(doc)[i])
        BY EdgesAreAsked
      <3>3. PICK i \in DOMAIN Relationships(doc) :
              EdgeOf(Relationships(doc)[i]) = e.of /\ e.direction \in Matched(Relationships(doc)[i])
        BY <3>2
      <3>4. Asks(doc, e)
        BY <3>3, MatchedMeans
      <3>5. e.direction \in {"incoming", "outgoing"}
        BY <3>1 DEF Asked
      <3>6. e.of \in known
        BY <3>3 DEF Reached
      <3> HIDE DEF Asks, known
      <3>. QED BY <3>1, <3>4, <3>5, <3>6
    <2>. QED BY <2>1
  <1>4. True \subseteq EdgesFound
    <2>1. ASSUME NEW e \in True PROVE e \in EdgesFound
      <3>1. PICK doc \in Reached : Asks(doc, e)
        OBVIOUS
      <3>2. PICK i \in DOMAIN Relationships(doc) :
              EdgeOf(Relationships(doc)[i]) = e.of /\ Asked(e) /\ Fits(Relationships(doc)[i], e)
        BY <3>1
      <3>3. e.direction \in Matched(Relationships(doc)[i])
        BY <3>2, MatchedMeans
      <3>4. Row(doc).relationships = Relationships(doc)
        BY DEF Row
      <3>5. Spoken(Row(doc), e.direction, e.of) # {}
        BY <3>2, <3>3, <3>4 DEF Spoken
      <3>6. Row(doc) \in Collected
        BY <3>5, Searched
      <3>7. e = [direction |-> e.direction, of |-> e.of]
        <4> HIDE DEF known
        <4>. QED OBVIOUS
      <3>. QED BY <3>2, <3>3, <3>4, <3>6, <3>7 DEF EdgesFound
    <2>. QED BY <2>1
  <1>5. Told = True
    BY <1>2, <1>3, <1>4
  <1>6. RelatedExactly
    <2>1. ASSUME NEW e \in [direction : {"incoming", "outgoing"}, of : known], NEW doc \in lake
          PROVE  Asks(doc, e) <=>
            \E i \in DOMAIN Relationships(doc) :
              LET r == Relationships(doc)[i]
                  end == IF e.direction = "incoming" THEN [name |-> r.target, type |-> r.target_type]
                         ELSE [name |-> r.source, type |-> r.source_type]
              IN  /\ EdgeOf(r) = e.of
                  /\ Key(end.name) = Key(query.name)
                  /\ query.type = Anything \/ end.type \in {Anything, query.type}
                  /\ query.direction \in {"both", e.direction}
                  /\ query.types = {} \/ r.type \in query.types
      <3>1. e.direction \in {"incoming", "outgoing"}
        <4> HIDE DEF known
        <4>. QED OBVIOUS
      <3>2. ASSUME NEW r, EdgeOf(r) = e.of
            PROVE  Asked(e) /\ Fits(r, e) <=>
              LET end == IF e.direction = "incoming" THEN [name |-> r.target, type |-> r.target_type]
                         ELSE [name |-> r.source, type |-> r.source_type]
              IN  /\ Key(end.name) = Key(query.name)
                  /\ query.type = Anything \/ end.type \in {Anything, query.type}
                  /\ query.direction \in {"both", e.direction}
                  /\ query.types = {} \/ r.type \in query.types
        <4>1. e.of[1] = Key(r.source) /\ e.of[2] = r.type /\ e.of[3] = Key(r.target)
          BY <3>2 DEF EdgeOf
        <4>2. query.direction \in {"both", "incoming", "outgoing"}
          BY DEF RelatedInv, Query
        <4>3. CASE e.direction = "incoming"
          BY <3>2, <4>1, <4>2, <4>3 DEF Asked, Fits, Incoming, Outgoing, Wanted
        <4>4. CASE e.direction = "outgoing"
          BY <3>2, <4>1, <4>2, <4>4 DEF Asked, Fits, Incoming, Outgoing, Wanted
        <4>. QED BY <3>1, <4>3, <4>4
      <3>. QED BY <3>2
    <2>. QED BY <1>5, <2>1 DEF RelatedExactly, Reached, Wanted
  <1>. QED BY <1>6

(* What aggregate makes of evidence.                                       *)
LEMMA Aggregated ==
  ASSUME NEW E, IsFiniteSet(E),
         \A v \in E : v.status \in Statuses /\ v.as_of \in Nat /\ v.place \in Nat
  PROVE  LET status == Aggregate(E).status
         IN  /\ status = "current" <=> \E v \in E : v.status = "current"
             /\ status # "current" /\ status \in Affirming \union Denying =>
                  \E v \in E : /\ v.status = status
                              /\ \A w \in E : w.status \in Affirming \union Denying =>
                                   w.as_of <= v.as_of
             /\ status \in {"proposed", "not_merged", "discussed"} =>
                  \A v \in E : v.status \notin Affirming \union Denying
             /\ Aggregate(E).conflicting <=> /\ \E v \in E : v.status \in Affirming
                                            /\ \E v \in E : v.status \in Denying
PROOF
  <1> DEFINE found == {v.status : v \in E}
             claims == {v \in E : v.status \in Affirming \union Denying}
             status == Aggregate(E).status
  <1>1. /\ status = IF "current" \in found THEN "current"
                    ELSE IF claims # {} THEN Latest(claims).status ELSE Unclaimed(found)
        /\ Aggregate(E).conflicting <=>
             found \intersect Affirming # {} /\ found \intersect Denying # {}
    BY DEF Aggregate
  <1>2. claims # {} => /\ Latest(claims) \in claims
                       /\ \A f \in claims : f.as_of <= Latest(claims).as_of
    <2>1. claims \subseteq E
      OBVIOUS
    <2>2. IsFiniteSet(claims)
      BY <2>1, FS_Subset
    <2> HIDE DEF claims
    <2>. QED BY <2>1, <2>2, NewestClaim
  <1>3. Unclaimed(found) \in {"proposed", "not_merged", "discussed"}
    BY DEF Unclaimed
  <1>4. /\ "current" \in found <=> \E v \in E : v.status = "current"
        /\ claims # {} <=> \E v \in E : v.status \in Affirming \union Denying
        /\ found \intersect Affirming # {} <=> \E v \in E : v.status \in Affirming
        /\ found \intersect Denying # {} <=> \E v \in E : v.status \in Denying
    OBVIOUS
  <1>5. claims # {} /\ "current" \notin found =>
          /\ status = Latest(claims).status /\ status # "current"
          /\ status \in Affirming \union Denying
          /\ Latest(claims) \in E
          /\ \A w \in E : w.status \in Affirming \union Denying =>
               w.as_of <= Latest(claims).as_of
    BY <1>1, <1>2
  <1> HIDE DEF found, status, claims
  <1>6. "current" \notin {"proposed", "not_merged", "discussed"}
    OBVIOUS
  <1>7. \A x \in {"proposed", "not_merged", "discussed"} : x \notin Affirming \union Denying
    BY DEF Affirming, Denying
  <1>8. "current" \in Affirming
    BY DEF Affirming
  <1>9. CASE "current" \in found
    BY <1>1, <1>4, <1>6, <1>9 DEF status
  <1>10. CASE "current" \notin found /\ claims # {}
    BY <1>1, <1>4, <1>5, <1>7, <1>10 DEF status
  <1>11. CASE "current" \notin found /\ claims = {}
    BY <1>1, <1>3, <1>4, <1>6, <1>7, <1>11 DEF status
  <1>. QED BY <1>9, <1>10, <1>11

LEMMA AnswerIsJustified == RelatedInv => StatusJustified
PROOF
  <1> SUFFICES ASSUME RelatedInv, NEW e \in edges
      PROVE  /\ e.status = "current" <=> \E doc \in Reached : Configures(doc, e)
             /\ e.status = "claimed" =>
                  \E doc \in Reached :
                    /\ Affirms(doc, e)
                    /\ \A d \in Reached : Denies(d, e) => ~(StatementTime(d) > StatementTime(doc))
             /\ e.status \in Denying =>
                  \E doc \in Reached :
                    /\ Denies(doc, e)
                    /\ \A d \in Reached : Affirms(d, e) => ~(StatementTime(d) > StatementTime(doc))
             /\ e.status \in {"proposed", "not_merged", "discussed"} =>
                  ~\E doc \in Reached : Affirms(doc, e) \/ Denies(doc, e)
             /\ e.conflicting <=> /\ \E doc \in Reached : Affirms(doc, e)
                                  /\ \E doc \in Reached : Denies(doc, e)
    BY DEF StatusJustified
  <1>1. PICK f \in EdgesFound :
          /\ e.direction = f.direction /\ e.of = f.of
          /\ e.status = Aggregate(AddEdge(f.direction, f.of)).status
          /\ e.conflicting = Aggregate(AddEdge(f.direction, f.of)).conflicting
    BY Finalized DEF RelatedInv
  <1>2. Wanted # Nobody /\ Asked(e)
    BY <1>1, EdgesAreAsked DEF Asked
  <1> DEFINE E == AddEdge(e.direction, e.of)
  <1>3. e.status = Aggregate(E).status /\ e.conflicting = Aggregate(E).conflicting
    BY <1>1
  <1>4. /\ IsFiniteSet(E)
        /\ \A v \in E : v.status \in Statuses /\ v.as_of \in Nat /\ v.place \in Nat
        /\ \A v \in E : \E doc \in Reached : Honest(doc, e, v)
        /\ \A doc \in Reached : \/ ~Affirms(doc, e) /\ ~Denies(doc, e) /\ ~Configures(doc, e)
                                \/ \E v \in E : Honest(doc, e, v)
    BY <1>2, EvidenceOf
  <1> HIDE DEF E
  <1>5. /\ e.status = "current" <=> \E v \in E : v.status = "current"
        /\ e.status # "current" /\ e.status \in Affirming \union Denying =>
             \E v \in E : /\ v.status = e.status
                         /\ \A w \in E : w.status \in Affirming \union Denying =>
                              w.as_of <= v.as_of
        /\ e.status \in {"proposed", "not_merged", "discussed"} =>
             \A v \in E : v.status \notin Affirming \union Denying
        /\ e.conflicting <=> /\ \E v \in E : v.status \in Affirming
                             /\ \E v \in E : v.status \in Denying
    BY <1>3, <1>4, Aggregated
  <1>6. /\ (\E v \in E : v.status = "current") <=> \E doc \in Reached : Configures(doc, e)
        /\ (\E v \in E : v.status \in Affirming) <=> \E doc \in Reached : Affirms(doc, e)
        /\ (\E v \in E : v.status \in Denying) <=> \E doc \in Reached : Denies(doc, e)
    BY <1>4 DEF Honest
  <1>7. ASSUME NEW v \in E, v.status # "current", e.status # "current",
               \A w \in E : w.status \in Affirming \union Denying => w.as_of <= v.as_of
        PROVE  \E doc \in Reached :
                 /\ Honest(doc, e, v)
                 /\ \A d \in Reached : Affirms(d, e) \/ Denies(d, e) =>
                      ~(StatementTime(d) > StatementTime(doc))
    <2>1. PICK doc \in Reached : Honest(doc, e, v)
      BY <1>4
    <2>2. v.as_of = StatementTime(doc) /\ v.as_of \in Nat
      BY <1>7, <2>1 DEF Honest
    <2>3. ASSUME NEW d \in Reached, Affirms(d, e) \/ Denies(d, e)
          PROVE  ~(StatementTime(d) > StatementTime(doc))
      <3>1. PICK w \in E : Honest(d, e, w)
        BY <1>4, <2>3
      <3>2. w.status # "current"
        BY <1>5, <1>7
      <3>3. w.status \in Affirming \union Denying /\ w.as_of = StatementTime(d) /\ w.as_of \in Nat
        BY <2>3, <3>1, <3>2 DEF Honest
      <3>4. w.as_of <= v.as_of
        BY <1>7, <3>3
      <3>. QED BY <2>2, <3>3, <3>4
    <2>. QED BY <2>1, <2>3
  <1>8. ASSUME e.status = "claimed"
        PROVE  \E doc \in Reached :
                 /\ Affirms(doc, e)
                 /\ \A d \in Reached : Denies(d, e) => ~(StatementTime(d) > StatementTime(doc))
    <2>1. e.status # "current" /\ e.status \in Affirming
      BY <1>8 DEF Affirming
    <2>2. PICK v \in E : /\ v.status = e.status
                         /\ \A w \in E : w.status \in Affirming \union Denying =>
                              w.as_of <= v.as_of
      BY <1>5, <2>1
    <2>3. PICK doc \in Reached :
                 /\ Honest(doc, e, v)
                 /\ \A d \in Reached : Affirms(d, e) \/ Denies(d, e) =>
                      ~(StatementTime(d) > StatementTime(doc))
      BY <1>7, <2>1, <2>2
    <2>4. Affirms(doc, e)
      BY <2>1, <2>2, <2>3 DEF Honest
    <2>. QED BY <2>3, <2>4
  <1>9. ASSUME e.status \in Denying
        PROVE  \E doc \in Reached :
                 /\ Denies(doc, e)
                 /\ \A d \in Reached : Affirms(d, e) => ~(StatementTime(d) > StatementTime(doc))
    <2>1. e.status # "current"
      BY <1>9 DEF Denying
    <2>2. PICK v \in E : /\ v.status = e.status
                         /\ \A w \in E : w.status \in Affirming \union Denying =>
                              w.as_of <= v.as_of
      BY <1>5, <1>9, <2>1
    <2>3. PICK doc \in Reached :
                 /\ Honest(doc, e, v)
                 /\ \A d \in Reached : Affirms(d, e) \/ Denies(d, e) =>
                      ~(StatementTime(d) > StatementTime(doc))
      BY <1>7, <2>1, <2>2
    <2>4. Denies(doc, e)
      BY <1>9, <2>2, <2>3 DEF Honest
    <2>. QED BY <2>3, <2>4
  <1>10. e.status \in {"proposed", "not_merged", "discussed"} =>
           ~\E doc \in Reached : Affirms(doc, e) \/ Denies(doc, e)
    BY <1>5, <1>6
  <1>. QED BY <1>5, <1>6, <1>8, <1>9, <1>10

(* find_related leaves out no relationship of a document it may look at,   *)
(* and reports none that no such document states, for every lake, every    *)
(* spelling of names and every query.                                      *)
THEOREM RelatedIsExact == RelatedSpec => []RelatedExactly
  BY RelatedAlways, AnswerIsExact, PTL

(* The status it gives is one the documents bear out, whatever the parser  *)
(* and the model reported, in whatever order, and however old it is.       *)
THEOREM StatusIsJustified == RelatedSpec => []StatusJustified
  BY RelatedAlways, AnswerIsJustified, PTL

-------------------------------------------------------------------------------
(* The cutting of documents.                                               *)

---------------------------------------------------------------------------
(* The least and the greatest of a set of positions are what they say.     *)
LEMMA LeastIsLeast ==
  ASSUME NEW S, S \subseteq Nat, S # {}
  PROVE  Least(S) \in S /\ \A y \in S : Least(S) <= y
PROOF
  <1>1. \E x \in S : \A y \in S : x <= y
    BY LeastNumber
  <1>. QED BY <1>1 DEF Least

LEMMA GreatestIsGreatest ==
  ASSUME NEW S, NEW N \in Nat, S \subseteq 0..N, S # {}
  PROVE  Greatest(S) \in S /\ \A y \in S : y <= Greatest(S)
PROOF
  <1> DEFINE T == {N - g : g \in S}
  <1>1. T \subseteq Nat /\ T # {}
    <2>1. ASSUME NEW g \in S PROVE N - g \in Nat
      <3>1. g \in 0..N
        OBVIOUS
      <3>. QED BY <3>1
    <2>2. PICK g \in S : TRUE
      OBVIOUS
    <2>. QED BY <2>1, <2>2
  <1>2. PICK x \in T : \A y \in T : x <= y
    <2>. HIDE DEF T
    <2>. QED BY <1>1, LeastNumber
  <1>3. PICK g \in S : x = N - g
    OBVIOUS
  <1>4. ASSUME NEW h \in S PROVE h <= g
    <2>1. N - h \in T
      OBVIOUS
    <2>2. N - g <= N - h
      BY <1>2, <1>3, <2>1
    <2>. QED BY <2>2
  <1>. QED BY <1>4 DEF Greatest

(* Moving a set of positions does not change how many they are.            *)
Shift(S, a) == {i + a : i \in S}

LEMMA Moved ==
  ASSUME NEW S, S \subseteq Int, IsFiniteSet(S), NEW a \in Int
  PROVE  IsFiniteSet(Shift(S, a)) /\ Cardinality(Shift(S, a)) = Cardinality(S)
PROOF
  <1> DEFINE T == Shift(S, a)
  <1>. USE DEF Shift
  <1> DEFINE f == [i \in S |-> i + a]
  <1>1. f \in Injection(S, T)
    BY DEF Injection, IsInjective
  <1>2. f \in Surjection(S, T)
    BY DEF Surjection
  <1>3. f \in Bijection(S, T)
    BY <1>1, <1>2 DEF Bijection
  <1>. QED BY <1>3, FS_Bijection DEF ExistsBijection

---------------------------------------------------------------------------
(* Runs of ink and their pieces.                                           *)

LEMMA InkRange ==
  ASSUME NEW text \in Seq(Chars)
  PROVE  /\ Ink(text) \subseteq 1..Len(text) /\ 1..Len(text) \subseteq Nat
         /\ Ink(text) \subseteq 0..Len(text)
         /\ 0 \notin Ink(text) /\ Len(text) + 1 \notin Ink(text)
         /\ IsFiniteSet(Ink(text))
         /\ \A n : Pieces(text, n) \subseteq Ink(text)
PROOF
  <1>1. Ink(text) \subseteq 1..Len(text) /\ Len(text) \in Nat
    BY DEF Ink
  <1>2. IsFiniteSet(1..Len(text))
    BY <1>1, FS_Interval
  <1>3. IsFiniteSet(Ink(text))
    BY <1>1, <1>2, FS_Subset
  <1>4. \A n : Pieces(text, n) \subseteq Ink(text)
    BY DEF Pieces
  <1>. QED BY <1>1, <1>3, <1>4

(* The run a position is in has a beginning, and only one.                 *)
LEMMA RunStart ==
  ASSUME NEW text \in Seq(Chars), NEW i \in Ink(text)
  PROVE  \E j \in 1..i : j - 1 \notin Ink(text) /\ j..i \subseteq Ink(text)
PROOF
  <1> DEFINE S == {j \in 1..i : j..i \subseteq Ink(text)}
  <1>1. i \in 1..Len(text)
    BY InkRange
  <1>2. i \in S
    BY <1>1
  <1>3. PICK j \in S : \A m \in S : j <= m
    <2>1. S \subseteq Nat
      OBVIOUS
    <2>. HIDE DEF S
    <2>. QED BY <1>2, <2>1, LeastNumber
  <1>4. j - 1 \notin Ink(text)
    <2>1. SUFFICES ASSUME j - 1 \in Ink(text) PROVE FALSE
      OBVIOUS
    <2>2. j - 1 \in 1..i /\ j \in 1..i
      BY <2>1, InkRange
    <2>3. (j - 1)..i \subseteq Ink(text)
      BY <2>1, <2>2
    <2>4. j - 1 \in S
      BY <2>2, <2>3
    <2>. QED BY <1>3, <2>2, <2>4
  <1>. QED BY <1>3, <1>4

LEMMA RunUnique ==
  ASSUME NEW text, NEW i \in Nat, NEW j \in 1..i, NEW m \in 1..i,
         j - 1 \notin Ink(text), j..i \subseteq Ink(text),
         m - 1 \notin Ink(text), m..i \subseteq Ink(text)
  PROVE  j = m
PROOF
  <1>1. ASSUME j < m PROVE FALSE
    <2>1. m - 1 \in j..i
      BY <1>1
    <2>. QED BY <2>1
  <1>2. ASSUME m < j PROVE FALSE
    <2>1. j - 1 \in m..i
      BY <1>2
    <2>. QED BY <2>1
  <1>. QED BY <1>1, <1>2

(* Where a run begins a piece begins, whatever the length.                 *)
LEMMA RunBegins ==
  ASSUME NEW text \in Seq(Chars), NEW n \in Nat \ {0}, NEW j \in Ink(text), j - 1 \notin Ink(text)
  PROVE  j \in Pieces(text, n)
PROOF
  <1>1. j \in 1..Len(text)
    BY InkRange
  <1>2. j..j \subseteq Ink(text) /\ j \in 1..j /\ 0 \in 0..j /\ j - j = 0 * n
    BY <1>1
  <1>. QED BY <1>2 DEF Pieces

(* A distance of so many whole pieces.                                     *)
Multiple(d, n) == \E k \in Nat : d = k * n

(* From one piece of a run to the others it is a multiple of the length.   *)
LEMMA PieceStep ==
  ASSUME NEW text \in Seq(Chars), NEW n \in Nat \ {0}, NEW m \in Pieces(text, n),
         NEW i \in Nat, m <= i, m..i \subseteq Ink(text)
  PROVE  i \in Pieces(text, n) <=> Multiple(i - m, n)
PROOF
  <1>1. m \in Ink(text) /\ m \in 1..Len(text) /\ i \in Ink(text) /\ i \in 1..Len(text)
    BY InkRange
  <1>2. PICK j \in 1..m : j - 1 \notin Ink(text) /\ j..m \subseteq Ink(text)
                          /\ \E k \in 0..m : m - j = k * n
    BY DEF Pieces
  <1>3. PICK h \in 0..m : m - j = h * n
    BY <1>2
  <1>4. j..i \subseteq Ink(text) /\ j \in 1..i /\ h \in Nat
    <2>1. \A x \in j..i : x \in j..m \/ x \in m..i
      BY <1>1
    <2>. QED BY <1>1, <1>2, <2>1
  <1>5. ASSUME i \in Pieces(text, n) PROVE \E k \in Nat : i - m = k * n
    <2>1. PICK g \in 1..i : g - 1 \notin Ink(text) /\ g..i \subseteq Ink(text)
                            /\ \E k \in 0..i : i - g = k * n
      BY <1>5 DEF Pieces
    <2>2. g = j
      BY <1>2, <1>4, <2>1, RunUnique
    <2>3. PICK k \in 0..i : i - j = k * n
      BY <2>1, <2>2
    <2>4. i - m = k * n - h * n /\ k * n - h * n = (k - h) * n
      BY <1>3, <2>3, <1>1
    <2>5. k - h \in Nat
      <3>1. SUFFICES ASSUME k < h PROVE FALSE
        BY <1>4
      <3>2. (h - k) * n >= n
        <4>1. h - k \in Nat /\ h - k >= 1
          BY <3>1, <1>4
        <4>. QED BY <4>1
      <3>3. (h - k) * n = h * n - k * n
        BY <1>4
      <3>. QED BY <1>1, <1>3, <2>3, <3>2, <3>3
    <2>. QED BY <2>4, <2>5
  <1>6. ASSUME NEW k \in Nat, i - m = k * n PROVE i \in Pieces(text, n)
    <2>1. i - j = (k + h) * n
      BY <1>1, <1>3, <1>6, <1>4
    <2>2. k + h \in 0..i
      <3>1. (k + h) * n >= k + h
        BY <1>4
      <3>. QED BY <2>1, <3>1, <1>1, <1>4
    <2>. QED BY <1>1, <1>2, <1>4, <2>1, <2>2 DEF Pieces
  <1>. QED BY <1>5, <1>6 DEF Multiple

---------------------------------------------------------------------------
(* Tokens.                                                                 *)

LEMMA TokensMonotone ==
  ASSUME NEW text \in Seq(Chars), NEW from \in Int, NEW to \in Int, NEW low \in Int, NEW high \in Int,
         \A i \in Ink(text) : from <= i /\ i <= to => low <= i /\ i <= high
  PROVE  /\ Tokens(text, from, to) \in Nat /\ Tokens(text, low, high) \in Nat
         /\ Tokens(text, from, to) <= Tokens(text, low, high)
PROOF
  <1> DEFINE A == Pieces(text, CharsPerToken) \intersect from..to
             B == Pieces(text, CharsPerToken) \intersect low..high
  <1>1. IsFiniteSet(B)
    BY FS_Subset, InkRange
  <1>2. A \subseteq B
    <2>1. ASSUME NEW i \in A PROVE i \in B
      <3>1. i \in Ink(text) /\ i \in from..to /\ i \in Nat
        BY InkRange
      <3>. QED BY <3>1
    <2>. QED BY <2>1
  <1>. HIDE DEF A, B
  <1>3. IsFiniteSet(A) /\ Cardinality(A) <= Cardinality(B)
    BY <1>1, <1>2, FS_Subset
  <1>4. Cardinality(A) \in Nat /\ Cardinality(B) \in Nat
    BY <1>1, <1>3, FS_CardinalityType
  <1>. QED BY <1>3, <1>4 DEF Tokens, A, B

(* The same ink counts the same.                                           *)
LEMMA TokensSame ==
  ASSUME NEW text \in Seq(Chars), NEW from \in Int, NEW to \in Int, NEW low \in Int, NEW high \in Int,
         \A i \in Ink(text) : from <= i /\ i <= to <=> low <= i /\ i <= high
  PROVE  Tokens(text, from, to) = Tokens(text, low, high)
  BY TokensMonotone

(* The next word is a word or the end, and no word is in between.          *)
LEMMA AfterIs ==
  ASSUME NEW text \in Seq(Chars), NEW s, NEW w \in Nat, w <= Len(text)
  PROVE  LET next == After(text, s, w)
         IN  /\ next \in WordStarts(text, s) \union {Len(text) + 1}
             /\ next \in Nat /\ w < next /\ next <= Len(text) + 1
             /\ \A j \in WordStarts(text, s) : w < j => next <= j
PROOF
  <1> DEFINE S == {j \in WordStarts(text, s) : j > w} \union {Len(text) + 1}
  <1>1. S \subseteq Nat /\ S # {} /\ \A j \in S : w < j /\ j <= Len(text) + 1
    BY InkRange DEF WordStarts
  <1>2. Least(S) \in S /\ \A j \in S : Least(S) <= j
    <2>. HIDE DEF S
    <2>. QED BY <1>1, LeastIsLeast
  <1>3. After(text, s, w) = Least(S)
    BY DEF After
  <1> DEFINE next == Least(S)
  <1>. HIDE DEF next
  <1>4. next \in S /\ \A j \in S : next <= j
    BY <1>2 DEF next
  <1>5. /\ next \in WordStarts(text, s) \union {Len(text) + 1}
        /\ next \in Nat /\ w < next /\ next <= Len(text) + 1
        /\ \A j \in WordStarts(text, s) : w < j => next <= j
    BY <1>1, <1>4
  <1>. QED BY <1>3, <1>5 DEF next

(* Products keep an order.                                                 *)
LEMMA TimesOrder ==
  ASSUME NEW p \in Nat, NEW q \in Nat, NEW c \in Nat, p <= q
  PROVE  p * c <= q * c /\ p * c \in Nat /\ q * c \in Nat
PROOF
  <1> DEFINE d == q - p
  <1>1. d \in Nat /\ q = p + d
    OBVIOUS
  <1>. HIDE DEF d
  <1>2. d * c \in Nat /\ p * c \in Nat /\ (p + d) * c = p * c + d * c
    BY <1>1
  <1>. QED BY <1>1, <1>2

LEMMA FirstNumbers ==
  ASSUME NEW n \in Nat \ {0}
  PROVE  IsFiniteSet(0..(n - 1)) /\ Cardinality(0..(n - 1)) = n
  BY FS_Interval

(* A word begins with its first token.                                     *)
LEMMA WordsArePieces ==
  ASSUME NEW text \in Seq(Chars), NEW s, s.size \in Nat \ {0}
  PROVE  /\ CharsPerToken \in Nat \ {0} /\ s.size * CharsPerToken \in Nat \ {0}
         /\ WordStarts(text, s) \subseteq Pieces(text, CharsPerToken)
PROOF
  <1> DEFINE c == CharsPerToken
             size == s.size
  <1>1. c \in Nat \ {0} /\ size \in Nat \ {0} /\ size * c \in Nat \ {0}
    <2>1. c \in Nat /\ size \in Nat /\ c >= 1 /\ size >= 1
      BY ChunkAssumption
    <2>2. size * c >= 1
      BY <2>1
    <2>. QED BY <2>1, <2>2
  <1>2. ASSUME NEW w \in WordStarts(text, s) PROVE w \in Pieces(text, c)
    <2>0. w \in Ink(text) /\ w \in Nat /\ w >= 1 /\ w \in Pieces(text, size * c)
      BY InkRange DEF WordStarts
    <2>1. PICK j \in 1..w : j - 1 \notin Ink(text) /\ j..w \subseteq Ink(text)
                            /\ \E k \in 0..w : w - j = k * (size * c)
      BY <2>0 DEF Pieces
    <2>2. PICK k \in 0..w : w - j = k * (size * c)
      BY <2>1
    <2>3. w - j = (k * size) * c /\ k * size \in Nat
      BY <2>2, <1>1
    <2>4. k * size <= (k * size) * c
      <3> DEFINE q == k * size
      <3>1. q \in Nat /\ c \in Nat /\ c >= 1
        BY <2>3, <1>1
      <3>. HIDE DEF q
      <3>2. q <= q * c
        BY <3>1
      <3>. QED BY <3>2 DEF q
    <2>5. k * size \in 0..w
      BY <2>0, <2>3, <2>4
    <2>. QED BY <2>0, <2>1, <2>3, <2>5 DEF Pieces
  <1>. QED BY <1>1, <1>2

(* A word that was split is no longer than a chunk.                        *)
LEMMA WordFits ==
  ASSUME NEW text \in Seq(Chars), NEW s, s.size \in Nat \ {0}, NEW w \in WordStarts(text, s)
  PROVE  Tokens(text, w, After(text, s, w) - 1) <= s.size
PROOF
  <1> DEFINE c == CharsPerToken
             size == s.size
             next == After(text, s, w)
             A == Pieces(text, c) \intersect w..(next - 1)
  <1>1. c \in Nat \ {0} /\ size \in Nat \ {0} /\ size * c \in Nat \ {0}
    <2>1. c \in Nat /\ size \in Nat /\ c >= 1 /\ size >= 1
      BY ChunkAssumption
    <2>2. size * c >= 1
      BY <2>1
    <2>. QED BY <2>1, <2>2
  <1>2. w \in Ink(text) /\ w \in Nat /\ w <= Len(text) /\ w >= 1
    BY InkRange DEF WordStarts
  <1>3. next \in Nat /\ \A j \in WordStarts(text, s) : w < j => next <= j
    BY <1>2, AfterIs
  <1>. HIDE DEF next
  <1>4. w \in Pieces(text, size * c)
    BY DEF WordStarts
  <1>5. w \in Pieces(text, c)
    BY <1>1, WordsArePieces
  <1>6. ASSUME NEW i \in A PROVE \E q \in 0..(size - 1) : i = w + q * c
    <2>1. i \in Ink(text) /\ i \in Pieces(text, c) /\ i \in Nat /\ w <= i /\ i < next /\ i \in 1..Len(text)
      BY <1>2, <1>3, InkRange
    <2>2. w..i \subseteq Ink(text)
      <3>1. PICK j \in 1..i : j - 1 \notin Ink(text) /\ j..i \subseteq Ink(text)
        BY <2>1, RunStart
      <3>2. j \in Ink(text) /\ j \in Nat
        BY <3>1, <2>1
      <3>3. j \in WordStarts(text, s)
        BY <1>1, <3>1, <3>2, RunBegins DEF WordStarts
      <3>4. ~(w < j)
        <4>1. ~(next <= j)
          BY <2>1, <3>1, <1>3
        <4>. QED BY <4>1, <1>3, <3>3
      <3>. QED BY <3>1, <3>2, <3>4, <1>2, <2>1
    <2>7. Multiple(i - w, c)
      BY <1>1, <1>5, <2>1, <2>2, PieceStep
    <2>3. PICK q \in Nat : i - w = q * c
      BY <2>7 DEF Multiple
    <2>4. q < size
      <3>1. SUFFICES ASSUME q >= size PROVE FALSE
        BY <1>1
      <3>2. q * c >= size * c
        <4>1. q \in Nat /\ size \in Nat /\ c \in Nat /\ size <= q
          BY <3>1, <1>1
        <4>. HIDE DEF c, size
        <4>. QED BY <4>1, TimesOrder
      <3> DEFINE v == w + size * c
      <3>3. v \in Nat /\ w < v /\ v <= i
        BY <1>1, <1>2, <2>1, <2>3, <3>2
      <3>4. w..v \subseteq Ink(text)
        BY <2>2, <3>3, <2>1
      <3>5. v - w = 1 * (size * c) /\ 1 \in Nat
        BY <1>1, <1>2
      <3>. HIDE DEF v
      <3> DEFINE n == size * c
      <3>8. n \in Nat \ {0} /\ w \in Pieces(text, n) /\ v - w = 1 * n
        BY <1>1, <1>4, <3>5
      <3>. HIDE DEF n
      <3>9. v \in Pieces(text, n)
        <4>1. Multiple(v - w, n)
          BY <3>8, 1 \in Nat, Zenon DEF Multiple
        <4>2. w <= v
          BY <3>3, <1>2
        <4>3. v \in Pieces(text, n) <=> Multiple(v - w, n)
          BY <3>8, <3>3, <3>4, <4>2, PieceStep
        <4>. QED BY <4>1, <4>3
      <3>6. v \in Pieces(text, size * c)
        BY <3>9 DEF n
      <3>7. next <= v
        BY <3>6, <3>3, <1>3 DEF WordStarts
      <3>. QED BY <3>7, <3>3, <2>1, <1>3
    <2>. QED BY <2>1, <2>3, <2>4, <1>1, <1>2
  <1> DEFINE f == [i \in A |-> CHOOSE q \in 0..(size - 1) : i = w + q * c]
  <1>7. \A i \in A : f[i] \in 0..(size - 1) /\ i = w + f[i] * c
    BY <1>6
  <1>8. f \in [A -> 0..(size - 1)]
    BY <1>7
  <1>. HIDE DEF f, A
  <1>9. f \in Injection(A, 0..(size - 1))
    BY <1>7, <1>8 DEF Injection, IsInjective
  <1>10. IsFiniteSet(0..(size - 1)) /\ Cardinality(0..(size - 1)) = size
    <2>. HIDE DEF size
    <2>. QED BY <1>1, FirstNumbers
  <1>11. Cardinality(A) <= size
    BY <1>9, <1>10, FS_Injection
  <1>. QED BY <1>11 DEF Tokens, A, next

---------------------------------------------------------------------------
(* Slices.                                                                 *)

LEMMA SliceIs ==
  ASSUME NEW text \in Seq(Chars), NEW a \in Nat, NEW b \in Nat, a <= b, b <= Len(text)
  PROVE  /\ Slice(text, a, b) \in Seq(Chars) /\ Len(Slice(text, a, b)) = b - a
         /\ \A i \in 1..(b - a) : Slice(text, a, b)[i] = text[i + a]
         /\ \A i \in Int : i \in Ink(Slice(text, a, b)) <=> i \in 1..(b - a) /\ i + a \in Ink(text)
PROOF
  <1> DEFINE c == Slice(text, a, b)
  <1>1. \A i \in (a + 1)..b : text[i] \in Chars
    OBVIOUS
  <1>2. /\ c \in Seq(Chars) /\ Len(c) = IF a + 1 <= b THEN b - (a + 1) + 1 ELSE 0
        /\ \A i \in 1..(b - (a + 1) + 1) : c[i] = text[a + 1 + i - 1]
    BY <1>1, SubSeqProperties DEF Slice
  <1>. HIDE DEF c
  <1>3. c \in Seq(Chars) /\ Len(c) = b - a /\ \A i \in 1..(b - a) : c[i] = text[i + a]
    BY <1>2
  <1>4. ASSUME NEW i \in Int PROVE i \in Ink(c) <=> i \in 1..(b - a) /\ i + a \in Ink(text)
    BY <1>3 DEF Ink
  <1>. QED BY <1>3, <1>4 DEF c

(* The text c is what the text holds from a to b.                          *)
PartOf(c, text, a, b) ==
  c \in Seq(Chars) /\ Len(c) = b - a /\ \A i \in 1..(b - a) : c[i] = text[i + a]

LEMMA SliceIsPart ==
  ASSUME NEW text \in Seq(Chars), NEW a \in Nat, NEW b \in Nat, a <= b, b <= Len(text)
  PROVE  PartOf(Slice(text, a, b), text, a, b)
  BY SliceIs DEF PartOf

(* A slice that begins at a word, or at white space, has the pieces of the *)
(* text it is taken from.                                                  *)
LEMMA SlicePieces ==
  ASSUME NEW text \in Seq(Chars), NEW a \in Nat, NEW b \in Nat, a <= b, b <= Len(text),
         NEW n \in Nat \ {0}, a + 1 \in Ink(text) => a + 1 \in Pieces(text, n),
         NEW i \in 1..(b - a)
  PROVE  i \in Pieces(Slice(text, a, b), n) <=> i + a \in Pieces(text, n)
PROOF
  <1> DEFINE c == Slice(text, a, b)
  <1>1. /\ c \in Seq(Chars) /\ Len(c) = b - a
        /\ \A h \in Int : h \in Ink(c) <=> h \in 1..(b - a) /\ h + a \in Ink(text)
    BY SliceIs
  <1>. HIDE DEF c
  <1>2. CASE i \notin Ink(c)
    <2>1. i + a \notin Ink(text)
      BY <1>1, <1>2
    <2>. QED BY <1>1, <1>2, <2>1, InkRange DEF c
  <1>3. CASE i \in Ink(c)
    <2>1. PICK j \in 1..i : j - 1 \notin Ink(c) /\ j..i \subseteq Ink(c)
      BY <1>1, <1>3, RunStart
    <2>2. j \in Ink(c) /\ j \in Nat /\ j <= i /\ i \in Nat /\ j \in 1..(b - a) /\ j - 1 \in Int
      BY <2>1
    <2>3. j \in Pieces(c, n)
      BY <1>1, <2>1, <2>2, RunBegins
    <2>4. j + a \in Pieces(text, n)
      <3>1. j + a \in Ink(text)
        BY <1>1, <2>2
      <3>2. CASE j = 1
        BY <3>1, <3>2
      <3>3. CASE j # 1
        <4>1. j - 1 \in 1..(b - a) /\ (j - 1) + a = (j + a) - 1
          BY <2>2, <3>3
        <4>2. (j - 1) + a \notin Ink(text)
          BY <1>1, <2>1, <2>2, <4>1
        <4>3. (j + a) - 1 \notin Ink(text)
          BY <4>1, <4>2
        <4>. QED BY <3>1, <4>3, RunBegins
      <3>. QED BY <3>2, <3>3
    <2>5. (j + a)..(i + a) \subseteq Ink(text)
      <3>1. ASSUME NEW h \in (j + a)..(i + a) PROVE h \in Ink(text)
        <4>1. h - a \in j..i /\ h - a \in Int /\ (h - a) + a = h
          BY <2>2
        <4>2. h - a \in Ink(c)
          BY <2>1, <4>1
        <4>3. (h - a) + a \in Ink(text)
          BY <1>1, <4>1, <4>2
        <4>. QED BY <4>1, <4>3
      <3>. QED BY <3>1
    <2>6. i \in Pieces(c, n) <=> Multiple(i - j, n)
      BY <1>1, <2>1, <2>2, <2>3, PieceStep
    <2>7. i + a \in Pieces(text, n) <=> Multiple((i + a) - (j + a), n)
      <3>1. i + a \in Nat /\ j + a <= i + a
        BY <2>2
      <3> DEFINE x == i + a
                 y == j + a
      <3>2. x \in Nat /\ y <= x /\ y \in Pieces(text, n) /\ y..x \subseteq Ink(text)
        BY <2>4, <2>5, <3>1
      <3>. HIDE DEF x, y
      <3>3. x \in Pieces(text, n) <=> Multiple(x - y, n)
        BY <3>2, PieceStep
      <3>. QED BY <3>3 DEF x, y
    <2>8. (i + a) - (j + a) = i - j
      BY <2>2
    <2>. QED BY <2>6, <2>7, <2>8 DEF c
  <1>. QED BY <1>2, <1>3

(* What is counted in a part of such a slice is what is counted there.     *)
Count(text, n, from, to) == Cardinality(Pieces(text, n) \intersect from..to)

LEMMA SliceCount ==
  ASSUME NEW text \in Seq(Chars), NEW a \in Nat, NEW b \in Nat, a <= b, b <= Len(text),
         NEW n \in Nat \ {0}, a + 1 \in Ink(text) => a + 1 \in Pieces(text, n),
         NEW to \in Nat, to <= b - a
  PROVE  Count(Slice(text, a, b), n, 1, to) = Count(text, n, a + 1, a + to)
PROOF
  <1> DEFINE c == Slice(text, a, b)
             A == Pieces(c, n) \intersect 1..to
             B == Pieces(text, n) \intersect (a + 1)..(a + to)
  <1>1. ASSUME NEW i \in 1..to PROVE i \in Pieces(c, n) <=> i + a \in Pieces(text, n)
    <2>1. i \in 1..(b - a)
      OBVIOUS
    <2>. QED BY <2>1, SlicePieces
  <1>. HIDE DEF c
  <1>2. IsFiniteSet(1..to) /\ A \subseteq 1..to /\ A \subseteq Int
    BY FS_Interval
  <1>3. IsFiniteSet(A)
    <2>. HIDE DEF A
    <2>. QED BY <1>2, FS_Subset
  <1>4. B = Shift(A, a)
    <2>. USE DEF Shift
    <2>1. ASSUME NEW h \in B PROVE h \in {i + a : i \in A}
      <3>1. h - a \in 1..to /\ (h - a) + a = h
        OBVIOUS
      <3>2. h - a \in A
        BY <1>1, <3>1
      <3>. QED BY <3>1, <3>2
    <2>2. ASSUME NEW i \in A PROVE i + a \in B
      <3>1. i \in 1..to /\ i + a \in (a + 1)..(a + to)
        OBVIOUS
      <3>. QED BY <1>1, <3>1
    <2>. QED BY <2>1, <2>2
  <1>. HIDE DEF A, B
  <1>5. Cardinality(B) = Cardinality(A)
    <2>1. a \in Int
      OBVIOUS
    <2>. QED BY <1>2, <1>3, <1>4, <2>1, Moved
  <1>. QED BY <1>5 DEF A, B, c, Count

(* A slice from the ink of some words to that of others holds just them.   *)
Holds(c, text, s, a, w, v, stop) ==
  /\ Tokens(c, 1, Len(c)) = Tokens(text, w, stop - 1)
  /\ v - a \in WordStarts(c, s)
  /\ Cardinality({j \in WordStarts(c, s) : j < v - a})
       = Cardinality({j \in WordStarts(text, s) : w <= j /\ j < v})
  /\ Tokens(c, 1, v - a - 1) = Tokens(text, w, v - 1)

LEMMA SpanFits ==
  ASSUME NEW text \in Seq(Chars), NEW s, s.size \in Nat \ {0}, NEW a \in Nat, NEW b \in Nat,
         a < b, b <= Len(text),
         NEW w \in WordStarts(text, s), NEW v \in WordStarts(text, s), NEW stop \in Nat,
         w <= v, v <= b, b < stop, a < w,
         \A i \in Ink(text) : a < i => w <= i,
         \A i \in Ink(text) : i < stop => i <= b
  PROVE  Holds(Slice(text, a, b), text, s, a, w, v, stop)
PROOF
  <1> DEFINE c == Slice(text, a, b)
             n == s.size * CharsPerToken
             d == v - a - 1
             t == b - a
  <1>1. CharsPerToken \in Nat \ {0} /\ n \in Nat \ {0}
    BY WordsArePieces
  <1>2. /\ w \in Ink(text) /\ w \in Nat /\ v \in Ink(text) /\ v \in Nat
        /\ w \in Pieces(text, CharsPerToken)
        /\ w \in Pieces(text, n) /\ v \in Pieces(text, n)
        /\ \A m : Pieces(text, m) \subseteq Ink(text)
        /\ Ink(text) \subseteq Nat
    BY InkRange, WordsArePieces DEF WordStarts
  <1>3. a + 1 \in Ink(text) => a + 1 = w
    BY <1>2
  <1>4. d \in Nat /\ d <= b - a /\ t \in Nat /\ t <= b - a /\ a + d = v - 1 /\ a + t = b
    BY <1>2
  <1>5. c \in Seq(Chars) /\ Len(c) = t
    BY SliceIs
  <1>. HIDE DEF c, n, d, t
  <1>6. /\ Tokens(c, 1, d) = Tokens(text, a + 1, a + d)
        /\ Tokens(c, 1, t) = Tokens(text, a + 1, a + t)
    <2>1. a + 1 \in Ink(text) => a + 1 \in Pieces(text, CharsPerToken)
      BY <1>2, <1>3
    <2>2. Count(Slice(text, a, b), CharsPerToken, 1, d) = Count(text, CharsPerToken, a + 1, a + d)
      BY <1>1, <1>4, <2>1, SliceCount
    <2>3. Count(Slice(text, a, b), CharsPerToken, 1, t) = Count(text, CharsPerToken, a + 1, a + t)
      BY <1>1, <1>4, <2>1, SliceCount
    <2>. QED BY <2>2, <2>3 DEF Tokens, Count, c
  <1>7. Tokens(text, a + 1, a + d) = Tokens(text, w, v - 1)
    <2>1. \A i \in Ink(text) : a + 1 <= i /\ i <= v - 1 <=> w <= i /\ i <= v - 1
      BY <1>2
    <2>2. a + 1 \in Int /\ v - 1 \in Int /\ w \in Int
      BY <1>2
    <2>. QED BY <1>4, <2>1, <2>2, TokensSame
  <1>8. Tokens(text, a + 1, a + t) = Tokens(text, w, stop - 1)
    <2>1. \A i \in Ink(text) : a + 1 <= i /\ i <= b <=> w <= i /\ i <= stop - 1
      BY <1>2
    <2>2. a + 1 \in Int /\ b \in Int /\ w \in Int /\ stop - 1 \in Int
      BY <1>2
    <2>. QED BY <1>4, <2>1, <2>2, TokensSame
  <1>9. v - a \in WordStarts(c, s)
    <2> DEFINE i == v - a
    <2>1. i \in 1..(b - a) /\ i + a = v
      BY <1>2
    <2>. HIDE DEF i
    <2>2. a + 1 \in Ink(text) => a + 1 \in Pieces(text, n)
      BY <1>2, <1>3
    <2>3. i \in Pieces(Slice(text, a, b), n) <=> i + a \in Pieces(text, n)
      BY <1>1, <2>1, <2>2, SlicePieces
    <2>. QED BY <1>2, <2>1, <2>3 DEF WordStarts, n, i, c
  <1>10. Cardinality({j \in WordStarts(c, s) : j < v - a})
           = Cardinality({j \in WordStarts(text, s) : w <= j /\ j < v})
    <2>1. a + 1 \in Ink(text) => a + 1 \in Pieces(text, n)
      BY <1>2, <1>3
    <2>2. Count(Slice(text, a, b), n, 1, d) = Count(text, n, a + 1, a + d)
      BY <1>1, <1>4, <2>1, SliceCount
    <2>3. {j \in WordStarts(c, s) : j < v - a} = Pieces(c, n) \intersect 1..d
      <3>1. \A j \in Pieces(c, n) : j \in Nat /\ 1 <= j
        BY <1>5, InkRange
      <3>2. \A j \in Nat : j < v - a <=> j <= d
        BY <1>2 DEF d
      <3>3. d \in Nat
        BY <1>4
      <3>. QED BY <3>1, <3>2, <3>3 DEF WordStarts, n
    <2>4. {j \in WordStarts(text, s) : w <= j /\ j < v} = Pieces(text, n) \intersect (a + 1)..(a + d)
      <3>1. \A j \in Pieces(text, n) : w <= j /\ j < v <=> a + 1 <= j /\ j <= v - 1
        BY <1>2
      <3>2. \A j \in Pieces(text, n) : j \in Nat
        BY <1>2
      <3>3. \A j \in Pieces(text, n) : w <= j /\ j < v <=> j \in (a + 1)..(a + d)
        BY <1>2, <1>4, <3>1, <3>2
      <3>. QED BY <3>3 DEF WordStarts, n
    <2>. QED BY <2>2, <2>3, <2>4 DEF c, Count
  <1>11. Tokens(c, 1, Len(c)) = Tokens(text, w, stop - 1)
    BY <1>5, <1>6, <1>8
  <1>12. Tokens(c, 1, v - a - 1) = Tokens(text, w, v - 1)
    BY <1>6, <1>7 DEF d
  <1>. QED BY <1>9, <1>10, <1>11, <1>12 DEF c, Holds

(* Reading on from where the text read ends.                               *)
Continues(text, from, e, a, b) ==
  LET c == Slice(text, a, b)
  IN  /\ SubSeq(text, from + 1, e) \o Slice(c, e - a, Len(c)) = SubSeq(text, from + 1, b)
      /\ a = e => SubSeq(text, from + 1, e) \o c = SubSeq(text, from + 1, b)

LEMMA ReadOn ==
  ASSUME NEW text \in Seq(Chars), NEW from \in Nat, NEW e \in Nat, NEW a \in Nat, NEW b \in Nat,
         from <= e, a <= e, e < b, b <= Len(text)
  PROVE  Continues(text, from, e, a, b)
PROOF
  <1> DEFINE c == Slice(text, a, b)
  <1>1. c \in Seq(Chars) /\ Len(c) = b - a /\ \A i \in 1..(b - a) : c[i] = text[i + a]
    <2>1. a <= b
      OBVIOUS
    <2>. QED BY <2>1, SliceIs
  <1>. HIDE DEF c
  <1>2. SubSeq(text, from + 1, e) \o SubSeq(text, e + 1, b) = SubSeq(text, from + 1, b)
    <2>1. from + 1 \in 1..(Len(text) + 1) /\ e \in (from + 1 - 1)..Len(text) /\ b \in e..Len(text)
      OBVIOUS
    <2>. QED BY <2>1, ConcatAdjacentSubSeq
  <1>3. Slice(c, e - a, Len(c)) = SubSeq(text, e + 1, b)
    <2> DEFINE x == Slice(c, e - a, Len(c))
               y == Slice(text, e, b)
    <2>1. x \in Seq(Chars) /\ Len(x) = b - e /\ \A i \in 1..(b - e) : x[i] = c[i + (e - a)]
      <3> DEFINE p == e - a
                 q == Len(c)
      <3>1. p \in Nat /\ q \in Nat /\ p <= q /\ q <= Len(c) /\ q - p = b - e
        BY <1>1
      <3>. HIDE DEF p, q
      <3>2. Slice(c, p, q) \in Seq(Chars) /\ Len(Slice(c, p, q)) = q - p
            /\ \A i \in 1..(q - p) : Slice(c, p, q)[i] = c[i + p]
        BY <1>1, <3>1, SliceIs
      <3>. QED BY <3>1, <3>2 DEF p, q
    <2>2. y \in Seq(Chars) /\ Len(y) = b - e /\ \A i \in 1..(b - e) : y[i] = text[i + e]
      <3>1. e <= b
        OBVIOUS
      <3>. QED BY <3>1, SliceIs
    <2>. HIDE DEF x, y
    <2>3. \A i \in 1..(b - e) : x[i] = y[i]
      <3>1. ASSUME NEW i \in 1..(b - e) PROVE x[i] = y[i]
        <4>1. i + (e - a) \in 1..(b - a) /\ (i + (e - a)) + a = i + e
          OBVIOUS
        <4>. QED BY <1>1, <2>1, <2>2, <4>1
      <3>. QED BY <3>1
    <2>4. x = y
      BY <2>1, <2>2, <2>3, SeqEqual
    <2>. QED BY <2>4 DEF x, y, Slice
  <1>4. a = e => SubSeq(text, from + 1, e) \o c = SubSeq(text, from + 1, b)
    BY <1>2 DEF c, Slice
  <1>5. SubSeq(text, from + 1, e) \o Slice(c, e - a, Len(c)) = SubSeq(text, from + 1, b)
    BY <1>2, <1>3
  <1>. QED BY <1>4, <1>5 DEF c, Continues

---------------------------------------------------------------------------
(* What the code of the cutting keeps.                                     *)

(* The first word to be packed is the first one of the text.               *)
LEMMA FirstWord ==
  ASSUME NEW text \in Seq(Chars), NEW s, s.size \in Nat \ {0}
  PROVE  /\ Ink(text) = {} => After(text, s, 0) = Len(text) + 1
         /\ Ink(text) # {} => /\ After(text, s, 0) = Least(Ink(text))
                              /\ Least(Ink(text)) \in Ink(text)
                              /\ \A i \in Ink(text) : Least(Ink(text)) <= i
PROOF
  <1> DEFINE next == After(text, s, 0)
             low == Least(Ink(text))
  <1>1. /\ next \in WordStarts(text, s) \union {Len(text) + 1}
        /\ next \in Nat /\ 0 < next /\ next <= Len(text) + 1
        /\ \A j \in WordStarts(text, s) : 0 < j => next <= j
    <2>1. 0 \in Nat /\ 0 <= Len(text)
      OBVIOUS
    <2>. QED BY <2>1, AfterIs
  <1>2. WordStarts(text, s) \subseteq Ink(text) /\ Ink(text) \subseteq 1..Len(text)
    BY InkRange DEF WordStarts
  <1>. HIDE DEF next, low
  <1>3. Ink(text) = {} => next = Len(text) + 1
    BY <1>1, <1>2
  <1>4. ASSUME Ink(text) # {}
        PROVE  next = low /\ low \in Ink(text) /\ \A i \in Ink(text) : low <= i
    <2>1. Ink(text) \subseteq Nat
      BY <1>2
    <2>2. low \in Ink(text) /\ \A i \in Ink(text) : low <= i
      BY <1>4, <2>1, LeastIsLeast DEF low
    <2>3. low - 1 \notin Ink(text) /\ low \in 1..Len(text)
      BY <1>2, <2>2
    <2>4. s.size * CharsPerToken \in Nat \ {0}
      BY WordsArePieces
    <2>5. low \in WordStarts(text, s)
      BY <2>2, <2>3, <2>4, RunBegins DEF WordStarts
    <2>6. next <= low
      BY <1>1, <2>3, <2>5
    <2>7. next \in Ink(text)
      BY <1>1, <1>2, <2>3, <2>6
    <2>8. low <= next
      BY <2>2, <2>7
    <2>. QED BY <1>1, <2>2, <2>3, <2>6, <2>8
  <1>. QED BY <1>3, <1>4 DEF next, low

(* The words in hand: those from w on that come again, and the first one   *)
(* that is new, v.                                                         *)
InHand(text, s, w, v) ==
  /\ w \in WordStarts(text, s) \union {Len(text) + 1}
  /\ v \in WordStarts(text, s) \union {Len(text) + 1}
  /\ w <= v
  /\ v <= Len(text) => Tokens(text, w, After(text, s, v) - 1) <= s.size
  /\ Tokens(text, w, v - 1) <= s.overlap

ChunkRecord == [char_start : Nat, char_end : Nat, overlap_words : Nat,
                text : Seq(Chars), lines : Seq(Nat)]

(* What ChunksFit says of one chunk. *)
Fits1(c, s) ==
  /\ Tokens(c.text, 1, Len(c.text)) <= s.size
  /\ \E w \in WordStarts(c.text, s) :
       /\ Cardinality({j \in WordStarts(c.text, s) : j < w}) = c.overlap_words
       /\ Tokens(c.text, 1, w - 1) <= s.overlap

(* One chunk is a slice that ends with ink and fits.                       *)
Made(text, doc, s, c) ==
  /\ c.char_start < c.char_end /\ c.char_end \in Ink(text)
  /\ c.text = Slice(text, c.char_start, c.char_end)
  /\ c.lines = Lines(doc, c.char_start, c.char_end)
  /\ Fits1(c, s)

(* The chunks cover the text from its first word to the last one before v. *)
Linked(text, doc, s, list, v) ==
  /\ list \in Seq(ChunkRecord)
  /\ list = <<>> => v = After(text, s, 0)
  /\ list # <<>> => /\ list[1].char_start + 1 = After(text, s, 0)
                    /\ list[Len(list)].char_end < v
                    /\ \A i \in Ink(text) : i < v => i <= list[Len(list)].char_end
  /\ \A k \in 2..Len(list) : /\ list[k].char_start <= list[k - 1].char_end
                              /\ list[k - 1].char_end < list[k].char_end
  /\ \A k \in 1..Len(list) : Made(text, doc, s, list[k])

(* The text read is that of the chunks joined.                             *)
ReadSoFar(text, list, n, r) ==
  /\ n \in 0..Len(list)
  /\ n = 0 => r = <<>>
  /\ n # 0 => r = SubSeq(text, list[1].char_start + 1, list[n].char_end)

CutInv ==
  /\ document \in Documents /\ sizes \in Sizes
  /\ InHand(Text, sizes, first, fresh)
  /\ Linked(Text, document, sizes, chunks, fresh)
  /\ chunks = <<>> => first = fresh
  /\ ReadSoFar(Text, chunks, joined, read)

LEMMA TextsTyped ==
  ASSUME NEW doc \in Documents
  PROVE  /\ Heading(doc) \in Seq(Chars) /\ doc.body \in Seq(Chars)
         /\ CombinedText(doc) \in Seq(Chars)
         /\ Len(CombinedText(doc)) = Len(Heading(doc)) + Len(doc.body)
         /\ \A i \in 1..Len(Heading(doc)) : CombinedText(doc)[i] = Heading(doc)[i]
         /\ \A i \in 1..Len(doc.body) : CombinedText(doc)[Len(Heading(doc)) + i] = doc.body[i]
PROOF
  <1>1. doc.title \in Seq(Chars) /\ doc.body \in Seq(Chars) /\ Newline \in Chars
    BY ChunkAssumption
  <1>2. Heading(doc) \in Seq(Chars)
    BY <1>1 DEF Heading
  <1> DEFINE h == Heading(doc)
             b == doc.body
  <1>. HIDE DEF h, b
  <1>3. h \in Seq(Chars) /\ b \in Seq(Chars) /\ CombinedText(doc) = h \o b
    BY <1>1, <1>2 DEF CombinedText, h, b
  <1>4. /\ h \o b \in Seq(Chars) /\ Len(h \o b) = Len(h) + Len(b)
        /\ \A i \in 1..Len(h) : (h \o b)[i] = h[i]
        /\ \A i \in 1..Len(b) : (h \o b)[Len(h) + i] = b[i]
    BY <1>3
  <1>. QED BY <1>3, <1>4 DEF h, b

LEMMA LineOfNat ==
  ASSUME NEW body \in Seq(Chars), NEW p \in Int, NEW q \in Int, p <= q
  PROVE  LineOf(body, p) \in Nat /\ LineOf(body, q) \in Nat /\ LineOf(body, p) <= LineOf(body, q)
PROOF
  <1> DEFINE P == {i \in DOMAIN body : i <= p /\ body[i] = Newline}
             Q == {i \in DOMAIN body : i <= q /\ body[i] = Newline}
  <1>1. DOMAIN body = 1..Len(body) /\ IsFiniteSet(1..Len(body))
    BY FS_Interval
  <1>2. P \subseteq Q /\ Q \subseteq 1..Len(body)
    BY <1>1
  <1>. HIDE DEF P, Q
  <1>3. IsFiniteSet(Q)
    BY <1>1, <1>2, FS_Subset
  <1>4. IsFiniteSet(P) /\ Cardinality(P) <= Cardinality(Q)
    BY <1>2, <1>3, FS_Subset
  <1>5. Cardinality(P) \in Nat /\ Cardinality(Q) \in Nat
    BY <1>3, <1>4, FS_CardinalityType
  <1>. QED BY <1>4, <1>5 DEF LineOf, P, Q

(* The least ink of the body that a chunk has is there, when it ends in it. *)
LEMMA LinesAre ==
  ASSUME NEW doc \in Documents, NEW a \in Nat, NEW b \in Ink(CombinedText(doc)), a < b
  PROVE  LET offset == Len(Heading(doc))
         IN  /\ Lines(doc, a, b) \in Seq(Nat)
             /\ b <= offset => Lines(doc, a, b) = <<>>
             /\ b > offset => \E m \in Ink(doc.body) :
                  /\ a < m + offset /\ m + offset <= b /\ b - offset \in Ink(doc.body)
                  /\ \A i \in Ink(doc.body) : a < i + offset => m <= i
                  /\ Lines(doc, a, b) = <<LineOf(doc.body, m - 1), LineOf(doc.body, b - offset - 1)>>
PROOF
  <1> DEFINE offset == Len(Heading(doc))
             body == doc.body
             text == CombinedText(doc)
             from == IF a > offset THEN a - offset ELSE 0
             ink == {i \in Ink(body) : i > from}
  <1>1. offset \in Nat /\ body \in Seq(Chars) /\ text \in Seq(Chars)
        /\ Len(text) = offset + Len(body)
        /\ \A i \in 1..Len(body) : text[offset + i] = body[i]
    BY TextsTyped
  <1>. HIDE DEF offset, body, text
  <1>2. Ink(body) \subseteq 1..Len(body) /\ Ink(text) \subseteq 1..Len(text) /\ b \in Ink(text)
    BY <1>1, InkRange DEF text
  <1>3. from \in Nat /\ \A i \in Nat : i >= 1 => (i > from <=> a < i + offset)
    BY <1>1
  <1>. HIDE DEF from
  <1>4. CASE b <= offset
    <2>1. Lines(doc, a, b) = <<>>
      <3>1. ~(b > offset)
        BY <1>1, <1>2, <1>4
      <3>. QED BY <3>1 DEF Lines, offset
    <2>. QED BY <1>4, <2>1, <1>1, <1>2 DEF offset
  <1>5. CASE b > offset
    <2> DEFINE e == b - offset
    <2>1. e \in 1..Len(body) /\ offset + e = b
      BY <1>1, <1>2, <1>5
    <2>. HIDE DEF e
    <2>2. text[b] \notin Blank
      BY <1>2 DEF Ink
    <2>3. e \in Ink(body)
      BY <1>1, <2>1, <2>2 DEF Ink
    <2>4. e \in ink
      <3>1. e \in Nat /\ e >= 1 /\ a < e + offset
        BY <1>1, <2>1
      <3>2. e > from
        BY <1>3, <3>1
      <3>. QED BY <2>3, <3>2
    <2>5. ink \subseteq Nat /\ ink \subseteq Ink(body)
      BY <1>2
    <2> DEFINE m == Least(ink)
    <2>6. m \in ink /\ \A i \in ink : m <= i
      <3>. HIDE DEF ink
      <3>. QED BY <2>4, <2>5, LeastIsLeast
    <2>. HIDE DEF m
    <2>7. m \in Ink(body) /\ m \in Nat /\ m >= 1 /\ a < m + offset /\ m + offset <= b
      <3>1. m \in Ink(body) /\ m > from /\ m <= e
        BY <2>4, <2>6
      <3>2. m \in Nat /\ m >= 1
        BY <1>2, <3>1
      <3>3. a < m + offset
        BY <1>3, <3>1, <3>2
      <3>4. m + offset <= b
        BY <1>1, <2>1, <3>1, <3>2
      <3>. QED BY <3>1, <3>2, <3>3, <3>4
    <2>8. \A i \in Ink(body) : a < i + offset => m <= i
      BY <1>2, <1>3, <2>6
    <2>9. Lines(doc, a, b) = <<LineOf(body, m - 1), LineOf(body, b - offset - 1)>>
      BY <1>5 DEF Lines, offset, body, m, from
    <2>10. LineOf(body, m - 1) \in Nat /\ LineOf(body, b - offset - 1) \in Nat
      <3>1. m - 1 \in Int /\ b - offset - 1 \in Int
        BY <1>1, <1>2, <2>7
      <3>2. m - 1 <= b - offset - 1
        BY <1>1, <1>2, <2>7
      <3> DEFINE x == m - 1
                 y == b - offset - 1
      <3>. HIDE DEF x, y
      <3>3. x \in Int /\ y \in Int /\ x <= y
        BY <3>1, <3>2 DEF x, y
      <3>4. LineOf(body, x) \in Nat /\ LineOf(body, y) \in Nat
        BY <1>1, <3>3, LineOfNat
      <3>. QED BY <3>4 DEF x, y
    <2>11. Lines(doc, a, b) \in Seq(Nat)
      BY <2>9, <2>10
    <2>12. b - offset \in Ink(body)
      BY <2>3 DEF e
    <2>13. \E i \in Ink(body) :
             /\ a < i + offset /\ i + offset <= b /\ b - offset \in Ink(body)
             /\ \A h \in Ink(body) : a < h + offset => i <= h
             /\ Lines(doc, a, b) = <<LineOf(body, i - 1), LineOf(body, b - offset - 1)>>
      BY <2>7, <2>8, <2>9, <2>12
    <2>. QED BY <2>11, <2>13, <1>1, <1>2, <1>5 DEF offset, body
  <1>. QED BY <1>1, <1>2, <1>4, <1>5

---------------------------------------------------------------------------
(* One chunk.                                                              *)

LEMMA StateTyped ==
  ASSUME CutInv
  PROVE  /\ document \in Documents /\ Text \in Seq(Chars) /\ Text = CombinedText(document)
         /\ sizes \in Sizes /\ sizes.size \in Nat \ {0} /\ sizes.overlap \in Nat
         /\ sizes.overlap < sizes.size
         /\ Words = WordStarts(Text, sizes) /\ Words \subseteq Ink(Text)
         /\ Ink(Text) \subseteq 1..Len(Text) /\ IsFiniteSet(Ink(Text))
         /\ first \in Nat /\ fresh \in Nat /\ 1 <= first /\ first <= fresh
         /\ fresh <= Len(Text) => first \in Words /\ fresh \in Words
PROOF
  <1>1. document \in Documents /\ sizes \in Sizes
    BY DEF CutInv
  <1>2. Text \in Seq(Chars) /\ Text = CombinedText(document)
    BY <1>1, TextsTyped DEF Text
  <1>3. sizes.size \in Nat \ {0} /\ sizes.overlap \in Nat /\ sizes.overlap < sizes.size
    BY <1>1, ChunkAssumption
  <1>4. /\ Words = WordStarts(Text, sizes) /\ Words \subseteq Ink(Text)
        /\ Ink(Text) \subseteq 1..Len(Text) /\ IsFiniteSet(Ink(Text))
    BY <1>2, InkRange DEF Words, WordStarts
  <1>5. InHand(Text, sizes, first, fresh)
    BY DEF CutInv
  <1>6. /\ first \in Words \union {Len(Text) + 1} /\ fresh \in Words \union {Len(Text) + 1}
        /\ first <= fresh
    BY <1>4, <1>5 DEF InHand
  <1>7. \A w \in Words \union {Len(Text) + 1} : w \in Nat /\ 1 <= w /\ (w <= Len(Text) => w \in Words)
    BY <1>2, <1>4
  <1>8. first \in Nat /\ fresh \in Nat /\ 1 <= first
    BY <1>6, <1>7
  <1>9. ASSUME fresh <= Len(Text) PROVE first \in Words /\ fresh \in Words
    BY <1>2, <1>6, <1>7, <1>8, <1>9
  <1>. QED BY <1>1, <1>2, <1>3, <1>4, <1>6, <1>8, <1>9

(* A chunk ends at a word, or with the text, past the word that is new; up *)
(* to there it fits.                                                       *)
LEMMA StopIs ==
  ASSUME CutInv, fresh <= Len(Text)
  PROVE  /\ Stop \in Words \union {Len(Text) + 1} /\ Stop \in Nat /\ fresh < Stop
         /\ Stop <= Len(Text) + 1
         /\ Tokens(Text, first, Stop - 1) <= sizes.size
PROOF
  <1> DEFINE Full(j) == Tokens(Text, first, After(Text, sizes, j) - 1) > sizes.size
             S == {j \in Words : j >= fresh /\ j > first /\ Full(j)} \union {Len(Text) + 1}
  <1>1. /\ Text \in Seq(Chars) /\ sizes.size \in Nat \ {0}
        /\ Words = WordStarts(Text, sizes) /\ Words \subseteq Ink(Text)
        /\ Ink(Text) \subseteq 1..Len(Text)
        /\ first \in Nat /\ fresh \in Nat /\ 1 <= first /\ first <= fresh
        /\ first \in Words /\ fresh \in Words
    BY StateTyped
  <1>2. Tokens(Text, first, After(Text, sizes, fresh) - 1) <= sizes.size
    BY DEF CutInv, InHand
  <1>3. Stop = Least(S)
    BY DEF Stop
  <1>4. \A x, y \in Int : Tokens(Text, x, y) \in Nat
    <2>1. ASSUME NEW x \in Int, NEW y \in Int PROVE Tokens(Text, x, y) \in Nat
      BY <1>1, TokensMonotone
    <2>. QED BY <2>1
  <1>5. \A w \in Words : After(Text, sizes, w) \in Nat
    <2>1. ASSUME NEW w \in Words PROVE After(Text, sizes, w) \in Nat
      <3>1. w \in Nat /\ w <= Len(Text)
        BY <1>1
      <3>. QED BY <1>1, <3>1, AfterIs
    <2>. QED BY <2>1
  <1>6. ~Full(fresh)
    <2>1. After(Text, sizes, fresh) - 1 \in Int /\ first \in Int
      BY <1>1, <1>5
    <2>2. Tokens(Text, first, After(Text, sizes, fresh) - 1) \in Nat
      BY <1>4, <2>1
    <2>. QED BY <1>1, <1>2, <2>2
  <1>7. S \subseteq Nat /\ Len(Text) + 1 \in S
    BY <1>1
  <1>. HIDE DEF Full
  <1>8. Stop \in S /\ \A j \in S : Stop <= j
    <2>. HIDE DEF S
    <2>. QED BY <1>3, <1>7, LeastIsLeast
  <1>9. Stop \in Words \union {Len(Text) + 1} /\ Stop \in Nat /\ Stop <= Len(Text) + 1
    BY <1>1, <1>8
  <1>10. fresh < Stop
    <2>1. CASE Stop = Len(Text) + 1
      BY <1>1, <2>1
    <2>2. CASE Stop # Len(Text) + 1
      <3>1. Stop >= fresh /\ Full(Stop)
        BY <1>8, <2>2
      <3>2. Stop # fresh
        BY <1>6, <3>1
      <3>. QED BY <1>1, <1>9, <3>1, <3>2
    <2>. QED BY <2>1, <2>2
  (* The last word before the end is in no way in excess.                  *)
  <1>11. PICK p \in Words : p < Stop /\ \A j \in Words : j < Stop => j <= p
    <2> DEFINE B == {j \in Words : j < Stop}
    <2>1. B \subseteq 0..Len(Text) /\ fresh \in B /\ Len(Text) \in Nat
      BY <1>1, <1>10
    <2>2. Greatest(B) \in B /\ \A j \in B : j <= Greatest(B)
      <3>. HIDE DEF B
      <3>. QED BY <2>1, GreatestIsGreatest
    <2>. QED BY <2>2
  <1>12. p \in Nat /\ p <= Len(Text) /\ fresh <= p
    BY <1>1, <1>10, <1>11
  <1> DEFINE next == After(Text, sizes, p)
  <1>13. /\ next \in Words \union {Len(Text) + 1} /\ next \in Nat /\ p < next
         /\ next <= Len(Text) + 1 /\ \A j \in Words : p < j => next <= j
    BY <1>1, <1>12, AfterIs
  <1>. HIDE DEF next
  <1>14. next = Stop
    <2>1. next >= Stop
      <3>1. CASE next \in Words
        <4>1. ~(next <= p)
          BY <1>12, <1>13
        <4>. QED BY <1>9, <1>11, <1>13, <3>1, <4>1
      <3>2. CASE next = Len(Text) + 1
        BY <1>9, <3>2
      <3>. QED BY <1>13, <3>1, <3>2
    <2>2. next <= Stop
      <3>1. CASE Stop \in Words
        BY <1>11, <1>13, <3>1
      <3>2. CASE Stop = Len(Text) + 1
        BY <1>13, <3>2
      <3>. QED BY <1>9, <3>1, <3>2
    <2>. QED BY <1>9, <1>13, <2>1, <2>2
  <1>15. Tokens(Text, first, Stop - 1) <= sizes.size
    <2>1. CASE p = first
      <3>1. p = fresh
        BY <1>1, <1>12, <2>1
      <3>. QED BY <1>2, <1>14, <3>1 DEF next
    <2>2. CASE p # first
      <3>1. p \notin S
        <4>1. ~(Stop <= p)
          BY <1>9, <1>11, <1>12
        <4>. QED BY <1>8, <4>1
      <3>2. ~Full(p)
        <4>1. p > first /\ p >= fresh
          BY <1>1, <1>12, <2>2
        <4>. QED BY <1>11, <3>1, <4>1
      <3>3. ~(Tokens(Text, first, Stop - 1) > sizes.size)
        BY <1>14, <3>2 DEF Full, next
      <3>4. Tokens(Text, first, Stop - 1) \in Nat
        <4>1. first \in Int /\ Stop - 1 \in Int
          BY <1>1, <1>9
        <4>. QED BY <1>4, <4>1
      <3>. QED BY <1>1, <3>3, <3>4
    <2>. QED BY <2>1, <2>2
  <1>. QED BY <1>9, <1>10, <1>15

(* The words that come again leave room for the next one.                  *)
LEMMA NextFirstIs ==
  ASSUME CutInv, NEW stop \in Words, first < stop
  PROVE  InHand(Text, sizes, NextFirst(stop), stop)
PROOF
  <1> DEFINE Small(j) == Tokens(Text, j, stop - 1) <= sizes.overlap
             Beside(j) == Tokens(Text, j, After(Text, sizes, stop) - 1) <= sizes.size
             S == {j \in Words : first < j /\ j < stop /\ Small(j) /\ Beside(j)} \union {stop}
             next == NextFirst(stop)
  <1>1. /\ Text \in Seq(Chars) /\ sizes.size \in Nat \ {0} /\ sizes.overlap \in Nat
        /\ Words = WordStarts(Text, sizes) /\ Words \subseteq Ink(Text)
        /\ Ink(Text) \subseteq 1..Len(Text) /\ first \in Nat
    BY StateTyped
  <1>2. next = Least(S)
    BY DEF NextFirst
  <1>3. stop \in Nat
    BY <1>1
  <1>4. Small(stop)
    <2>1. \A i \in Pieces(Text, CharsPerToken) : i \notin stop..(stop - 1)
      BY <1>3
    <2>2. Pieces(Text, CharsPerToken) \intersect stop..(stop - 1) = {}
      BY <2>1
    <2>3. Tokens(Text, stop, stop - 1) = 0
      BY <2>2, FS_EmptySet, Zenon DEF Tokens
    <2>. QED BY <1>1, <2>3
  <1>5. Beside(stop)
    BY <1>1, WordFits
  <1>. HIDE DEF Small, Beside, next
  <1>6. next \in S
    <2>1. S \subseteq Nat /\ stop \in S
      BY <1>1, <1>3
    <2>. HIDE DEF S
    <2>. QED BY <1>2, <2>1, LeastIsLeast
  <1>7. next \in Words /\ next <= stop /\ Small(next) /\ Beside(next)
    BY <1>1, <1>3, <1>4, <1>5, <1>6
  <1>. QED BY <1>1, <1>7 DEF InHand, Small, Beside, next

(* Where the chunk begins: at its first word, or where the last one ended. *)
LEMMA SpanIs ==
  ASSUME CutInv, fresh <= Len(Text)
  PROVE  /\ SpanStart \in Nat /\ SpanStart < first
         /\ \A i \in Ink(Text) : SpanStart < i => first <= i
         /\ chunks = <<>> => SpanStart + 1 = After(Text, sizes, 0)
         /\ chunks # <<>> => /\ SpanStart <= chunks[Len(chunks)].char_end
                            /\ chunks[Len(chunks)].char_end < fresh
PROOF
  <1>1. /\ Text \in Seq(Chars) /\ Ink(Text) \subseteq 1..Len(Text) /\ Words \subseteq Ink(Text)
        /\ first \in Nat /\ fresh \in Nat /\ 1 <= first /\ first <= fresh
        /\ first \in Words /\ fresh \in Words
    BY StateTyped
  <1>2. Linked(Text, document, sizes, chunks, fresh) /\ (chunks = <<>> => first = fresh)
    BY DEF CutInv
  <1>3. CASE chunks = <<>>
    <2>1. SpanStart = first - 1 /\ first = After(Text, sizes, 0)
      BY <1>2, <1>3 DEF SpanStart, Linked
    <2>. QED BY <1>1, <1>3, <2>1
  <1>4. CASE chunks # <<>>
    <2> DEFINE e == chunks[Len(chunks)].char_end
    <2>1. /\ chunks \in Seq(ChunkRecord) /\ e < fresh
          /\ \A i \in Ink(Text) : i < fresh => i <= e
      BY <1>2, <1>4 DEF Linked
    <2>2. e \in Nat
      <3>1. Len(chunks) \in 1..Len(chunks)
        BY <1>4, <2>1
      <3>2. chunks[Len(chunks)] \in ChunkRecord
        BY <2>1, <3>1
      <3>. QED BY <3>2 DEF ChunkRecord
    <2>. HIDE DEF e
    <2>3. CASE first = fresh
      <3>1. SpanStart = e
        BY <1>4, <2>3 DEF SpanStart, e
      <3>2. \A i \in Ink(Text) : e < i => first <= i
        BY <1>1, <2>1, <2>2, <2>3
      <3>. QED BY <1>4, <2>1, <2>2, <2>3, <3>1, <3>2 DEF e
    <2>4. CASE first # fresh
      <3>1. SpanStart = first - 1
        BY <2>4 DEF SpanStart
      <3>2. first <= e
        BY <1>1, <2>1, <2>4
      <3>. QED BY <1>1, <1>4, <2>1, <2>2, <3>1, <3>2 DEF e
    <2>. QED BY <2>3, <2>4
  <1>. QED BY <1>3, <1>4

(* The chunk that is made is one, it ends with the last ink before its end *)
(* and has a word that is new.                                             *)
LEMMA ChunkIs ==
  ASSUME CutInv, fresh <= Len(Text)
  PROVE  /\ Chunk(Stop) \in ChunkRecord /\ Made(Text, document, sizes, Chunk(Stop))
         /\ Chunk(Stop).char_start = SpanStart
         /\ fresh <= Chunk(Stop).char_end /\ Chunk(Stop).char_end < Stop
         /\ \A i \in Ink(Text) : i < Stop => i <= Chunk(Stop).char_end
PROOF
  <1> DEFINE B == {i \in Ink(Text) : i < Stop}
             b == Greatest(B)
             a == SpanStart
             again == {j \in Words : first <= j /\ j < fresh}
             text == Slice(Text, a, b)
             lines == Lines(document, a, b)
             n == Cardinality(again)
             c == Chunk(Stop)
  <1>1. /\ document \in Documents /\ Text \in Seq(Chars) /\ Text = CombinedText(document)
        /\ sizes.size \in Nat \ {0} /\ sizes.overlap \in Nat
        /\ Words = WordStarts(Text, sizes) /\ Words \subseteq Ink(Text)
        /\ Ink(Text) \subseteq 1..Len(Text) /\ IsFiniteSet(Ink(Text))
        /\ first \in Nat /\ fresh \in Nat /\ first <= fresh
        /\ first \in Words /\ fresh \in Words
    BY StateTyped
  <1>2. Stop \in Nat /\ fresh < Stop /\ Tokens(Text, first, Stop - 1) <= sizes.size
    BY StopIs
  <1>3. a \in Nat /\ a < first /\ \A i \in Ink(Text) : a < i => first <= i
    BY SpanIs
  <1>4. b \in B /\ \A i \in B : i <= b
    <2>1. B \subseteq 0..Len(Text) /\ fresh \in B /\ Len(Text) \in Nat
      BY <1>1, <1>2
    <2>. HIDE DEF B
    <2>. QED BY <2>1, GreatestIsGreatest
  <1>5. c = [char_start |-> a, char_end |-> b, overlap_words |-> n, text |-> text, lines |-> lines]
    BY DEF Chunk
  <1>. HIDE DEF b, a, c
  <1>6. b \in Ink(Text) /\ b \in Nat /\ b < Stop /\ fresh <= b /\ b <= Len(Text)
        /\ \A i \in Ink(Text) : i < Stop => i <= b
    BY <1>1, <1>2, <1>4
  <1>7. a < b
    BY <1>1, <1>3, <1>6
  <1>8. n \in Nat
    <2>1. IsFiniteSet(again)
      <3>1. again \subseteq Ink(Text)
        BY <1>1
      <3>. HIDE DEF again
      <3>. QED BY <1>1, <3>1, FS_Subset
    <2>. HIDE DEF again
    <2>. QED BY <2>1, FS_CardinalityType
  <1>9. text \in Seq(Chars)
    <2>1. a <= b
      BY <1>3, <1>6, <1>7
    <2>. QED BY <1>1, <1>3, <1>6, <2>1, SliceIs
  <1>10. lines \in Seq(Nat)
    <2>1. b \in Ink(CombinedText(document))
      BY <1>1, <1>6
    <2>. QED BY <1>1, <1>3, <1>7, <2>1, LinesAre
  <1>11. /\ Tokens(text, 1, Len(text)) = Tokens(Text, first, Stop - 1)
         /\ fresh - a \in WordStarts(text, sizes)
         /\ Cardinality({j \in WordStarts(text, sizes) : j < fresh - a})
              = Cardinality({j \in WordStarts(Text, sizes) : first <= j /\ j < fresh})
         /\ Tokens(text, 1, fresh - a - 1) = Tokens(Text, first, fresh - 1)
    <2>1. first \in WordStarts(Text, sizes) /\ fresh \in WordStarts(Text, sizes)
      BY <1>1
    <2>2. Holds(text, Text, sizes, a, first, fresh, Stop)
      BY <1>1, <1>2, <1>3, <1>6, <1>7, <2>1, SpanFits
    <2>. HIDE DEF text
    <2>. QED BY <2>2 DEF Holds
  <1>12. Tokens(Text, first, fresh - 1) <= sizes.overlap
    BY DEF CutInv, InHand
  <1>13. Cardinality({j \in WordStarts(text, sizes) : j < fresh - a}) = n
    BY <1>1, <1>11
  <1>. HIDE DEF n, text, lines
  <1>14. c \in ChunkRecord
    BY <1>3, <1>5, <1>6, <1>8, <1>9, <1>10 DEF ChunkRecord
  <1>15. c.text = text /\ c.overlap_words = n /\ c.char_start = a /\ c.char_end = b /\ c.lines = lines
    BY <1>5
  <1>16. Fits1(c, sizes)
    <2>1. Tokens(c.text, 1, Len(c.text)) <= sizes.size
      BY <1>2, <1>11, <1>15
    <2>2. /\ fresh - a \in WordStarts(c.text, sizes)
          /\ Cardinality({j \in WordStarts(c.text, sizes) : j < fresh - a}) = c.overlap_words
          /\ Tokens(c.text, 1, fresh - a - 1) <= sizes.overlap
      BY <1>11, <1>12, <1>13, <1>15
    <2>. QED BY <2>1, <2>2 DEF Fits1
  <1>17. Made(Text, document, sizes, c)
    BY <1>6, <1>7, <1>15, <1>16 DEF Made, text, lines
  <1>. QED BY <1>6, <1>14, <1>15, <1>17 DEF c, a

---------------------------------------------------------------------------
(* The list of chunks and its text.                                        *)

LEMMA LinkedMore ==
  ASSUME NEW text \in Seq(Chars), NEW doc, NEW s, NEW list, NEW v \in Nat, NEW stop \in Nat,
         Linked(text, doc, s, list, v), NEW c \in ChunkRecord, Made(text, doc, s, c),
         v <= c.char_end, c.char_end < stop, \A i \in Ink(text) : i < stop => i <= c.char_end,
         list = <<>> => c.char_start + 1 = After(text, s, 0),
         list # <<>> => c.char_start <= list[Len(list)].char_end
  PROVE  Linked(text, doc, s, Append(list, c), stop)
PROOF
  <1> DEFINE more == Append(list, c)
             n == Len(list)
  <1>1. list \in Seq(ChunkRecord) /\ n \in Nat
    BY DEF Linked
  <1>2. more \in Seq(ChunkRecord) /\ Len(more) = n + 1 /\ more[n + 1] = c
        /\ \A k \in 1..n : more[k] = list[k]
    BY <1>1
  <1>. HIDE DEF more, n
  <1>3. more # <<>>
    BY <1>1, <1>2
  <1>4. more[1].char_start + 1 = After(text, s, 0)
    <2>1. CASE list = <<>>
      BY <1>1, <1>2, <2>1 DEF n
    <2>2. CASE list # <<>>
      <3>1. 1 \in 1..n
        BY <1>1, <2>2 DEF n
      <3>. QED BY <1>2, <2>2, <3>1 DEF Linked
    <2>. QED BY <2>1, <2>2
  <1>5. ASSUME NEW k \in 2..(n + 1)
        PROVE  more[k].char_start <= more[k - 1].char_end /\ more[k - 1].char_end < more[k].char_end
    <2>1. k - 1 \in 1..n /\ more[k - 1] = list[k - 1]
      BY <1>1, <1>2
    <2>2. CASE k = n + 1
      <3>1. list # <<>> /\ k - 1 = n
        BY <1>1, <2>1, <2>2 DEF n
      <3>2. list[n].char_end < v
        BY <3>1 DEF Linked, n
      <3>3. list[n].char_end \in Nat /\ c.char_end \in Nat
        <4>1. list[n] \in ChunkRecord
          BY <1>1, <2>1, <3>1 DEF n
        <4>. QED BY <4>1 DEF ChunkRecord
      <3>. QED BY <1>2, <2>1, <2>2, <3>1, <3>2, <3>3 DEF n
    <2>3. CASE k # n + 1
      <3>1. k \in 2..n /\ more[k] = list[k]
        BY <1>1, <1>2, <2>3
      <3>. QED BY <2>1, <3>1 DEF Linked, n
    <2>. QED BY <2>2, <2>3
  <1>6. ASSUME NEW k \in 1..(n + 1) PROVE Made(text, doc, s, more[k])
    <2>1. CASE k = n + 1
      BY <1>2, <2>1
    <2>2. CASE k # n + 1
      <3>1. k \in 1..n /\ more[k] = list[k]
        BY <1>1, <1>2, <2>2
      <3>. QED BY <3>1 DEF Linked, n
    <2>. QED BY <2>1, <2>2
  <1>7. more[Len(more)] = c
    BY <1>2
  <1>. QED BY <1>2, <1>3, <1>4, <1>5, <1>6, <1>7 DEF Linked, more

(* The ends of the chunks are in order.                                    *)
LEMMA EndsAre ==
  ASSUME NEW text \in Seq(Chars), NEW doc, NEW s, NEW list, NEW v, Linked(text, doc, s, list, v),
         NEW k \in 1..Len(list)
  PROVE  /\ list[k].char_start \in Nat /\ list[k].char_end \in Nat
         /\ list[k].char_start < list[k].char_end /\ list[k].char_end <= Len(text)
         /\ list[k].char_end \in Ink(text)
         /\ list[k].text = Slice(text, list[k].char_start, list[k].char_end)
PROOF
  <1>1. list \in Seq(ChunkRecord) /\ Made(text, doc, s, list[k])
    BY DEF Linked
  <1>2. list[k] \in ChunkRecord
    BY <1>1
  <1>3. list[k].char_end \in Ink(text)
    BY <1>1 DEF Made
  <1>4. list[k].char_end <= Len(text)
    BY <1>3, InkRange
  <1>. QED BY <1>1, <1>2, <1>3, <1>4 DEF ChunkRecord, Made

(* No chunk begins before the first one.                                   *)
LEMMA StartsAre ==
  ASSUME CutInv, NEW k \in 1..Len(chunks)
  PROVE  /\ chunks[1].char_start \in Nat
         /\ chunks[1].char_start < chunks[k].char_end
PROOF
  <1>1. Text \in Seq(Chars) /\ sizes.size \in Nat \ {0} /\ Linked(Text, document, sizes, chunks, fresh)
    BY StateTyped DEF CutInv
  <1>2. chunks \in Seq(ChunkRecord) /\ 1 \in 1..Len(chunks) /\ chunks # <<>>
    BY <1>1 DEF Linked
  <1>3. /\ chunks[1].char_start \in Nat /\ chunks[k].char_end \in Nat
        /\ chunks[k].char_end \in Ink(Text)
    BY <1>1, <1>2, EndsAre
  <1>4. chunks[1].char_start + 1 = After(Text, sizes, 0)
    BY <1>1, <1>2 DEF Linked
  <1>5. After(Text, sizes, 0) <= chunks[k].char_end
    BY <1>1, <1>3, FirstWord
  <1>. QED BY <1>3, <1>4, <1>5

LEMMA CutInitHolds == ChunkInit => CutInv
PROOF
  <1>1. SUFFICES ASSUME ChunkInit PROVE CutInv
    OBVIOUS
  <1>2. document \in Documents /\ sizes \in Sizes
        /\ first = After(Text, sizes, 0) /\ fresh = first
        /\ chunks = <<>> /\ joined = 0 /\ read = <<>>
    BY <1>1 DEF ChunkInit
  <1>3. Text \in Seq(Chars) /\ sizes.size \in Nat \ {0} /\ sizes.overlap \in Nat
    BY <1>2, TextsTyped, ChunkAssumption DEF Text
  <1>4. /\ first \in WordStarts(Text, sizes) \union {Len(Text) + 1}
        /\ first \in Nat /\ first <= Len(Text) + 1
    <2>1. 0 \in Nat /\ 0 <= Len(Text)
      BY <1>3
    <2>. QED BY <1>2, <1>3, <2>1, AfterIs
  <1>5. InHand(Text, sizes, first, fresh)
    <2>1. first <= fresh
      BY <1>2, <1>4
    <2>2. ASSUME fresh <= Len(Text)
          PROVE  Tokens(Text, first, After(Text, sizes, fresh) - 1) <= sizes.size
      <3>1. first \in WordStarts(Text, sizes)
        BY <1>2, <1>3, <1>4, <2>2
      <3>. QED BY <1>2, <1>3, <3>1, WordFits
    <2>3. Tokens(Text, first, fresh - 1) <= sizes.overlap
      <3>1. Pieces(Text, CharsPerToken) \intersect first..(fresh - 1) = {}
        BY <1>2, <1>4
      <3>2. Tokens(Text, first, fresh - 1) = 0
        BY <3>1, FS_EmptySet, Zenon DEF Tokens
      <3>. QED BY <1>3, <3>2
    <2>. QED BY <1>2, <1>4, <2>1, <2>2, <2>3 DEF InHand
  <1>6. Linked(Text, document, sizes, chunks, fresh)
    <2>1. <<>> \in Seq(ChunkRecord) /\ Len(<<>>) = 0
      OBVIOUS
    <2>. QED BY <1>2, <2>1 DEF Linked
  <1>7. ReadSoFar(Text, chunks, joined, read)
    BY <1>2 DEF ReadSoFar
  <1>. QED BY <1>2, <1>5, <1>6, <1>7 DEF CutInv

LEMMA PackKeeps == CutInv /\ Pack => CutInv'
PROOF
  <1>1. SUFFICES ASSUME CutInv, Pack PROVE CutInv'
    OBVIOUS
  <1> DEFINE c == Chunk(Stop)
             stop == Stop
  <1>2. /\ fresh <= Len(Text) /\ chunks' = Append(chunks, c) /\ fresh' = stop
        /\ first' = IF stop <= Len(Text) THEN NextFirst(stop) ELSE stop
        /\ UNCHANGED <<document, sizes, joined, read>>
    BY <1>1 DEF Pack
  <1>3. Text' = Text
    BY <1>2 DEF Text, CombinedText, Heading
  <1>4. /\ document \in Documents /\ Text \in Seq(Chars) /\ sizes \in Sizes
        /\ sizes.overlap \in Nat /\ Words = WordStarts(Text, sizes)
        /\ Ink(Text) \subseteq 1..Len(Text) /\ Words \subseteq Ink(Text)
        /\ first \in Nat /\ fresh \in Nat /\ first <= fresh
    BY <1>1, StateTyped
  <1>5. /\ stop \in Words \union {Len(Text) + 1} /\ stop \in Nat /\ fresh < stop
        /\ stop <= Len(Text) + 1
    BY <1>1, <1>2, StopIs
  <1>6. /\ c \in ChunkRecord /\ Made(Text, document, sizes, c) /\ c.char_start = SpanStart
        /\ fresh <= c.char_end /\ c.char_end < stop
        /\ \A i \in Ink(Text) : i < stop => i <= c.char_end
    BY <1>1, <1>2, ChunkIs
  <1>7. /\ SpanStart \in Nat
        /\ chunks = <<>> => SpanStart + 1 = After(Text, sizes, 0)
        /\ chunks # <<>> => SpanStart <= chunks[Len(chunks)].char_end
    BY <1>1, <1>2, SpanIs
  <1>8. /\ Linked(Text, document, sizes, chunks, fresh) /\ ReadSoFar(Text, chunks, joined, read)
        /\ chunks \in Seq(ChunkRecord)
    BY <1>1 DEF CutInv, Linked
  <1>9. InHand(Text, sizes, first', stop)
    <2>1. CASE stop <= Len(Text)
      <3>1. stop \in Words /\ first < stop
        BY <1>4, <1>5, <2>1
      <3>2. InHand(Text, sizes, NextFirst(stop), stop)
        <4>. HIDE DEF stop
        <4>. QED BY <1>1, <3>1, NextFirstIs
      <3>. QED BY <1>2, <2>1, <3>2
    <2>2. CASE ~(stop <= Len(Text))
      <3>1. stop = Len(Text) + 1 /\ first' = stop
        BY <1>2, <1>4, <1>5, <2>2
      <3>2. Tokens(Text, stop, stop - 1) = 0
        <4>1. Pieces(Text, CharsPerToken) \intersect stop..(stop - 1) = {}
          BY <1>5
        <4>. QED BY <4>1, FS_EmptySet, Zenon DEF Tokens
      <3>3. ~(stop <= Len(Text)) /\ stop <= stop
        BY <1>5, <2>2
      <3>. HIDE DEF stop
      <3>. QED BY <1>4, <3>1, <3>2, <3>3 DEF InHand
    <2>. QED BY <2>1, <2>2
  <1>. HIDE DEF c, stop
  <1>10. Linked(Text, document, sizes, Append(chunks, c), stop)
    BY <1>4, <1>5, <1>6, <1>7, <1>8, LinkedMore
  <1>11. ReadSoFar(Text, Append(chunks, c), joined, read)
    <2> DEFINE more == Append(chunks, c)
               n == Len(chunks)
    <2>1. n \in Nat /\ Len(more) = n + 1 /\ \A k \in 1..n : more[k] = chunks[k]
      BY <1>6, <1>8
    <2>2. joined \in 0..n /\ (joined # 0 => 1 \in 1..n /\ joined \in 1..n)
      BY <1>8, <2>1 DEF ReadSoFar
    <2>. HIDE DEF more
    <2>3. joined \in 0..Len(more) /\ (joined # 0 => more[1] = chunks[1] /\ more[joined] = chunks[joined])
      BY <2>1, <2>2
    <2>4. ReadSoFar(Text, more, joined, read)
      BY <1>8, <2>3 DEF ReadSoFar
    <2>. QED BY <2>4 DEF more
  <1>12. chunks' # <<>>
    BY <1>2, <1>6, <1>8
  <1>13. InHand(Text', sizes', first', fresh')
    BY <1>2, <1>3, <1>9
  <1>14. Linked(Text', document', sizes', chunks', fresh')
    BY <1>2, <1>3, <1>10
  <1>15. ReadSoFar(Text', chunks', joined', read')
    BY <1>2, <1>3, <1>11
  <1>16. document' \in Documents /\ sizes' \in Sizes
    BY <1>2, <1>4
  <1>. QED BY <1>12, <1>13, <1>14, <1>15, <1>16 DEF CutInv

LEMMA JoinKeeps == CutInv /\ Join => CutInv'
PROOF
  <1>1. SUFFICES ASSUME CutInv, Join PROVE CutInv'
    OBVIOUS
  <1>2. /\ joined < Len(chunks) /\ joined' = joined + 1
        /\ read' = read \o Rest(joined + 1)
        /\ UNCHANGED <<document, sizes, first, fresh, chunks>>
    BY <1>1 DEF Join
  <1>3. Text' = Text
    BY <1>2 DEF Text, CombinedText, Heading
  <1>4. /\ document \in Documents /\ Text \in Seq(Chars) /\ sizes \in Sizes
    BY <1>1, StateTyped
  <1>5. /\ InHand(Text, sizes, first, fresh) /\ Linked(Text, document, sizes, chunks, fresh)
        /\ (chunks = <<>> => first = fresh) /\ ReadSoFar(Text, chunks, joined, read)
    BY <1>1 DEF CutInv
  <1> DEFINE k == joined + 1
             from == chunks[1].char_start
             a == chunks[k].char_start
             b == chunks[k].char_end
             e == chunks[k - 1].char_end
  <1>6. joined \in Nat /\ Len(chunks) \in Nat /\ k \in 1..Len(chunks) /\ 1 \in 1..Len(chunks)
        /\ chunks \in Seq(ChunkRecord)
    BY <1>2, <1>5 DEF ReadSoFar, Linked
  <1>7. /\ a \in Nat /\ b \in Nat /\ a < b /\ b <= Len(Text)
        /\ chunks[k].text = Slice(Text, a, b)
    BY <1>4, <1>5, <1>6, EndsAre
  <1>8. read \o Rest(k) = SubSeq(Text, from + 1, b)
    <2>1. CASE joined = 0
      <3>1. read = <<>> /\ k = 1 /\ Rest(k) = chunks[k].text /\ from = a
        BY <1>5, <2>1 DEF ReadSoFar, Rest
      <3>2. SubSeq(Text, from + 1, b) \in Seq(Chars)
        <4>1. a <= b
          BY <1>7
        <4>2. Slice(Text, a, b) \in Seq(Chars)
          BY <1>4, <1>7, <4>1, SliceIs
        <4>. QED BY <3>1, <4>2 DEF Slice
      <3> DEFINE x == SubSeq(Text, from + 1, b)
      <3>3. read \o Rest(k) = <<>> \o x
        BY <1>7, <3>1 DEF Slice
      <3>. HIDE DEF x
      <3>4. x \in Seq(Chars)
        BY <3>2 DEF x
      <3>5. <<>> \o x = x
        BY <3>4
      <3>. QED BY <3>3, <3>5 DEF x
    <2>2. CASE joined # 0
      <3>1. k - 1 = joined /\ k - 1 \in 1..Len(chunks) /\ k \in 2..Len(chunks) /\ k # 1
        BY <1>6, <2>2
      <3>2. a <= e /\ e < b
        BY <1>5, <3>1 DEF Linked
      <3>3. e \in Nat
        BY <1>4, <1>5, <3>1, EndsAre
      <3>4. read = SubSeq(Text, from + 1, e)
        BY <1>5, <2>2, <3>1 DEF ReadSoFar
      <3>5. from \in Nat /\ from < e
        BY <1>1, <3>1, StartsAre
      <3>6. /\ SubSeq(Text, from + 1, e) \o Slice(Slice(Text, a, b), e - a, Len(Slice(Text, a, b)))
                 = SubSeq(Text, from + 1, b)
            /\ a = e => SubSeq(Text, from + 1, e) \o Slice(Text, a, b) = SubSeq(Text, from + 1, b)
        <4>1. from <= e
          BY <3>3, <3>5
        <4>. HIDE DEF from, a, b, e
        <4>2. Continues(Text, from, e, a, b)
          BY <1>4, <1>7, <3>2, <3>3, <3>5, <4>1, ReadOn
        <4>. QED BY <4>2 DEF Continues
      <3>7. Rest(k) = IF a >= e THEN chunks[k].text ELSE Slice(chunks[k].text, e - a, Len(chunks[k].text))
        BY <3>1 DEF Rest
      <3>. HIDE DEF from, a, b, e, k
      <3>8. CASE a >= e
        <4>1. a = e
          BY <1>7, <3>2, <3>3, <3>8
        <4>2. read \o Rest(k) = SubSeq(Text, from + 1, e) \o Slice(Text, a, b)
          BY <1>7, <3>4, <3>7, <3>8
        <4>. QED BY <3>6, <4>1, <4>2
      <3>9. CASE ~(a >= e)
        <4>1. read \o Rest(k)
                = SubSeq(Text, from + 1, e) \o Slice(Slice(Text, a, b), e - a, Len(Slice(Text, a, b)))
          BY <1>7, <3>4, <3>7, <3>9
        <4>. QED BY <3>6, <4>1
      <3>. QED BY <3>8, <3>9
    <2>. QED BY <2>1, <2>2
  <1>9. ReadSoFar(Text, chunks, k, read \o Rest(k))
    <2>1. k \in 0..Len(chunks) /\ k # 0
      BY <1>6
    <2>. QED BY <1>8, <2>1 DEF ReadSoFar
  <1>10. ReadSoFar(Text', chunks', joined', read')
    BY <1>2, <1>3, <1>9
  <1>11. InHand(Text', sizes', first', fresh') /\ Linked(Text', document', sizes', chunks', fresh')
    BY <1>2, <1>3, <1>5
  <1>12. document' \in Documents /\ sizes' \in Sizes /\ (chunks' = <<>> => first' = fresh')
    BY <1>2, <1>4, <1>5
  <1>. QED BY <1>10, <1>11, <1>12 DEF CutInv

LEMMA CutAlways == ChunkSpec => []CutInv
PROOF
  <1>1. CutInv /\ [ChunkNext]_chunkVars => CutInv'
    <2>1. SUFFICES ASSUME CutInv, [ChunkNext]_chunkVars PROVE CutInv'
      OBVIOUS
    <2>2. CASE Pack
      BY <2>1, <2>2, PackKeeps
    <2>3. CASE Join
      BY <2>1, <2>3, JoinKeeps
    <2>4. CASE UNCHANGED chunkVars
      <3>1. /\ document' = document /\ sizes' = sizes /\ first' = first /\ fresh' = fresh
            /\ chunks' = chunks /\ joined' = joined /\ read' = read
        BY <2>4 DEF chunkVars
      <3>2. Text' = Text
        BY <3>1 DEF Text, CombinedText, Heading
      <3>. QED BY <2>1, <3>1, <3>2 DEF CutInv
    <2>. QED BY <2>1, <2>2, <2>3, <2>4 DEF ChunkNext
  <1>. QED BY <1>1, CutInitHolds, PTL DEF ChunkSpec

(* When the chunks cover the text they end with its last ink.              *)
LEMMA AllCovered ==
  ASSUME CutInv, AllRead
  PROVE  /\ Ink(Text) = {} => read = <<>>
         /\ Ink(Text) # {} =>
              /\ read = SubSeq(Text, Least(Ink(Text)), Greatest(Ink(Text)))
              /\ Greatest(Ink(Text)) \in Ink(Text) /\ \A i \in Ink(Text) : i <= Greatest(Ink(Text))
PROOF
  <1>1. /\ Text \in Seq(Chars) /\ sizes.size \in Nat \ {0} /\ Ink(Text) \subseteq 1..Len(Text)
        /\ fresh \in Nat
    BY StateTyped
  <1>2. fresh > Len(Text) /\ joined = Len(chunks)
    BY DEF AllRead
  <1>3. Linked(Text, document, sizes, chunks, fresh) /\ ReadSoFar(Text, chunks, joined, read)
    BY DEF CutInv
  <1>4. chunks \in Seq(ChunkRecord) /\ Len(chunks) \in Nat
    BY <1>3 DEF Linked
  <1>5. CASE chunks = <<>>
    <2>1. read = <<>> /\ fresh = After(Text, sizes, 0)
      BY <1>2, <1>3, <1>4, <1>5 DEF ReadSoFar, Linked
    <2>2. Ink(Text) = {}
      <3>1. SUFFICES ASSUME Ink(Text) # {} PROVE FALSE
        OBVIOUS
      <3>2. fresh \in Ink(Text)
        BY <1>1, <2>1, <3>1, FirstWord
      <3>. QED BY <1>1, <1>2, <3>2
    <2>. QED BY <2>1, <2>2
  <1>6. CASE chunks # <<>>
    <2> DEFINE n == Len(chunks)
               e == chunks[n].char_end
               high == Greatest(Ink(Text))
    <2>1. n \in 1..Len(chunks) /\ n # 0
      BY <1>4, <1>6
    <2>2. e \in Ink(Text)
      BY <1>1, <1>3, <2>1, EndsAre
    <2>3. \A i \in Ink(Text) : i <= e
      <3>1. \A i \in Ink(Text) : i < fresh
        BY <1>1, <1>2
      <3>. QED BY <1>3, <1>6, <3>1 DEF Linked
    <2>4. high \in Ink(Text) /\ \A i \in Ink(Text) : i <= high
      <3>1. Ink(Text) \subseteq 0..Len(Text) /\ Len(Text) \in Nat /\ Ink(Text) # {}
        BY <1>1, <2>2
      <3>. QED BY <3>1, GreatestIsGreatest
    <2>. HIDE DEF high
    <2>5. e = high
      <3>1. e <= high /\ high <= e
        BY <2>2, <2>3, <2>4
      <3>2. e \in Nat /\ high \in Nat
        BY <1>1, <2>2, <2>4
      <3>. QED BY <3>1, <3>2
    <2>6. chunks[1].char_start + 1 = Least(Ink(Text))
      <3>1. chunks[1].char_start + 1 = After(Text, sizes, 0)
        BY <1>3, <1>6 DEF Linked
      <3>2. After(Text, sizes, 0) = Least(Ink(Text))
        BY <1>1, <2>2, FirstWord
      <3>. QED BY <3>1, <3>2
    <2>7. read = SubSeq(Text, chunks[1].char_start + 1, e)
      BY <1>2, <1>3, <2>1 DEF ReadSoFar
    <2>8. read = SubSeq(Text, Least(Ink(Text)), high)
      BY <2>5, <2>6, <2>7
    <2>. QED BY <2>2, <2>4, <2>8 DEF high
  <1>. QED BY <1>5, <1>6

(* A reader gets the text back, whatever the document and the settings:    *)
(* every chunk goes on where the one before ended, or repeats its end.     *)
THEOREM ReadsBackExactly == ChunkSpec => []ReassemblesExactly
PROOF
  <1>1. CutInv => ReassemblesExactly
    <2>1. SUFFICES ASSUME CutInv, AllRead PROVE read = Trimmed(Text)
      BY DEF ReassemblesExactly
    <2>2. CASE Ink(Text) = {}
      BY <2>1, <2>2, AllCovered DEF Trimmed
    <2>3. CASE Ink(Text) # {}
      BY <2>1, <2>3, AllCovered DEF Trimmed
    <2>. QED BY <2>2, <2>3
  <1>. QED BY <1>1, CutAlways, PTL

(* No chunk is larger than was promised, nor its overlap, and every one    *)
(* has a word that is new.                                                 *)
THEOREM NoChunkIsLarger == ChunkSpec => []ChunksFit
PROOF
  <1>1. CutInv => ChunksFit
    <2>1. SUFFICES ASSUME CutInv PROVE ChunksFit
      OBVIOUS
    <2>2. Linked(Text, document, sizes, chunks, fresh)
      BY <2>1 DEF CutInv
    <2>3. ASSUME NEW k \in DOMAIN chunks PROVE Fits1(chunks[k], sizes)
      <3>1. k \in 1..Len(chunks)
        BY <2>2 DEF Linked
      <3>. QED BY <2>2, <3>1 DEF Linked, Made
    <2>. QED BY <2>3 DEF ChunksFit, Fits1
  <1>. QED BY <1>1, CutAlways, PTL

---------------------------------------------------------------------------
(* The lines of a chunk.                                                   *)

(* The beginning of a text has the body's beginning in it, and the lines   *)
(* of that are numbered as the body's.                                     *)
LEMMA BodyIsThere ==
  ASSUME NEW doc \in Documents, NEW high \in Nat,
         Len(Heading(doc)) < high, high <= Len(CombinedText(doc)),
         NEW j \in 1..(high - Len(Heading(doc)))
  PROVE  LET body == BodyIn(SubSeq(CombinedText(doc), 1, high), doc)
         IN  /\ j \in DOMAIN body /\ body[j] = doc.body[j]
             /\ LineOf(body, j - 1) = LineOf(doc.body, j - 1)
PROOF
  <1> DEFINE offset == Len(Heading(doc))
             h == Heading(doc)
             text == CombinedText(doc)
             r == SubSeq(text, 1, high)
             body == BodyIn(r, doc)
  <1>1. /\ h \in Seq(Chars) /\ doc.body \in Seq(Chars) /\ text \in Seq(Chars) /\ offset \in Nat
        /\ offset = Len(h) /\ Len(text) = offset + Len(doc.body)
        /\ \A i \in 1..offset : text[i] = h[i]
        /\ \A i \in 1..Len(doc.body) : text[offset + i] = doc.body[i]
    BY TextsTyped
  <1>2. doc.title = <<>> => offset = 0
    BY DEF Heading
  <1>3. offset < high /\ high <= Len(text) /\ j \in 1..(high - offset)
    OBVIOUS
  <1>. HIDE DEF offset, h, text
  <1>4. r \in Seq(Chars) /\ Len(r) = high /\ \A i \in 1..high : r[i] = text[i]
    <2>1. Slice(text, 0, high) = r
      BY DEF Slice
    <2>2. 0 \in Nat /\ 0 <= high /\ high - 0 = high /\ \A i \in 1..high : i + 0 = i
      OBVIOUS
    <2> DEFINE z == Slice(text, 0, high)
    <2>4. PartOf(z, text, 0, high)
      BY <1>1, <1>3, <2>2, SliceIsPart
    <2>. HIDE DEF z
    <2>3. z \in Seq(Chars) /\ Len(z) = high - 0 /\ \A i \in 1..(high - 0) : z[i] = text[i + 0]
      BY <2>4 DEF PartOf
    <2>. QED BY <2>1, <2>2, <2>3 DEF z
  <1>. HIDE DEF r
  <1>5. body \in Seq(Chars) /\ Len(body) = high - offset
        /\ \A i \in 1..(high - offset) : body[i] = r[i + offset]
    <2>1. CASE doc.title = <<>>
      <3>1. offset = 0 /\ body = r
        BY <1>2, <2>1 DEF BodyIn
      <3>. QED BY <1>4, <3>1
    <2>2. CASE doc.title # <<>>
      <3>1. StartsWith(r, h)
        <4>1. Len(h) <= Len(r) /\ DOMAIN h = 1..offset
          BY <1>1, <1>3, <1>4
        <4>2. ASSUME NEW i \in 1..offset PROVE r[i] = h[i]
          <5>1. i \in 1..high
            BY <1>1, <1>3
          <5>2. r[i] = text[i] /\ text[i] = h[i]
            BY <1>1, <1>4, <5>1
          <5>. QED BY <5>2
        <4>. QED BY <4>1, <4>2 DEF StartsWith
      <3>2. body = Slice(r, offset, high)
        BY <1>4, <2>2, <3>1 DEF BodyIn, offset, h
      <3>3. offset <= high /\ high <= Len(r)
        BY <1>1, <1>3, <1>4
      <3>4. PartOf(body, r, offset, high)
        BY <1>1, <1>4, <3>2, <3>3, SliceIsPart
      <3>. QED BY <3>4 DEF PartOf
    <2>. QED BY <2>1, <2>2
  <1>. HIDE DEF body
  <1>6. \A i \in 1..(high - offset) : i \in 1..Len(doc.body) /\ i \in 1..Len(body) /\ body[i] = doc.body[i]
    <2>1. ASSUME NEW i \in 1..(high - offset)
          PROVE  i \in 1..Len(doc.body) /\ i \in 1..Len(body) /\ body[i] = doc.body[i]
      <3>1. i \in 1..Len(doc.body) /\ i + offset \in 1..high /\ i + offset = offset + i
        BY <1>1, <1>3
      <3>. QED BY <1>1, <1>4, <1>5, <3>1
    <2>. QED BY <2>1
  <1>7. {i \in DOMAIN body : i <= j - 1 /\ body[i] = Newline}
          = {i \in DOMAIN doc.body : i <= j - 1 /\ doc.body[i] = Newline}
    <2>1. DOMAIN body = 1..Len(body) /\ DOMAIN doc.body = 1..Len(doc.body)
      BY <1>1, <1>5
    <2>2. \A i \in 1..Len(doc.body) : i <= j - 1 => i \in 1..(high - offset)
      BY <1>1, <1>3
    <2>3. \A i \in 1..Len(body) : i <= j - 1 => i \in 1..(high - offset)
      BY <1>1, <1>3, <1>5
    <2>. QED BY <1>6, <2>1, <2>2, <2>3
  <1>8. LineOf(body, j - 1) = LineOf(doc.body, j - 1)
    BY <1>7 DEF LineOf
  <1>9. j \in DOMAIN body /\ body[j] = doc.body[j]
    BY <1>3, <1>5, <1>6
  <1>. QED BY <1>8, <1>9 DEF body, r, text

(* White space without a line break in front of a text without a title     *)
(* moves its characters, and leaves their lines.                           *)
SameLine(r, d, body, j) ==
  d \in DOMAIN r /\ r[d] = body[j] /\ LineOf(r, d - 1) = LineOf(body, j - 1)

LEMMA MovedIsThere ==
  ASSUME NEW body \in Seq(Chars), NEW low \in Nat, NEW high \in Nat, NEW j \in low..high,
         1 <= low, high <= Len(body), \A i \in 1..(low - 1) : body[i] # Newline,
         NEW r, r = SubSeq(body, low, high), NEW d, d = j - low + 1
  PROVE  SameLine(r, d, body, j)
PROOF
  <1>. USE DEF SameLine
  <1> DEFINE a == low - 1
  <1>1. a \in Nat /\ a + 1 = low /\ a <= high /\ j \in Nat /\ d \in Nat /\ d + a = j /\ d \in 1..(high - a)
    OBVIOUS
  <1>. HIDE DEF a
  <1>2. r = Slice(body, a, high)
    BY <1>1 DEF Slice
  <1>3. PartOf(r, body, a, high)
    BY <1>1, <1>2, SliceIsPart
  <1>4. r \in Seq(Chars) /\ DOMAIN r = 1..(high - a) /\ \A i \in 1..(high - a) : r[i] = body[i + a]
    BY <1>1, <1>3 DEF PartOf
  <1> DEFINE P == {i \in DOMAIN r : i <= d - 1 /\ r[i] = Newline}
             Q == {i \in DOMAIN body : i <= j - 1 /\ body[i] = Newline}
  <1>5. P \subseteq Int /\ IsFiniteSet(P)
    <2>1. P \subseteq 1..(high - a)
      BY <1>4
    <2>2. high - a \in Int /\ 1 \in Int
      BY <1>1
    <2>3. IsFiniteSet(1..(high - a))
      BY <2>2, FS_Interval
    <2>. HIDE DEF P
    <2>4. IsFiniteSet(P)
      BY <2>1, <2>3, FS_Subset
    <2>5. P \subseteq Int
      BY <2>1
    <2>. QED BY <2>4, <2>5
  <1>6. Q = Shift(P, a)
    <2>1. ASSUME NEW i \in Q PROVE i \in {h + a : h \in P}
      <3>1. i \in 1..Len(body) /\ i <= j - 1 /\ body[i] = Newline
        OBVIOUS
      <3>2. i \notin 1..(low - 1)
        BY <3>1
      <3>3. i - a \in 1..(high - a) /\ i - a <= d - 1 /\ (i - a) + a = i
        BY <1>1, <3>1, <3>2
      <3>4. i - a \in P
        BY <1>4, <3>1, <3>3
      <3>. QED BY <3>3, <3>4
    <2>2. ASSUME NEW h \in P PROVE h + a \in Q
      <3>1. h \in 1..(high - a) /\ h <= d - 1 /\ r[h] = Newline
        BY <1>4
      <3>2. h + a \in 1..Len(body) /\ h + a <= j - 1
        BY <1>1, <3>1
      <3>. QED BY <1>4, <3>1, <3>2
    <2>. QED BY <2>1, <2>2 DEF Shift
  <1>. HIDE DEF P, Q
  <1>7. Cardinality(Q) = Cardinality(P)
    <2>1. a \in Int
      BY <1>1
    <2>. QED BY <1>5, <1>6, <2>1, Moved
  <1>8. LineOf(r, d - 1) = LineOf(body, j - 1)
    BY <1>7 DEF LineOf, P, Q
  <1>. QED BY <1>1, <1>4, <1>8

(* The lines a chunk names are those its text is on.                       *)
THEOREM LinesAreEvidence == ChunkSpec => []EvidenceLines
PROOF
  <1>1. CutInv => EvidenceLines
    <2>1. SUFFICES ASSUME CutInv, AllRead, LinesKept, NEW k \in DOMAIN chunks
                   PROVE  LET c == chunks[k]
                              Opened(from, to) == Excerpt(read, document, from, to)
                          IN  IF c.lines = <<>> THEN InBody(c) = {}
                              ELSE /\ InBody(c) \subseteq Opened(c.lines[1], c.lines[2])
                                   /\ \A i \in {1, 2} : InBody(c) \intersect Opened(c.lines[i], c.lines[i]) # {}
      BY DEF EvidenceLines
    <2> DEFINE c == chunks[k]
               a == c.char_start
               b == c.char_end
               offset == Len(Heading(document))
               high == Greatest(Ink(Text))
               body == BodyIn(read, document)
               Opened(from, to) == Excerpt(read, document, from, to)
               Of(i) == LineOf(document.body, i - 1)
    <2>2. /\ document \in Documents /\ Text \in Seq(Chars) /\ Text = CombinedText(document)
          /\ Ink(Text) \subseteq 1..Len(Text)
      BY <2>1, StateTyped
    <2>3. Linked(Text, document, sizes, chunks, fresh)
      BY <2>1 DEF CutInv
    <2>4. k \in 1..Len(chunks)
      BY <2>1, <2>3 DEF Linked
    <2>5. a \in Nat /\ b \in Nat /\ a < b /\ b <= Len(Text) /\ b \in Ink(Text)
      BY <2>2, <2>3, <2>4, EndsAre
    <2>6. c.lines = Lines(document, a, b)
      BY <2>3, <2>4 DEF Linked, Made
    <2>7. /\ read = SubSeq(Text, Least(Ink(Text)), high)
          /\ high \in Ink(Text) /\ \A i \in Ink(Text) : i <= high
      BY <2>1, <2>5, AllCovered
    <2>8. Least(Ink(Text)) \in Ink(Text) /\ \A i \in Ink(Text) : Least(Ink(Text)) <= i
      <3>1. Ink(Text) \subseteq Nat /\ Ink(Text) # {}
        BY <2>2, <2>5
      <3>. QED BY <3>1, LeastIsLeast
    <2>. HIDE DEF high, c
    <2>9. high \in Nat /\ high <= Len(Text) /\ b <= high
      BY <2>2, <2>5, <2>7
    <2>10. /\ offset \in Nat /\ document.body \in Seq(Chars)
           /\ Len(Text) = offset + Len(document.body)
      BY <2>2, TextsTyped
    <2>11. Ink(document.body) \subseteq 1..Len(document.body)
      BY <2>10, InkRange
    <2>. HIDE DEF offset, a, b
    <2>12. InBody(c) = {document.body[i] : i \in {j \in Ink(document.body) : a < j + offset /\ j + offset <= b}}
      BY DEF InBody, a, b, offset
    <2>13. CASE b <= offset
      <3>1. c.lines = <<>>
        BY <2>2, <2>5, <2>6, <2>13, LinesAre DEF offset
      <3>2. InBody(c) = {}
        <4>1. \A j \in Ink(document.body) : ~(j + offset <= b)
          BY <2>5, <2>10, <2>11, <2>13
        <4>. QED BY <2>12, <4>1
      <3>. QED BY <3>1, <3>2 DEF c
    <2>14. CASE b > offset
      <3>1. PICK m \in Ink(document.body) :
              /\ a < m + offset /\ m + offset <= b /\ b - offset \in Ink(document.body)
              /\ \A i \in Ink(document.body) : a < i + offset => m <= i
              /\ Lines(document, a, b) = <<LineOf(document.body, m - 1), LineOf(document.body, b - offset - 1)>>
        BY <2>2, <2>5, <2>14, LinesAre DEF offset
      <3> DEFINE e == b - offset
                 low == Of(m)
                 up == Of(e)
      <3>2. c.lines = <<low, up>>
        BY <2>6, <3>1
      <3>3. /\ m \in Nat /\ 1 <= m /\ m <= e /\ e \in Nat /\ e <= high - offset
            /\ e \in Ink(document.body) /\ a < e + offset /\ e + offset <= b
        BY <2>5, <2>9, <2>10, <2>11, <3>1
      <3>. HIDE DEF body, Of, e
      (* What is read has the body up to there, with its lines.            *)
      <3>4. ASSUME NEW j \in Ink(document.body), j + offset <= b
            PROVE  /\ j \in Nat
                   /\ \E d \in DOMAIN body : body[d] = document.body[j] /\ LineOf(body, d - 1) = Of(j)
        <4> DEFINE least == Least(Ink(Text))
        <4>1. offset < high /\ j \in 1..(high - offset) /\ j \in Nat
          BY <2>5, <2>9, <2>10, <2>11, <2>14, <3>4
        <4>2. least \in Ink(Text) /\ least \in Nat /\ 1 <= least /\ \A i \in Ink(Text) : least <= i
          BY <2>2, <2>8
        <4>. HIDE DEF least
        <4>3. CASE least = 1
          <5>1. read = SubSeq(CombinedText(document), 1, high)
            BY <2>2, <2>7, <4>3 DEF least
          <5>2. high <= Len(CombinedText(document))
            BY <2>2, <2>9
          <5>3. /\ j \in DOMAIN BodyIn(SubSeq(CombinedText(document), 1, high), document)
                /\ BodyIn(SubSeq(CombinedText(document), 1, high), document)[j] = document.body[j]
                /\ LineOf(BodyIn(SubSeq(CombinedText(document), 1, high), document), j - 1)
                     = LineOf(document.body, j - 1)
            BY <2>2, <2>9, <4>1, <5>2, BodyIsThere DEF offset
          <5>. QED BY <4>1, <5>1, <5>3 DEF body, Of
        <4>4. CASE least # 1
          <5>1. \A i \in 1..(least - 1) : document.title = <<>> /\ Text[i] # Newline
            <6>1. ASSUME NEW i \in 1..(least - 1) PROVE document.title = <<>> /\ Text[i] # Newline
              <7>1. i \in DOMAIN Text
                BY <2>2, <4>2
              <7>2. \A h \in 1..i : h \notin Ink(Text)
                BY <4>2
              <7>3. 1..i \intersect Ink(Text) = {}
                BY <7>2
              <7>. QED BY <2>1, <7>1, <7>3 DEF LinesKept
            <6>. QED BY <6>1
          <5>2. document.title = <<>>
            <6>1. 1 \in 1..(least - 1)
              BY <4>2, <4>4
            <6>. QED BY <5>1, <6>1
          <5>3. Text = document.body /\ offset = 0
            <6>1. Heading(document) = <<>>
              BY <5>2 DEF Heading
            <6>. QED BY <2>2, <2>10, <6>1 DEF CombinedText, offset
          <5>4. body = SubSeq(document.body, least, high)
            BY <2>7, <5>2, <5>3 DEF body, BodyIn, least
          <5> DEFINE d == j - least + 1
          <5>5. j \in least..high /\ high <= Len(document.body)
            BY <2>9, <2>10, <4>1, <4>2, <5>3
          <5>6. \A i \in 1..(least - 1) : document.body[i] # Newline
            BY <5>1, <5>3
          <5>7. d \in DOMAIN body /\ body[d] = document.body[j]
                /\ LineOf(body, d - 1) = LineOf(document.body, j - 1)
            <6> DEFINE whole == document.body
            <6>1. d = j - least + 1
              OBVIOUS
            <6>2. /\ whole \in Seq(Chars) /\ j \in least..high /\ high <= Len(whole)
                  /\ \A i \in 1..(least - 1) : whole[i] # Newline
                  /\ body = SubSeq(whole, least, high) /\ least \in Nat /\ 1 <= least /\ high \in Nat
              BY <2>9, <2>10, <4>2, <5>4, <5>5, <5>6
            <6>. HIDE DEF d, whole
            <6>3. SameLine(body, d, whole, j)
              BY <6>1, <6>2, MovedIsThere
            <6>. QED BY <6>3 DEF SameLine, whole
          <5>. QED BY <4>1, <5>7 DEF Of
        <4>. QED BY <4>3, <4>4
      <3>5. \A x, y : Opened(x, y) = {body[i] : i \in {j \in DOMAIN body : LineOf(body, j - 1) \in x..y}}
        BY DEF Excerpt, body
      <3>. HIDE DEF Opened
      <3>6. ASSUME NEW i \in Nat, NEW j \in Nat, i <= j PROVE Of(i) \in Nat /\ Of(j) \in Nat /\ Of(i) <= Of(j)
        <4> DEFINE x == i - 1
                   y == j - 1
        <4>1. x \in Int /\ y \in Int /\ x <= y
          BY <3>6
        <4>. HIDE DEF x, y
        <4>2. LineOf(document.body, x) \in Nat /\ LineOf(document.body, y) \in Nat
              /\ LineOf(document.body, x) <= LineOf(document.body, y)
          BY <2>10, <4>1, LineOfNat
        <4>. QED BY <4>2 DEF Of, x, y
      <3>7. low \in Nat /\ up \in Nat
        BY <3>3, <3>6
      <3>8. InBody(c) \subseteq Opened(low, up)
        <4>1. ASSUME NEW j \in Ink(document.body), a < j + offset, j + offset <= b
              PROVE  document.body[j] \in Opened(low, up)
          <5>1. PICK d \in DOMAIN body : body[d] = document.body[j] /\ LineOf(body, d - 1) = Of(j)
            BY <3>4, <4>1
          <5>6. j \in Nat
            BY <3>4, <4>1
          <5>2. m <= j /\ j <= e
            BY <2>5, <2>10, <3>1, <4>1, <5>6 DEF e
          <5>3. low <= Of(j) /\ Of(j) <= up /\ Of(j) \in Nat
            BY <3>3, <3>6, <5>6, <5>2
          <5>4. LineOf(body, d - 1) \in low..up
            BY <3>7, <5>1, <5>3
          <5>5. Opened(low, up) = {body[i] : i \in {h \in DOMAIN body : LineOf(body, h - 1) \in low..up}}
            BY <3>5
          <5>. QED BY <5>1, <5>4, <5>5
        <4>. QED BY <2>12, <4>1
      <3>9. ASSUME NEW j \in Ink(document.body), a < j + offset, j + offset <= b, NEW x \in Nat, x = Of(j)
            PROVE  InBody(c) \intersect Opened(x, x) # {}
        <4>1. document.body[j] \in InBody(c)
          BY <2>12, <3>9
        <4>2. PICK d \in DOMAIN body : body[d] = document.body[j] /\ LineOf(body, d - 1) \in x..x
          BY <3>4, <3>9
        <4>3. Opened(x, x) = {body[i] : i \in {h \in DOMAIN body : LineOf(body, h - 1) \in x..x}}
          BY <3>5
        <4>4. document.body[j] \in Opened(x, x)
          BY <4>2, <4>3
        <4>. QED BY <4>1, <4>4
      <3>10. InBody(c) \intersect Opened(low, low) # {}
        BY <3>1, <3>7, <3>9
      <3>11. InBody(c) \intersect Opened(up, up) # {}
        BY <3>3, <3>7, <3>9
      <3>. HIDE DEF low, up
      <3>12. c.lines # <<>> /\ c.lines[1] = low /\ c.lines[2] = up
        BY <3>2
      <3>. QED BY <3>8, <3>10, <3>11, <3>12 DEF Opened, c
    <2>. QED BY <2>5, <2>10, <2>13, <2>14
  <1>. QED BY <1>1, CutAlways, PTL

===============================================================================
