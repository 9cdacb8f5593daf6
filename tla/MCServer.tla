------------------------------ MODULE MCServer ------------------------------
(* Six parts of the server that do not touch one another, checked in one   *)
(* run: how a document is cut, what find_related answers, what answers may *)
(* hold, the authorization of a source, its tokens, and its tools.  `part` *)
(* says which of them a behaviour is about; the others rest.               *)
EXTENDS TLC, Chunking, FindRelated, SourceScope, OAuthHandoff, TokenStore, ToolGate

VARIABLE part

vars == <<part, chunkVars, relatedVars, scopeVars, handoffVars, tokenVars, gateVars>>

---------------------------------------------------------------------------
(* The documents cut: all bodies of up to six characters, and of up to     *)
(* five under a title.  Every character of ink is a different one.         *)
MCChars == -1..30
MCBlank == {0, -1}
MCNewline == -1
Spell(shape, from) ==
  [i \in DOMAIN shape |-> CASE shape[i] = "ink" -> from + i
                            [] shape[i] = "space" -> 0
                            [] OTHER -> -1]
MCDocuments ==
  LET Bodies(longest) == UNION {[1..n -> {"ink", "space", "line"}] : n \in 0..longest}
  IN  {[title |-> <<>>, body |-> Spell(b, 20)] : b \in Bodies(6)}
      \union {[title |-> Spell(t, 10), body |-> Spell(b, 20)] :
                t \in {<<"ink">>, <<"ink", "space", "ink">>}, b \in Bodies(5)}
MCSizes == {s \in [size : 1..3, overlap : 0..2] : s.overlap < s.size}

---------------------------------------------------------------------------
(* The lakes searched.  Contexts: two documents of any kind and age that   *)
(* make one statement about the same edge, or the first of them another.   *)
(* Spellings: documents with up to two statements of any names and types.  *)
MCName == [api |-> "api", API |-> "api", db |-> "db"]
None == "none"
Said(source, target, type, target_type, assertion) ==
  [type |-> type, source |-> source, target |-> target, source_type |-> None,
   target_type |-> target_type, origin |-> "llm_extracted", assertion |-> assertion,
   status |-> "claimed", as_of |-> 0]
Doc(id, repo, kind, state, updated, merged, parsed, model, entities) ==
  [id |-> id, repo |-> repo, kind |-> kind, state |-> state, updated |-> updated,
   merged |-> merged, parsed |-> parsed, model |-> model, entities |-> entities,
   by |-> IF kind # "file" THEN "model" ELSE IF model = <<>> THEN "parser" ELSE "both"]

Uses(assertion) == Said("api", "db", "uses", None, assertion)
UsesStore == Said("api", "db", "uses", "store", "present")
Other == Said("api", "API", "uses", None, "present")

Contexts(id) ==
  {Doc(id, "r", "issue", "open", t, 0, <<>>, <<Uses(a)>>, {}) :
     t \in 0..2, a \in Assertions \union {"invented"}}
  \union {Doc(id, "r", "file", None, t, 0, p, m, {}) :
     t \in 0..2, p \in {<<Uses("present")>>, <<Uses("present"), UsesStore>>},
     m \in {<<>>, <<Uses("negated")>>}}
  \union {Doc(id, "r", "pr", c[1], c[2], c[3], <<>>, m, {}) :
     c \in {<<"open", 1, 0>>, <<"open", 2, 0>>, <<"closed", 1, 0>>, <<"closed", 2, 0>>,
            <<"merged", 2, 0>>, <<"merged", 2, 1>>},
     m \in {<<Uses(a)>> : a \in Assertions} \union {<<Uses("removed"), Uses("added")>>,
                                                   <<Other, Uses("removed")>>}}

Spelled == {Said(s, t, x, None, "present") :
              s \in {"API", "db", None}, t \in {"api", "db"}, x \in {"uses", "owns"}}
Typed2 == {Said(s, t, "uses", y, "present") :
             s \in {"api", "db"}, t \in {"api", "db"}, y \in {None, "service", "store"}}
Spellings ==
  {{Doc(1, "r", "issue", "open", 1, 0, <<>>, m, {}), d} :
     m \in {<<a, b>> : a \in Spelled, b \in Spelled},
     d \in {Doc(2, "q", "file", None, 2, 0, <<p>>, <<>>, e) : p \in Typed2, e \in {{}, {"API"}}}}

Question(name, type, types, direction, repo) ==
  [name |-> name, type |-> type, types |-> types, direction |-> direction, repo |-> repo,
   statuses |-> {}]

MCQuestions ==
  {{a, b} : a \in Contexts(1), b \in Contexts(2)} \X {Question("db", None, {}, "both", None)}
  \union
  {{a, b} : a \in {c \in Contexts(1) : c.kind = "file"}, b \in Contexts(2)}
    \X {Question("db", "queue", {}, "both", None)}
  \union
  Spellings \X {Question("api", "service", {"uses"}, "both", None),
                Question("API", None, {"owns"}, "both", None),
                Question("api", None, {}, "outgoing", "r"),
                [Question("db", "store", {}, "incoming", None) EXCEPT !.statuses = {"claimed"}]}

---------------------------------------------------------------------------
Symmetry == Permutations(Connections)

ChunksRest == /\ document = [title |-> <<>>, body |-> <<>>]
              /\ sizes = [size |-> 1, overlap |-> 0]
              /\ first = 1 /\ fresh = 1 /\ chunks = <<>> /\ joined = 0 /\ read = <<>>
RelatedRests == lake = {} /\ query = None /\ answered = FALSE /\ edges = {}
ScopeRests == scoping = [allowlist |-> {}, managed |-> FALSE] /\ enabled = {}
TokensRest == stored.expires = "later" /\ medium = "ssm"
GateRests == hints = [t \in Tools |-> "none"]

Init ==
  /\ part \in {"cutting", "relating", "scope", "handoff", "tokens", "gate"}
  /\ IF part = "cutting" THEN ChunkInit ELSE ChunksRest
  /\ IF part = "relating" THEN RelatedInit ELSE RelatedRests
  /\ IF part = "scope" THEN TRUE ELSE ScopeRests
  /\ IF part = "gate" THEN TRUE ELSE GateRests
  /\ ScopeInit /\ HandoffInit /\ TokenInit /\ GateInit
  /\ part # "tokens" => TokensRest

Next ==
  \/ /\ part = "cutting" /\ ChunkNext
     /\ UNCHANGED <<part, relatedVars, scopeVars, handoffVars, tokenVars, gateVars>>
  \/ /\ part = "relating" /\ Answer
     /\ UNCHANGED <<part, chunkVars, scopeVars, handoffVars, tokenVars, gateVars>>
  \/ /\ part = "scope" /\ ScopeNext
     /\ UNCHANGED <<part, chunkVars, relatedVars, handoffVars, tokenVars, gateVars>>
  \/ /\ part = "handoff" /\ HandoffNext
     /\ UNCHANGED <<part, chunkVars, relatedVars, scopeVars, tokenVars, gateVars>>
  \/ /\ part = "tokens" /\ TokenNext
     /\ UNCHANGED <<part, chunkVars, relatedVars, scopeVars, handoffVars, gateVars>>
  \/ /\ part = "gate" /\ GateNext
     /\ UNCHANGED <<part, chunkVars, relatedVars, scopeVars, handoffVars, tokenVars>>

Spec == Init /\ [][Next]_vars
=============================================================================
