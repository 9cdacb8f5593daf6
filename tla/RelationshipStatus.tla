------------------------- MODULE RelationshipStatus -------------------------
(***************************************************************************)
(* What Aquifer says of a relationship (semantic/status.py, the merge and  *)
(* the grounding in semantic/structured, semantic/interceptor.py): an      *)
(* extracted statement gets its origin, its status and the time it was     *)
(* made from the document it stands in; all statements about one           *)
(* relationship together give its overall status.                          *)
(*                                                                         *)
(* A statement is [type, source, target, source_type, target_type, origin, *)
(* assertion, status, as_of].  A document has kind, state, updated and     *)
(* merged; `by` says whether the parser of its format was run, the         *)
(* language model, or both; parsed and model are what they reported.       *)
(* Time 0 is an unknown time.                                              *)
(***************************************************************************)
EXTENDS Integers, Sequences, FiniteSets

CONSTANTS Name,               \* the normalized form of each spelling of a name
          Nobody              \* the source of a statement that names none

Explicit == "explicit_reference"
Llm == "llm_extracted"

Assertions == {"present", "added", "removed", "proposed", "discussed", "negated"}

Affirming == {"current", "claimed"}
Denying == {"removed", "absent"}

Statuses == Affirming \union Denying \union {"proposed", "not_merged", "discussed"}

Statement == [type : STRING, source : DOMAIN Name \union {Nobody}, target : DOMAIN Name,
              source_type : STRING, target_type : STRING, origin : {Explicit, Llm},
              assertion : Assertions \union STRING, status : Statuses, as_of : Nat]
SourceDocument ==
  [id : Int, repo : STRING, kind : STRING, state : STRING, updated : Nat, merged : Nat,
   by : {"parser", "model", "both"}, parsed : Seq(Statement), model : Seq(Statement),
   entities : SUBSET DOMAIN Name]

Key(name) == IF name = Nobody THEN Nobody ELSE Name[name]

EdgeOf(r) == <<Key(r.source), r.type, Key(r.target)>>

---------------------------------------------------------------------------
(* One statement.                                                          *)

(* An assertion the model made up is never a claim.                        *)
Known(assertion) == IF assertion \in Assertions THEN assertion ELSE "discussed"

Rejected(doc) == doc.kind = "pr" /\ doc.state \notin {"open", "merged"}
Pending(doc) == doc.kind = "pr" /\ doc.state = "open"

(* Mutant: an open pull request that removes something is believed.        *)
Table_OpenRemoves(doc, assertion) ==
  CASE assertion = "negated" -> "absent"
    [] assertion = "discussed" -> "discussed"
    [] assertion = "removed" -> IF Rejected(doc) THEN "not_merged" ELSE "removed"
    [] OTHER -> IF Rejected(doc) THEN "not_merged"
                ELSE IF Pending(doc) \/ assertion = "proposed" THEN "proposed" ELSE "claimed"

(* What an assertion comes to: what a pull request would do is not in      *)
(* effect before it is merged.                                             *)
Table(doc, assertion) ==
  CASE assertion = "negated" -> "absent"
    [] assertion = "discussed" -> "discussed"
    [] OTHER -> IF Rejected(doc) THEN "not_merged"
                ELSE IF Pending(doc) \/ assertion = "proposed" THEN "proposed"
                ELSE IF assertion = "removed" THEN "removed" ELSE "claimed"

StatementTime(doc) ==
  IF doc.kind = "pr" /\ doc.state = "merged" /\ doc.merged # 0 THEN doc.merged
  ELSE doc.updated

Classify(r, doc) ==
  IF r.origin = Explicit
  THEN [r EXCEPT !.status = "current", !.as_of = doc.updated]
  ELSE [r EXCEPT !.assertion = Known(r.assertion),
                 !.status = Table(doc, Known(r.assertion)),
                 !.as_of = StatementTime(doc)]

(* extract_structured, ground_llm_metadata: the origin a statement claims  *)
(* for itself does not count.                                              *)
Structured(doc) ==
  [i \in DOMAIN doc.parsed |-> Classify([doc.parsed[i] EXCEPT !.origin = Explicit], doc)]
Grounded(doc) ==
  [i \in DOMAIN doc.model |-> Classify([doc.model[i] EXCEPT !.origin = Llm], doc)]

(* What the parser and the model found together, one statement for each    *)
(* edge: the parser's last one, or else the model's first.  A statement    *)
(* keeps its position.                                                     *)
Merge(structured, llm) ==
  LET n == Len(structured)
      Last == {i \in 1..n : \A j \in (i + 1)..n : EdgeOf(structured[j]) # EdgeOf(structured[i])}
      New == {i \in 1..Len(llm) :
                /\ \A j \in 1..n : EdgeOf(structured[j]) # EdgeOf(llm[i])
                /\ \A j \in 1..(i - 1) : EdgeOf(llm[j]) # EdgeOf(llm[i])}
  IN  [i \in Last \union {n + j : j \in New} |-> IF i <= n THEN structured[i] ELSE llm[i - n]]

(* The relationships stored with every chunk of a document, by position.   *)
Relationships(doc) ==
  CASE doc.by = "parser" -> Structured(doc)
    [] doc.by = "model" -> Grounded(doc)
    [] OTHER -> Merge(Structured(doc), Grounded(doc))

---------------------------------------------------------------------------
(* All evidence for a relationship: [status, as_of, place], a record for   *)
(* each document, and its place among them.                                *)

(* max() returns the first of the newest.                                  *)
Latest(claims) ==
  CHOOSE e \in claims :
    \A f \in claims : f.as_of <= e.as_of /\ (f.as_of = e.as_of => e.place <= f.place)

(* What is left when no statement claims anything.                         *)
Unclaimed(found) ==
  IF "proposed" \in found THEN "proposed"
  ELSE IF "not_merged" \in found THEN "not_merged" ELSE "discussed"

Aggregate(evidence) ==
  LET found == {e.status : e \in evidence}
      claims == {e \in evidence : e.status \in Affirming \union Denying}
  IN  [status |-> IF "current" \in found THEN "current"
                  ELSE IF claims # {} THEN Latest(claims).status ELSE Unclaimed(found),
       conflicting |-> found \intersect Affirming # {} /\ found \intersect Denying # {}]

=============================================================================
