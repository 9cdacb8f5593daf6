---------------------------- MODULE FindRelated -----------------------------
(***************************************************************************)
(* The answer to find_related (mcp/tools.py, vectorstore/memory.py and     *)
(* schema.py): from the documents in the lake, the relationships that      *)
(* point to or from an entity, each once, with its overall status.         *)
(*                                                                         *)
(* A stored row holds its document's statements and, flattened, the keys   *)
(* of their targets and sources, their types and the entities named: the   *)
(* store matches each of these fields on its own.  Rows are one per        *)
(* document (every chunk of it carries the same), in one generation; the   *)
(* limits on their number are not reached.                                 *)
(***************************************************************************)
EXTENDS RelationshipStatus

CONSTANTS Questions,          \* pairs of a set of documents that are indexed and a query
          Anything            \* a type or repository that is not given

Query == [name : DOMAIN Name, type : STRING, types : SUBSET STRING,
          direction : {"both", "incoming", "outgoing"}, repo : STRING,
          statuses : SUBSET STRING]

ASSUME QuestionsAssumption ==
  \A q \in Questions : /\ q[1] \subseteq SourceDocument /\ IsFiniteSet(q[1])
                       /\ \A a, b \in q[1] : a.id = b.id => a = b
                       /\ q[2] \in Query

VARIABLES lake, query,        \* what is indexed, and what is asked
          answered, edges     \* whether it is answered, and the relationships

relatedVars == <<lake, query, answered, edges>>

---------------------------------------------------------------------------
(* The store.                                                              *)

Row(doc) ==
  LET rels == Relationships(doc)
  IN  [id |-> doc.id, repo |-> doc.repo, updated_at |-> doc.updated,
       relationships |-> rels,
       target_keys |-> {Key(rels[i].target) : i \in DOMAIN rels} \ {Nobody},
       source_keys |-> {Key(rels[i].source) : i \in DOMAIN rels} \ {Nobody},
       types |-> {rels[i].type : i \in DOMAIN rels},
       entities |-> {Key(e) : e \in doc.entities} \ {Nobody}]

(* Newest source version first, then by document.                          *)
Before(a, b) == a.updated_at > b.updated_at \/ (a.updated_at = b.updated_at /\ a.id < b.id)

Rows == {Row(doc) : doc \in lake}

---------------------------------------------------------------------------
(* The tool.                                                               *)

InScope(row) == query.repo \in {Anything, row.repo}

(* The rows of a search that asks for some types of relationship.          *)
Typed(row) == InScope(row) /\ (query.types = {} \/ row.types \intersect query.types # {})

Incoming == query.direction \in {"both", "incoming"}
Outgoing == query.direction \in {"both", "outgoing"}
Wanted == Key(query.name)

(* The searches that return a row, in the order they are made: by the      *)
(* targets of its statements, by their sources, by the entities it names.  *)
Found(row) ==
  {n \in 1..3 : \/ n = 1 /\ Incoming /\ Typed(row) /\ Wanted \in row.target_keys
                \/ n = 2 /\ Outgoing /\ Typed(row) /\ Wanted \in row.source_keys
                \/ n = 3 /\ InScope(row) /\ Wanted \in row.entities}

(* The rows looked at; without a name nothing is.                          *)
Collected == {row \in Rows : Wanted # Nobody /\ Found(row) # {}}

(* Whether row a comes before row b: in an earlier search, or in the same. *)
Ahead(a, b) ==
  LET Earlier(x, y) == \E n \in Found(x) : \A m \in Found(y) : n < m
  IN  Earlier(a, b) \/ (~Earlier(b, a) /\ Before(a, b))

TypeCompatible(actual) == Anything \in {query.type, actual} \/ query.type = actual

(* A statement about the entity asked for, seen from that end of it.       *)
About(r, d) ==
  IF d = "incoming"
  THEN Incoming /\ Key(r.target) = Wanted /\ TypeCompatible(r.target_type)
  ELSE Outgoing /\ Key(r.source) = Wanted /\ TypeCompatible(r.source_type)

(* Mutant: a row found by the types asked for is taken to hold only those. *)
Matched_AnyType(r) == {d \in {"incoming", "outgoing"} : About(r, d)}

Matched(r) ==
  {d \in {"incoming", "outgoing"} :
     About(r, d) /\ (query.types = {} \/ r.type \in query.types)}

(* What a row says of an edge, by position.                                *)
Spoken(row, d, of) ==
  {i \in DOMAIN row.relationships :
     EdgeOf(row.relationships[i]) = of /\ d \in Matched(row.relationships[i])}

(* A document speaks once of an edge: its first statement counts.          *)
FirstSpoken(row, d, of) ==
  row.relationships[CHOOSE i \in Spoken(row, d, of) : \A j \in Spoken(row, d, of) : i <= j]

AddEdge(d, of) ==
  {[status |-> FirstSpoken(row, d, of).status, as_of |-> FirstSpoken(row, d, of).as_of,
    place |-> Cardinality({other \in Collected : Ahead(other, row)})] :
     row \in {r \in Collected : Spoken(r, d, of) # {}}}

EdgesFound ==
  UNION {UNION {{[direction |-> d, of |-> EdgeOf(row.relationships[i])] :
                   d \in Matched(row.relationships[i])} : i \in DOMAIN row.relationships} :
           row \in Collected}

(* Another edge of the source, read from its configuration.                *)
Configured(edge, all) ==
  edge.of[1] # Nobody /\ \E e \in all : /\ e.status = "current"
                                        /\ e.direction = edge.direction
                                        /\ <<e.of[1], e.of[2]>> = <<edge.of[1], edge.of[2]>>

FinalizeEdges(found) ==
  LET all == {[direction |-> e.direction, of |-> e.of,
               status |-> Aggregate(AddEdge(e.direction, e.of)).status,
               conflicting |-> Aggregate(AddEdge(e.direction, e.of)).conflicting] : e \in found}
  IN  {[direction |-> e.direction, of |-> e.of, status |-> e.status,
        conflicting |-> e.conflicting,
        absent_from_current_config |-> e.status # "current" /\ Configured(e, all)] : e \in all}

Answer ==
  /\ ~answered
  /\ answered' = TRUE
  /\ edges' = {e \in FinalizeEdges(EdgesFound) :
                 query.statuses = {} \/ e.status \in query.statuses}
  /\ UNCHANGED <<lake, query>>

RelatedInit == /\ \E q \in Questions : lake = q[1] /\ query = q[2]
               /\ answered = FALSE /\ edges = {}

RelatedSpec == RelatedInit /\ [][Answer]_relatedVars

---------------------------------------------------------------------------
(* Properties.                                                             *)

(* find_related reports exactly the relationships of the documents the     *)
(* query reaches that name the entity, at the end, of the types and of the *)
(* endpoint's type asked for: the flattened keys the store matches miss    *)
(* none, and what they match by a combination of several statements of a   *)
(* document is not reported (chunk_to_source, collect, _add_edge).         *)
RelatedExactly ==
  LET Compatible(t) == query.type = Anything \/ t \in {Anything, query.type}
      Says(doc, d, of) ==
        \E i \in DOMAIN Relationships(doc) :
          LET r == Relationships(doc)[i]
              end == IF d = "incoming" THEN [name |-> r.target, type |-> r.target_type]
                     ELSE [name |-> r.source, type |-> r.source_type]
          IN  /\ EdgeOf(r) = of
              /\ Key(end.name) = Key(query.name) /\ Compatible(end.type)
              /\ query.direction \in {"both", d}
              /\ query.types = {} \/ r.type \in query.types
      known == UNION {{EdgeOf(Relationships(doc)[i]) : i \in DOMAIN Relationships(doc)} :
                        doc \in lake}
  IN  answered /\ query.statuses = {} =>
        {[direction |-> e.direction, of |-> e.of] : e \in edges}
          = {e \in [direction : {"incoming", "outgoing"}, of : known] :
               /\ Key(query.name) # Nobody
               /\ \E doc \in lake : /\ query.repo \in {Anything, doc.repo}
                                    /\ Says(doc, e.direction, e.of)}

---------------------------------------------------------------------------
(* What the documents bear out of an edge e = [direction, of].             *)

(* A statement of the edge that the query's type does not rule out.        *)
Fits(r, e) ==
  /\ EdgeOf(r) = e.of
  /\ LET type == IF e.direction = "incoming" THEN r.target_type ELSE r.source_type
     IN  query.type = Anything \/ type \in {Anything, query.type}

(* A configuration file states it; of two statements of a file that the    *)
(* model has read as well the last one counts.                             *)
Configures(doc, e) ==
  /\ doc.by # "model"
  /\ \E i \in DOMAIN doc.parsed :
       /\ Fits(doc.parsed[i], e)
       /\ doc.by = "both" => \A j \in (i + 1)..Len(doc.parsed) : EdgeOf(doc.parsed[j]) # e.of

(* The model found one of the assertions in a text, before any other of    *)
(* the edge, in a document whose parser did not find it.                   *)
Writes(doc, e, assertions) ==
  /\ doc.by = "both" => \A j \in DOMAIN doc.parsed : EdgeOf(doc.parsed[j]) # e.of
  /\ doc.by # "parser"
  /\ \E i \in DOMAIN doc.model :
       /\ Fits(doc.model[i], e) /\ doc.model[i].assertion \in assertions
       /\ \A j \in 1..(i - 1) : IF doc.by = "both" THEN EdgeOf(doc.model[j]) # e.of
                                ELSE ~Fits(doc.model[j], e)

InEffect(doc) == doc.kind # "pr" \/ doc.state = "merged"

Affirms(doc, e) == Configures(doc, e) \/ (InEffect(doc) /\ Writes(doc, e, {"present", "added"}))

Denies(doc, e) == Writes(doc, e, {"negated"}) \/ (InEffect(doc) /\ Writes(doc, e, {"removed"}))

Reached == {doc \in lake : query.repo \in {Anything, doc.repo}}

(* The status of a relationship is one its documents bear out: current     *)
(* only when a configuration file states it, claimed only when a statement *)
(* in effect affirms it and no newer one denies it, removed or absent only *)
(* when one denies it and no newer one affirms it, and otherwise only when *)
(* no statement does either.  What an open or a rejected pull request      *)
(* would add or remove is not in effect, and an assertion outside the      *)
(* contract states nothing (status.py, tools.py _finalize_edges).          *)
StatusJustified ==
  LET Newer(a, b) == StatementTime(a) > StatementTime(b)
  IN  \A e \in edges :
        /\ e.status = "current" <=> \E doc \in Reached : Configures(doc, e)
        /\ e.status = "claimed" =>
             \E doc \in Reached : /\ Affirms(doc, e)
                                  /\ \A d \in Reached : Denies(d, e) => ~Newer(d, doc)
        /\ e.status \in Denying =>
             \E doc \in Reached : /\ Denies(doc, e)
                                  /\ \A d \in Reached : Affirms(d, e) => ~Newer(d, doc)
        /\ e.status \in {"proposed", "not_merged", "discussed"} =>
             ~\E doc \in Reached : Affirms(doc, e) \/ Denies(doc, e)
        /\ e.conflicting <=> /\ \E doc \in Reached : Affirms(doc, e)
                             /\ \E doc \in Reached : Denies(doc, e)

=============================================================================
