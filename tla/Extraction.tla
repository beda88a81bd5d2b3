----------------------------- MODULE Extraction -----------------------------
(***************************************************************************)
(* internal/catalog, CommitExtraction: what the bundles of extract become, *)
(* while experts decide and others read.  The deliveries of a scene come   *)
(* one after the other; what two commits at once do to each other, and the *)
(* events of a commit, are Catalog's.                                      *)
(*                                                                         *)
(* A bundle is [document, entities, candidates, typed, slugs]: typed says  *)
(* which references carry a type ("material: slag") and what they become,  *)
(* slugs what slugify makes of a type and a name.  A name stands for its   *)
(* lower case.  Every chunk of a bundle is without an id, so the facts     *)
(* refer to the last of its chunks.                                        *)
(***************************************************************************)
EXTENDS Uploads, Decisions, SequencesExt

VARIABLES
  commit          \* the consumer: [at, step, resolved], the delivery it is at

(* Deliveries come one after the other; what a candidate says of a value may  *)
(* be None in any part.                                                      *)
ASSUME BundlesAssumption ==
  \A s \in Scenes :
    /\ s.deliveries \in Seq(Range(s.deliveries))
    /\ \A i \in DOMAIN s.deliveries :
         /\ s.deliveries[i].entities \in Seq(Range(s.deliveries[i].entities))
         /\ s.deliveries[i].candidates \in Seq(Range(s.deliveries[i].candidates))
         /\ \A x \in Range(s.deliveries[i].candidates) :
              /\ {"op", "unitCode", "vmin", "vmax", "siMin", "siMax", "quote", "id", "confidence"} \subseteq DOMAIN x.said
              /\ {x.said.vmin, x.said.vmax} \subseteq Int \cup {None}
              /\ {x.said.id, x.said.confidence} \subseteq Int

(* A row is what one reading becomes, and its id is its own.                  *)
ASSUME RowsAssumption ==
  \A s \in Scenes : \A i, j \in DOMAIN s.deliveries : \A x \in Range(s.deliveries[i].candidates) :
    /\ \A y \in Range(s.deliveries[j].candidates) :
         (x.row = y.row => x.said = y.said) /\ (x.said.id = y.said.id => x.row = y.row)
    /\ \A f \in DOMAIN s.facts : x.said.id # s.facts[f].id

ExtractionTypeOK ==
  /\ commit.at \in 1..Len(scene.deliveries) + 1
  /\ commit.step \in {"fetch", "resolve", "commit"}
  /\ commit.step = "commit" => Range(commit.resolved) \subseteq DOMAIN entities
  /\ \A f \in DOMAIN facts : {facts[f].subject, facts[f].parameter} \subseteq DOMAIN entities

ExtractionInit == commit = [at |-> 1, step |-> "fetch", resolved |-> << >>]

Bundle == scene.deliveries[commit.at]
Doc == Bundle.document
Following(step, resolved) == [commit EXCEPT !.step = step, !.resolved = resolved]
NextDelivery == [at |-> commit.at + 1, step |-> "fetch", resolved |-> << >>]

-----------------------------------------------------------------------------
(* The names of a bundle, as the commit uses them.                           *)
validEntityTypes ==
  {"material", "process", "equipment", "property", "parameter", "technology", "experiment",
   "publication", "person", "lab", "org", "geography", "topic", "economic_indicator", "climate", "facility"}
validOperators == {"eq", "lt", "lte", "gt", "gte", "range", "approx", "from", "to", "pm"}

ValidateOperator(op) == op \in validOperators

entityTypeAndName(etype, ref) ==
  IF ref \in DOMAIN Bundle.typed THEN Bundle.typed[ref] ELSE <<etype, ref>>

slugify(name, etype) == Bundle.slugs[<<etype, name>>]

NewEntityFails(typed) == typed[1] \notin validEntityTypes \/ typed[2] = ""

uniqueNames ==
  ({e.name : e \in Range(Bundle.entities)}
   \cup UNION {{x.subject, x.parameter} : x \in Range(Bundle.candidates)}) \ {""}

(* resolveByNamesSQL: of several entities that answer to a name any one.     *)
Answering(name) ==
  {e \in DOMAIN entities : /\ entities[e].status \in {"active", "pending_review"}
                           /\ name \in {entities[e].name} \cup entities[e].aliases}

Resolutions ==
  LET answered == {name \in uniqueNames : Answering(name) # {}} IN
  {r \in [answered -> DOMAIN entities] : \A name \in answered : r[name] \in Answering(name)}

(* The names after one more reference, [index, drafts]: one that no name of  *)
(* the index answers to becomes a draft, which takes its name and its slug.  *)
resolveRef(names, name, etype) ==
  LET typed == entityTypeAndName(etype, name)
      slug == slugify(typed[2], typed[1])
  IN IF name \in DOMAIN names.index \/ NewEntityFails(typed) THEN names
     ELSE [index |-> [n \in DOMAIN names.index \cup {name, slug} |->
                        IF n \in {name, slug} THEN slug ELSE names.index[n]],
           drafts |-> names.drafts \cup {slug}]

(* The parameter of a candidate whose subject is refused is not looked at.   *)
WithCandidate(names, x) ==
  LET withSubject == resolveRef(names, x.subject, "process") IN
  IF ~ValidateOperator(x.said.op) THEN names
  ELSE IF x.subject \notin DOMAIN withSubject.index THEN withSubject
  ELSE resolveRef(withSubject, x.parameter, "parameter")

WithEntity(names, e) == resolveRef(names, e.name, e.type)

(* One more item of the bundle; only a candidate says anything of a value.   *)
WithItem(names, x) == IF "said" \in DOMAIN x THEN WithCandidate(names, x) ELSE WithEntity(names, x)

IndexedNames == FoldLeft(WithItem, [index |-> commit.resolved, drafts |-> {}], Bundle.entities \o Bundle.candidates)
nameIndex == IndexedNames.index

ListedEntities ==      \* mutant: what only a candidate names is not inserted
  FoldLeft(WithEntity, [index |-> commit.resolved, drafts |-> {}], Bundle.entities).drafts

newEntities == IndexedNames.drafts

NameOf(slug) ==
  CHOOSE name \in {k[2] : k \in {k \in DOMAIN Bundle.slugs : Bundle.slugs[k] = slug}} : TRUE

-----------------------------------------------------------------------------
(* A candidate becomes a fact, with a status of its own.                     *)
Ordered(lo, hi) ==
  IF lo # None /\ hi # None THEN <<Min({lo, hi}), Max({lo, hi})>> ELSE <<lo, hi>>

NormalizeBounds(said) ==
  LET v == Ordered(said.vmin, said.vmax)  si == Ordered(said.siMin, said.siMax) IN
  [said EXCEPT !.vmin = v[1], !.vmax = v[2], !.siMin = si[1], !.siMax = si[2]]

validBounds(said) ==
  CASE said.op \in {"range", "pm"} -> said.vmin # None /\ said.vmax # None
    [] said.op \in {"lte", "lt", "to"} -> said.vmax # None
    [] said.op \in {"gte", "gt", "from"} -> said.vmin # None
    [] OTHER -> said.vmin # None \/ said.vmax # None

(* def: [min, max] of the parameter, if the parameter had an entity before.  *)
ParameterDef(name) ==
  IF name \in DOMAIN commit.resolved /\ commit.resolved[name] \in DOMAIN scene.parameterDefs
  THEN scene.parameterDefs[commit.resolved[name]] ELSE None

plausible(said, def) ==
  \A v \in {said.siMin, said.siMax} \ {None} : def.min <= v /\ v <= def.max

ClassifyFact(said, def) ==
  CASE said.unitCode = "" -> [status |-> "needs_unit_review", confidence |-> said.confidence]
    [] said.unitCode # "" /\ ~validBounds(said) ->
         [status |-> "rejected", confidence |-> said.confidence]
    [] said.unitCode # "" /\ validBounds(said) /\ def # None /\ ~plausible(said, def) ->
         [status |-> "weak_evidence", confidence |-> Min({said.confidence, 50})]
    [] OTHER -> [status |-> "machine_extracted", confidence |-> said.confidence]

Committable(x) ==
  ValidateOperator(x.said.op) /\ {x.subject, x.parameter} \subseteq DOMAIN nameIndex

(* An empty geography is the document's.                                     *)
FactFrom(x) ==
  LET said == NormalizeBounds(x.said)
      class == ClassifyFact(said, ParameterDef(x.parameter))
      context == docs[Doc]
      columns == [kind |-> "numeric", doc |-> Doc, access |-> context.access, docType |-> context.docType,
                  status |-> class.status, confidence |-> class.confidence, year |-> context.year,
                  geography |-> IF said.geography = "" THEN context.geography ELSE said.geography,
                  subject |-> nameIndex[x.subject], parameter |-> nameIndex[x.parameter]]
  IN [k \in DOMAIN columns \cup DOMAIN said |-> IF k \in DOMAIN columns THEN columns[k] ELSE said[k]]

NewRowsWithTwins ==       \* mutant: only stored rows are compared
  LET xs == Bundle.candidates
      wanted == {i \in DOMAIN xs : Committable(xs[i])}
      Stored(x) == \E f \in DOMAIN facts : SameKey(facts[f], FactFrom(x))
  IN {xs[i] : i \in {i \in wanted : ~Stored(xs[i])}}

(* ON CONFLICT DO NOTHING: rows of the natural key that exist stay as they   *)
(* are; of two candidates with one key the first is inserted.                *)
NewRows ==
  LET xs == Bundle.candidates
      wanted == {i \in DOMAIN xs : Committable(xs[i])}
      Stored(x) == \E f \in DOMAIN facts : SameKey(facts[f], FactFrom(x))
      isNew == {i \in wanted : /\ ~Stored(xs[i])
                               /\ \A j \in wanted : j < i => ~SameKey(FactFrom(xs[j]), FactFrom(xs[i]))}
  IN {xs[i] : i \in isNew}

InsertedFacts ==
  [f \in DOMAIN facts \cup {x.row : x \in NewRows} |->
     IF f \in DOMAIN facts THEN facts[f] ELSE FactFrom(CHOOSE x \in NewRows : x.row = f)]

(* A slug that is taken keeps its row, whatever its status, and gets one     *)
(* more alias.                                                               *)
InsertedEntities ==
  [e \in DOMAIN entities \cup newEntities |->
     IF e \notin DOMAIN entities
     THEN [status |-> "pending_review", mergedInto |-> None, name |-> NameOf(e), aliases |-> {NameOf(e)}]
     ELSE IF e \in newEntities THEN [entities[e] EXCEPT !.aliases = @ \cup {NameOf(e)}]
     ELSE entities[e]]

recomputeEdges(rows) ==
  {[src |-> rows[f].subject, dst |-> rows[f].parameter, rel |-> "OPERATES_AT"] :
     f \in {f \in DOMAIN rows : rows[f].kind = "numeric" /\ rows[f].doc = Doc}}

(* Stored chunks keep their ids, so a new fact refers to no chunk then.      *)
Chunked == docs[Doc].status = "indexed" \/ \E k \in DOMAIN scene.chunks : scene.chunks[k].doc = Doc

CommitFails ==
  Doc \in DOMAIN docs =>
    (Chunked /\ NewRows # {}) \/ \E x \in NewRows : x.said.unitCode \notin {""} \cup scene.units

-----------------------------------------------------------------------------
(* The delivery that cannot be processed now is answered with Nak, and comes *)
(* again as one of the later deliveries, if at all.                          *)
Consuming(step) == commit.at <= Len(scene.deliveries) /\ commit.step = step
Nak == commit' = NextDelivery /\ UNCHANGED <<docs, facts, entities, edges>>

fetchBundle ==
  /\ Consuming("fetch")
  /\ \/ /\ Doc # None
        /\ commit' = Following("resolve", << >>)
        /\ UNCHANGED <<docs, facts, entities, edges>>
     \/ (Doc = None \/ scene.faults) /\ Nak

ResolveByNames ==
  /\ Consuming("resolve")
  /\ \/ /\ \E r \in Resolutions : commit' = Following("commit", r)
        /\ UNCHANGED <<docs, facts, entities, edges>>
     \/ scene.faults /\ Nak

Commit ==
  /\ Consuming("commit")
  /\ \/ /\ ~CommitFails
        /\ entities' = InsertedEntities
        /\ facts' = InsertedFacts
        /\ edges' = edges \cup recomputeEdges(facts')
        /\ docs' = [docs EXCEPT ![Doc].status = "indexed"]
        /\ commit' = NextDelivery
     \/ (CommitFails \/ scene.faults) /\ Nak

ExtractionNext ==
  /\ fetchBundle \/ ResolveByNames \/ Commit
  /\ UNCHANGED <<scene, gateway, blobs, outbox, work, history, disputes>>

-----------------------------------------------------------------------------
Delivered == UNION {Range(scene.deliveries[i].candidates) : i \in DOMAIN scene.deliveries}
SaidOf(f) == (CHOOSE x \in Delivered : x.row = f).said

(* The history of a fact that every session sees tells its status, however    *)
(* often its document is committed again: the last decision it names is in    *)
(* force, one it does not name was not made, and nobody but an expert hides   *)
(* or restores what a commit found good or bad.                               *)
HistoryTellsStatus ==
  \A f \in {f \in DOMAIN facts : Touches(f, "public")} :
    LET naming == {i \in DOMAIN history : history[i].id = f /\ history[i].kind = facts[f].kind} IN
    CASE naming # {} -> facts[f].status = Body(history[Max(naming)].client).status
      [] naming = {} /\ f \in DOMAIN scene.facts -> facts[f].status = scene.facts[f].status
      [] OTHER -> facts[f].status \in {"rejected", "needs_unit_review"} <=>
                    (SaidOf(f).unitCode = "" \/ ~validBounds(SaidOf(f)))

(* Of one reading of a document there is one fact, however often the document *)
(* is committed, unless an entity was merged in between.                      *)
OneFactPerReading ==
  \A f \in DOMAIN facts \ DOMAIN scene.facts : \A g \in DOMAIN facts \ {f} :
    (/\ facts[f].doc = facts[g].doc /\ facts[f].quote = facts[g].quote
     /\ facts[f].op = facts[g].op /\ <<facts[f].vmin, facts[f].vmax>> = <<facts[g].vmin, facts[g].vmax>>)
       => \E i \in DOMAIN history : history[i].kind = "entity"
=============================================================================
