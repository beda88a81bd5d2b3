----------------------------- MODULE Decisions ------------------------------
(***************************************************************************)
(* What experts decide through the gateway: the status of a fact (catalog),*)
(* the review of a pending entity (the gateway's own SQL), the merge of an *)
(* entity (catalog; how it meets a commit is Catalog's) and a contradiction *)
(* (epistemic; how it meets the recalculation is Epistemic's).             *)
(***************************************************************************)
EXTENDS Gateway, Integers

VARIABLES
  facts,          \* facts[f]: [kind, access (of its document), status, subject, ...]
  history,        \* kg.fact_history, in the order of the commits: [kind, id, client]
  entities,       \* entities[e]: [status, mergedInto, ...]
  edges,          \* kg.edges: [src, dst, rel]
  disputes        \* epi.contradictions: disputes[k]: [status, decided, ...]

ValidationStatus == {"machine_extracted", "weak_evidence", "multi_source", "expert_validated",
                     "contradicted", "needs_unit_review", "deprecated", "rejected"}
EntityStatus == {"active", "pending_review", "merged", "deprecated"}

(* The columns of an entity that a decision reads or writes, of a fact those *)
(* that it must leave, and the facts of a contradiction.  The two tables of  *)
(* facts are one here.                                                       *)
ASSUME EntitiesAssumption ==
  \A s \in Scenes : \A e \in DOMAIN s.entities :
    /\ {"status", "mergedInto", "aliases"} \subseteq DOMAIN s.entities[e]
    /\ s.entities[e].status \in EntityStatus
    /\ s.entities[e].mergedInto \in DOMAIN s.entities \cup {None}

ASSUME FactsAssumption ==
  \A s \in Scenes :
    /\ \A f \in DOMAIN s.facts :
         /\ {"kind", "doc", "access", "vmin", "vmax", "siMin", "siMax", "quote", "status", "subject",
              "parameter", "id", "confidence", "year"} \subseteq DOMAIN s.facts[f]
         /\ s.facts[f].kind \in {"numeric", "claim"} /\ s.facts[f].status \in ValidationStatus
         /\ {s.facts[f].id, s.facts[f].confidence} \subseteq Int
    /\ \A k \in DOMAIN s.disputes : {"a", "b"} \subseteq DOMAIN s.disputes[k]

(* The foreign keys of facts and edges, and the key of the facts.            *)
ASSUME KeysAssumption ==
  \A s \in Scenes :
    /\ IsFiniteSet(DOMAIN s.facts)
    /\ \A f \in DOMAIN s.facts : {s.facts[f].subject, s.facts[f].parameter} \subseteq DOMAIN s.entities
    /\ \A f, g \in DOMAIN s.facts : s.facts[f].id = s.facts[g].id => f = g
    /\ \A g \in s.edges : {"src", "dst"} \subseteq DOMAIN g /\ {g.src, g.dst} \subseteq DOMAIN s.entities

decisions == <<facts, history, entities, edges, disputes>>

DecisionsTypeOK ==
  /\ \A f \in DOMAIN facts : facts[f].status \in ValidationStatus
  /\ \A i \in DOMAIN history : history[i].client \in Players
  /\ \A e \in DOMAIN entities :
       /\ entities[e].status \in EntityStatus
       /\ (entities[e].mergedInto # None) => entities[e].mergedInto \in DOMAIN entities
  /\ DOMAIN disputes = DOMAIN scene.disputes

DecisionsInit ==
  /\ facts = scene.facts
  /\ history = << >>
  /\ entities = scene.entities
  /\ edges = scene.edges
  /\ disputes = scene.disputes

-----------------------------------------------------------------------------
Body(c) == Request(c).body
Id(c) == Request(c).id

(* readJSONBody, the check of the body that each handler makes first, and a  *)
(* call that fails before it changes anything.                               *)
Refuse(c, required) ==
  /\ \/ (Body(c) = None \/ required = "") /\ Problem(c, 400)
     \/ Fails(c) /\ Problem(c, 500)
  /\ UNCHANGED decisions

(* The answer of a service may be lost after its commit.                     *)
Answer(c, body) ==
  /\ \/ Respond(c, 200, body)
     \/ Fails(c) /\ Respond(c, grpcHTTPStatus("Unavailable"), None)
  /\ UNCHANGED trail

factTable(kind) == kind \in {"numeric", "claim"}
Kind(c) == IF Body(c).kind = "" THEN "numeric" ELSE Body(c).kind

(* The transaction sets no RLS context: what its update sees of the numeric  *)
(* facts depends on whether its connection ever had one (rls.go:25), and an  *)
(* update of no row is no error.                                             *)
Touches(f, level) ==
  f \in DOMAIN facts /\ (facts[f].kind = "numeric" => Sees(level, facts[f].access))

(* Ids are random: a fact that a delivery brings is named by nobody before.   *)
Nameable(f) ==
  f \in DOMAIN facts
  \/ \A i \in DOMAIN scene.deliveries : \A x \in Range(scene.deliveries[i].candidates) : x.row # f

WithFirstDecision(c, level) ==      \* mutant: only a status that no expert gave is replaced
  [f \in DOMAIN facts |->
     IF f = Id(c) /\ Touches(f, level) /\ facts[f].kind = Kind(c)
        /\ facts[f].status \notin {"rejected", "expert_validated"}
     THEN [facts[f] EXCEPT !.status = Body(c).status] ELSE facts[f]]

WithDecision(c, level) ==
  [f \in DOMAIN facts |->
     IF f = Id(c) /\ Touches(f, level) /\ facts[f].kind = Kind(c)
     THEN [facts[f] EXCEPT !.status = Body(c).status] ELSE facts[f]]

updateFactStatusHandler(c) == Refuse(c, IF Body(c) = None THEN "" ELSE Body(c).status)

UpdateFactStatus(c) ==
  /\ Handling(c, "fact") /\ Nameable(Id(c))
  /\ \/ updateFactStatusHandler(c)
     \/ /\ Body(c) # None /\ Body(c).status # ""
        /\ ~factTable(Kind(c)) \/ Body(c).status \notin ValidationStatus
        /\ Problem(c, grpcHTTPStatus("Unknown"))
        /\ UNCHANGED decisions
     \/ /\ Body(c) # None /\ c \notin left
        /\ factTable(Kind(c)) /\ Body(c).status \in ValidationStatus
        /\ \E level \in {"internal", "public"} : facts' = WithDecision(c, level)
        /\ history' = Append(history, [kind |-> Kind(c), id |-> Id(c), client |-> c])
        /\ Answer(c, [fact |-> Id(c)])
        /\ UNCHANGED <<entities, edges, disputes>>

AnyRow(e) == e \in DOMAIN entities      \* mutant: whatever its status

(* updateEntityStatusSQL: only a pending entity.                             *)
PendingRow(e) == e \in DOMAIN entities /\ entities[e].status = "pending_review"

Target == [accept |-> "active", reject |-> "deprecated"]

updateEntityStatus(c) ==
  /\ Handling(c, "review")
  /\ \/ Refuse(c, IF Body(c) = None THEN "" ELSE
                  IF Body(c).status \in DOMAIN Target THEN Body(c).status ELSE "")
     \/ /\ Body(c) # None /\ c \notin left
        /\ Body(c).status \in DOMAIN Target
        /\ \/ ~PendingRow(Id(c)) /\ Problem(c, 404) /\ UNCHANGED entities
           \/ /\ PendingRow(Id(c))
              /\ entities' = [entities EXCEPT ![Id(c)].status = Target[Body(c).status]]
              /\ Write(c, "entity.review")
              /\ Respond(c, 200, [entity |-> Id(c), status |-> Target[Body(c).status]])
        /\ UNCHANGED <<facts, history, edges, disputes>>

Moved(e, x, into) == IF e = x THEN into ELSE e

(* An edge that its twin at the target makes superfluous is deleted, as is   *)
(* one that would become a loop.                                             *)
EdgesAfter(x, into) ==
  {edge \in {[g EXCEPT !.src = Moved(@, x, into), !.dst = Moved(@, x, into)] : g \in edges} :
     {edge.src, edge.dst} # {into} /\ x \notin {edge.src, edge.dst}}

(* Of the numeric facts only those move that the session sees.               *)
FactsAfter(x, into, level) ==
  [f \in DOMAIN facts |->
     IF facts[f].kind = "numeric" /\ Touches(f, level)
     THEN [facts[f] EXCEPT !.subject = Moved(@, x, into), !.parameter = Moved(@, x, into)]
     ELSE facts[f]]

EntitiesAfter(x, into) ==
  [entities EXCEPT ![x].status = "merged", ![x].mergedInto = into,
                   ![x].aliases = IF x = into THEN @ ELSE {},
                   ![into].aliases = @ \cup entities[x].aliases]

(* The unique keys of kg.numeric_facts and kg.entity_aliases; the conditions *)
(* of a fact, which extract leaves empty, are left out.                      *)
SameKey(a, b) == \A k \in {"kind", "doc", "subject", "parameter", "op", "vmin", "vmax", "unitCode"} : a[k] = b[k]

Clashes(x, into, rows) ==
  \/ x # into /\ entities[x].aliases \cap entities[into].aliases # {}
  \/ \E f, g \in {f \in DOMAIN rows : rows[f].kind = "numeric"} : f # g /\ SameKey(rows[f], rows[g])

(* No row of an unknown entity is updated.  An unknown target breaks the     *)
(* foreign key; two aliases or facts that become one break their keys.       *)
mergeEntityHandler(c) == Refuse(c, IF Body(c) = None THEN "" ELSE Body(c).into)

MergeEntities(c) ==
  /\ Handling(c, "merge")
  /\ \/ mergeEntityHandler(c)
     \/ /\ Body(c) # None /\ c \notin left /\ Body(c).into # ""
        /\ LET x == Id(c)  into == Body(c).into IN
           \/ /\ x \in DOMAIN entities /\ into \notin DOMAIN entities
              /\ Problem(c, grpcHTTPStatus("Unknown"))
              /\ UNCHANGED <<facts, history, entities, edges>>
           \/ /\ x \notin DOMAIN entities
              /\ history' = Append(history, [kind |-> "entity", id |-> x, client |-> c])
              /\ Answer(c, [entity |-> x, into |-> into])
              /\ UNCHANGED <<facts, entities, edges>>
           \/ /\ {x, into} \subseteq DOMAIN entities
              /\ \E level \in {"internal", "public"} :
                   LET rows == FactsAfter(x, into, level) IN
                   \/ /\ Clashes(x, into, rows)
                      /\ Problem(c, grpcHTTPStatus("Unknown"))
                      /\ UNCHANGED <<facts, history, entities, edges>>
                   \/ /\ ~Clashes(x, into, rows)
                      /\ facts' = rows
                      /\ entities' = EntitiesAfter(x, into)
                      /\ edges' = EdgesAfter(x, into)
                      /\ history' = Append(history, [kind |-> "entity", id |-> x, client |-> c])
                      /\ Answer(c, [entity |-> x, into |-> into])
        /\ UNCHANGED disputes

(* Any text is stored as a status; a decision of an unknown contradiction    *)
(* returns no row, an error.                                                 *)
mapDecision(decision) ==
  CASE decision = "confirmed" -> "expert_confirmed"
    [] decision = "rejected" -> "expert_rejected"
    [] OTHER -> decision

decideContradictionHandler(c) == Refuse(c, IF Body(c) = None THEN "" ELSE Body(c).decision)

DecideContradiction(c) ==
  /\ Handling(c, "contradiction")
  /\ \/ decideContradictionHandler(c)
     \/ /\ Body(c) # None /\ c \notin left /\ Body(c).decision # ""
        /\ \/ /\ Id(c) \notin DOMAIN disputes
              /\ Problem(c, grpcHTTPStatus("Internal"))
              /\ UNCHANGED disputes
           \/ /\ Id(c) \in DOMAIN disputes
              /\ disputes' = [disputes EXCEPT ![Id(c)].status = mapDecision(Body(c).decision),
                                                 ![Id(c)].decided = TRUE]
              /\ Answer(c, [contradiction |-> Id(c)])
        /\ UNCHANGED <<facts, history, entities, edges>>

(* The queue of what waits for a decision, at most fifty of each kind.       *)
Suspicious(c, statuses) ==
  {f \in DOMAIN facts : /\ facts[f].kind = "numeric"
                        /\ Touches(f, normalizeRLS(caller[c]))
                        /\ facts[f].status \in statuses}

Waiting(c) ==
  CASE Request(c).kind = "entities" -> {e \in DOMAIN entities : PendingRow(e)}
    [] Request(c).kind = "facts" -> Suspicious(c, {"contradicted"})
    [] Request(c).kind = "orphans" -> Suspicious(c, {"needs_unit_review", "weak_evidence"})
    [] OTHER -> {k \in DOMAIN disputes : /\ ~disputes[k].decided
                                         /\ disputes[k].status \in {"suspected", "judge_confirmed"}}

reviewQueue(c) ==
  /\ Handling(c, "queue")
  /\ LET known == Request(c).kind \in {"entities", "facts", "orphans", "contradictions"} IN
     \/ ~known /\ Problem(c, 400)
     \/ known /\ Fails(c) /\ Problem(c, 500)
     \/ /\ known /\ c \notin left
        /\ \E items \in SUBSET Waiting(c) :
             /\ Cardinality(items) = Min({50, Cardinality(Waiting(c))})
             /\ Respond(c, 200, [items |-> items])
        /\ UNCHANGED trail
  /\ UNCHANGED decisions

DecisionsNext ==
  \E c \in Players :
    \/ UpdateFactStatus(c) \/ updateEntityStatus(c) \/ MergeEntities(c)
    \/ DecideContradiction(c) \/ reviewQueue(c)

-----------------------------------------------------------------------------
Succeeded(c, route) == Request(c).route = route /\ reply[c].code = 200

(* Of the experts who review one pending entity at most one is told that the *)
(* review was theirs, and the audit log names no second reviewer.            *)
ReviewedOnce ==
  \A e \in DOMAIN entities :
    LET Of(c) == Request(c).route = "review" /\ Id(c) = e IN
    /\ Cardinality({c \in Players : Of(c) /\ Succeeded(c, "review")}) <= 1
    /\ Cardinality({row \in trail : row.action = "entity.review" /\ Of(row.client)}) <= 1

Decided(c) == \E i \in DOMAIN history : history[i].client = c
=============================================================================
