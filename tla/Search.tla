------------------------------- MODULE Search -------------------------------
(***************************************************************************)
(* internal/search: the evidence for a plan, and what the browse routes    *)
(* read.  Each read is a transaction of its own under the caller's access, *)
(* so the decisions of experts fall between the reads of one request.      *)
(* Full-text and vector search are external: a scene says what they find.  *)
(***************************************************************************)
EXTENDS Decisions, QueryPlan

CONSTANTS
  FinalTop,       \* ranking.final_top
  FtsTop,         \* ranking.fts_top
  CurrentYear,
  Freshness       \* 100 * exp(-age / 10), rounded

(* The rounded ages are those of the years that documents have; 0 is none.   *)
KnownYear(year) == year = 0 \/ (year \in Int /\ CurrentYear - year \in DOMAIN Freshness)

ASSUME RankingAssumption ==
  /\ FinalTop \in Nat
  /\ \A age \in DOMAIN Freshness : Freshness[age] \in Nat
  /\ \A s \in Scenes :
       /\ \A d \in DOMAIN s.docs : KnownYear(s.docs[d].year)
       /\ \A f \in DOMAIN s.facts : KnownYear(s.facts[f].year)

VARIABLES
  search          \* search[c]: [step, plan, since, before, ids, pack], the request in the service

Nothing == [step |-> "none", plan |-> None, since |-> 0, before |-> {}, ids |-> {}, pack |-> None]

NoStats == [sources |-> 0, ru |-> 0, foreign |-> 0, yearFrom |-> 0, yearTo |-> 0]

EmptyPack ==
  [facts |-> << >>, subjects |-> << >>, chunks |-> << >>, consensus |-> << >>, contradictions |-> {}, gaps |-> << >>,
   experts |-> << >>, nodes |-> {}, edges |-> {}, stats |-> NoStats]

ReadSteps == <<"expand", "facts", "chunks", "consensus", "contradictions", "gaps", "experts", "graph">>

SearchTypeOK ==
  /\ DecisionsTypeOK
  /\ \A c \in Players :
       /\ search[c].step \in Range(ReadSteps) \cup {"none", "ready", "failed", "done"}
       /\ search[c].ids \subseteq DOMAIN entities
       /\ search[c].step \notin {"none", "failed"} => Range(search[c].pack.facts) \subseteq DOMAIN facts

SearchInit == search = [c \in Players |-> Nothing]

-----------------------------------------------------------------------------
VisibleFact(f, level) == f \in DOMAIN facts /\ facts[f].kind = "numeric" /\ Sees(level, facts[f].access)
Hidden == {"needs_unit_review", "rejected", "deprecated"}

(* Entities are found by slug, whatever became of them; ids are theirs.      *)
Neighbours(es) ==
  {g.dst : g \in {g \in edges : g.src \in es}} \cup {g.src : g \in {g \in edges : g.dst \in es}}
expandEntityIDs(slugs) == LET base == slugs \cap DOMAIN entities IN base \cup Neighbours(base)

(* factFilter: the constraints with a known unit and one of four operators.  *)
Unbounded == 2000000000

RangeOf(constraint) ==
  [parameter |-> constraint.parameter,
   lo |-> IF constraint.op = "lte" THEN -Unbounded ELSE constraint.loSi,
   hi |-> IF constraint.op = "gte" THEN Unbounded ELSE constraint.hiSi]

factFilter(plan) ==
  [geography |-> IF plan.geography \in {"ru", "foreign"} THEN plan.geography ELSE "",
   ranges |-> {RangeOf(c) : c \in {c \in Range(plan.constraints) :
                                     c.si /\ c.op \in {"range", "eq", "lte", "gte"}}}]
NoFilter == [geography |-> "", ranges |-> {}]

RangesFor(f, filter) == {r \in filter.ranges : r.parameter = facts[f].parameter}

ConsideredUnjudged(f, ids, filter, level) ==     \* mutant: whatever its status
  /\ VisibleFact(f, level)
  /\ {facts[f].subject, facts[f].parameter} \cap ids # {}
  /\ filter.geography \in {"", facts[f].geography}

Considered(f, ids, filter, level) ==
  /\ VisibleFact(f, level)
  /\ {facts[f].subject, facts[f].parameter} \cap ids # {}
  /\ facts[f].status \notin Hidden
  /\ filter.geography \in {"", facts[f].geography}

(* A range whose bounds are in the wrong order is an error of the database.  *)
BadRange(ids, filter, level) ==
  \E f \in DOMAIN facts : Considered(f, ids, filter, level) /\ \E r \in RangesFor(f, filter) : r.lo > r.hi

(* The generated column si_range: a bound that a fact has not is no bound.    *)
siRange(f) ==
  [lo |-> IF facts[f].siMin = None THEN -Unbounded ELSE facts[f].siMin,
   hi |-> IF facts[f].siMax = None THEN Unbounded ELSE facts[f].siMax]

queryFacts(ids, filter, level) ==
  {f \in DOMAIN facts :
     /\ Considered(f, ids, filter, level)
     /\ \/ RangesFor(f, filter) = {}
        \/ \E r \in RangesFor(f, filter) : r.lo <= siRange(f).hi /\ siRange(f).lo <= r.hi}

-----------------------------------------------------------------------------
(* ranking.go, in percent.                                                   *)
sourceReliability(docType) ==
  CASE docType \in {"protocol", "report", "dataset"} -> 100
    [] docType \in {"article", "handbook", "normative"} -> 90
    [] docType = "patent" -> 80
    [] docType = "web" -> 50
    [] OTHER -> 70

validationLevel(status) ==
  CASE status = "expert_validated" -> 100
    [] status = "multi_source" -> 90
    [] status = "weak_evidence" -> 50
    [] status = "contradicted" -> 30
    [] OTHER -> 60

score(f, slugs) ==
  LET match == IF {facts[f].subject, facts[f].parameter} \cap slugs # {} THEN 100 ELSE 60
      rerank == 50 + ((facts[f].confidence + 1) \div 2)
      freshness == IF facts[f].year = 0 THEN 50 ELSE Freshness[CurrentYear - facts[f].year]
  IN (35 * match + 25 * rerank + 15 * sourceReliability(facts[f].docType)
      + 15 * validationLevel(facts[f].status) + 10 * freshness + 50) \div 100

(* By a strict order: each has as many before it as its place says.          *)
Sorted(fs, Before(_, _)) ==
  AntiFunction([f \in fs |-> 1 + Cardinality({g \in fs : Before(g, f)})])

(* Among equals the confidence decides, then the id.                         *)
rankFacts(fs, slugs) ==
  LET Before(f, g) == \/ score(f, slugs) > score(g, slugs)
                      \/ score(f, slugs) = score(g, slugs) /\ facts[f].confidence > facts[g].confidence
                      \/ score(f, slugs) = score(g, slugs) /\ facts[f].confidence = facts[g].confidence
                           /\ facts[f].id < facts[g].id
  IN Sorted(fs, Before)

First(n, s) == [i \in {i \in DOMAIN s : i <= n} |-> s[i]]

(* Those of a ranking, which names nothing twice, that are in S.             *)
Among(S, ranking) ==
  LET Place(k) == CHOOSE i \in DOMAIN ranking : ranking[i] = k
      Before(k, l) == Place(k) < Place(l)
  IN Sorted(S \cap Range(ranking), Before)

(* Facts cite one another by their places in the pack.                       *)
Ref(f, pack) == CHOOSE i \in DOMAIN pack.facts : pack.facts[i] = f

RemapWithoutDrop(ks, pack) ==        \* mutant: a fact that is not in the pack has the next place
  LET At(f) == IF f \in Range(pack.facts) THEN Ref(f, pack) ELSE Len(pack.facts) + 1 IN
  {[id |-> k, a |-> At(disputes[k].a), b |-> At(disputes[k].b)] : k \in ks}

remapContradictions(ks, pack) ==
  {[id |-> k, a |-> Ref(disputes[k].a, pack), b |-> Ref(disputes[k].b, pack)] :
     k \in {k \in ks : {disputes[k].a, disputes[k].b} \subseteq Range(pack.facts)}}

(* sources are documents, with what their last fact says.                    *)
StatsOf(sources, geography, year) ==
  LET years == {year[d] : d \in sources} \ {0} IN
  [sources |-> Cardinality(sources),
   ru |-> Cardinality({d \in sources : geography[d] = "ru"}),
   foreign |-> Cardinality({d \in sources : geography[d] = "foreign"}),
   yearFrom |-> IF years = {} THEN 0 ELSE Min(years),
   yearTo |-> IF years = {} THEN 0 ELSE Max(years)]

Sources(fs) == {facts[f].doc : f \in Range(fs)}
LastOf(d, fs) == facts[fs[Max({i \in DOMAIN fs : facts[fs[i]].doc = d})]]

computeStats(fs) ==
  StatsOf(Sources(fs), [d \in Sources(fs) |-> LastOf(d, fs).geography],
          [d \in Sources(fs) |-> LastOf(d, fs).year])

-----------------------------------------------------------------------------
planSlugs(c) == Range(search[c].plan.entities)

StartSearch(c, plan) ==
  search' = [search EXCEPT ![c] = [step |-> IF plan.entities = << >> THEN "ready" ELSE "expand",
                                   plan |-> plan, since |-> Len(history),
                                   before |-> DOMAIN facts, ids |-> {},
                                   pack |-> EmptyPack]]

(* The step after a read that succeeded with this pack.                      *)
Reading(c, step) == search[c].step = step /\ c \notin left
Then(c, pack) ==
  LET i == CHOOSE i \in DOMAIN ReadSteps : ReadSteps[i] = search[c].step IN
  search' = [search EXCEPT ![c].pack = pack,
                           ![c].step = IF i = Len(ReadSteps) THEN "ready" ELSE ReadSteps[i + 1]]

ExpandEntityIDs(c) ==
  /\ Reading(c, "expand")
  /\ LET ids == expandEntityIDs(planSlugs(c)) IN
     search' = [search EXCEPT ![c].ids = ids, ![c].step = IF ids = {} THEN "ready" ELSE "facts"]

Facts(c) ==
  /\ Reading(c, "facts")
  /\ LET filter == factFilter(search[c].plan) IN
     \/ /\ ~BadRange(search[c].ids, filter, Level(c))
        /\ LET found == First(FinalTop, rankFacts(queryFacts(search[c].ids, filter, Level(c)), planSlugs(c))) IN
           Then(c, [search[c].pack EXCEPT !.facts = found,
                                          !.subjects = [f \in Range(found) |-> facts[f].subject]])
     \/ /\ BadRange(search[c].ids, filter, Level(c))
        /\ search' = [search EXCEPT ![c].step = "failed"]

ChunksUpTo(level) == {k \in DOMAIN scene.chunks : Sees(level, scene.chunks[k].access)}
VisibleChunks(ranking, level) == Among(ChunksUpTo(level), ranking)

FTSChunks(c) ==
  /\ Reading(c, "chunks")
  /\ Then(c, [search[c].pack EXCEPT
                !.chunks = First(FinalTop, First(FtsTop, VisibleChunks(scene.ftsChunks, Level(c))))])

About(c, x) == {x.subject, x.parameter} \cap search[c].ids # {}

Consensus(c) ==
  /\ Reading(c, "consensus")
  /\ Then(c, [search[c].pack EXCEPT
                !.consensus = SelectSeq(scene.consensus, LAMBDA x : About(c, x) /\ x.agreed # << >>)])

Contradictions(c) ==
  /\ Reading(c, "contradictions")
  /\ LET ks == {k \in DOMAIN disputes :
                  /\ About(c, disputes[k])
                  /\ disputes[k].status \in {"judge_confirmed", "expert_confirmed"}
                  /\ VisibleFact(disputes[k].a, Level(c)) /\ VisibleFact(disputes[k].b, Level(c))}
     IN Then(c, [search[c].pack EXCEPT !.contradictions = remapContradictions(ks, search[c].pack)])

Gaps(c) ==
  /\ Reading(c, "gaps")
  /\ Then(c, [search[c].pack EXCEPT
                !.gaps = SelectSeq(scene.gaps, LAMBDA x : {x.material, x.process} \cap search[c].ids # {})])

TopicExperts(ids) == First(5, SelectSeq(scene.experts, LAMBDA x : x.entity \in ids))

Experts(c) ==
  /\ Reading(c, "experts")
  /\ Then(c, [search[c].pack EXCEPT !.experts = TopicExperts(search[c].ids)])

egoGraph(ids) ==
  LET nodes == (ids \cup Neighbours(ids)) \cap DOMAIN entities IN
  [nodes |-> nodes, edges |-> {g \in edges : {g.src, g.dst} \subseteq nodes}]

EgoGraph(c) ==
  /\ Reading(c, "graph")
  /\ LET graph == egoGraph(search[c].ids) IN
     Then(c, [search[c].pack EXCEPT !.nodes = graph.nodes, !.edges = graph.edges,
                                    !.stats = computeStats(search[c].pack.facts)])

SearchFails(c) ==
  /\ search[c].step \in Range(ReadSteps) /\ Fails(c)
  /\ search' = [search EXCEPT ![c].step = "failed"]

buildPack(c) ==
  \/ ExpandEntityIDs(c) \/ Facts(c) \/ FTSChunks(c) \/ Consensus(c)
  \/ Contradictions(c) \/ Gaps(c) \/ Experts(c) \/ EgoGraph(c) \/ SearchFails(c)

-----------------------------------------------------------------------------
(* searchHandler: the plan is the client's.                                  *)
searchHandler(c) ==
  /\ Handling(c, "search")
  /\ \/ /\ search[c].step = "none" /\ Body(c) = None
        /\ Problem(c, 400)
        /\ UNCHANGED search
     \/ /\ search[c].step = "none" /\ Body(c) # None
        /\ StartSearch(c, Body(c).plan)
        /\ UNCHANGED <<scene, gateway>>
     \/ /\ search[c].step = "ready"
        /\ Respond(c, 200, search[c].pack) /\ UNCHANGED trail
        /\ search' = [search EXCEPT ![c].step = "done"]
     \/ /\ search[c].step = "failed"
        /\ Problem(c, grpcHTTPStatus("Internal"))
        /\ UNCHANGED search
  /\ UNCHANGED decisions

(* The routes that show one list or one entity.  What they are asked for is  *)
(* a slug, or an id, which only entity knows: slug is None then.             *)
Shows(c, route, body) ==
  /\ Handling(c, route)
  /\ \/ c \notin left /\ Respond(c, 200, body)
     \/ Fails(c) /\ Respond(c, grpcHTTPStatus("Internal"), None)
  /\ UNCHANGED <<trail, decisions, search>>

Slug(c) == {Request(c).slug} \cap DOMAIN entities

FactsOf(e, level) ==
  {f \in DOMAIN facts : VisibleFact(f, level) /\ e \in {facts[f].subject, facts[f].parameter}}
Card(e, level) ==
  [entity |-> e, facts |-> Cardinality(FactsOf(e, level)),
   relations |-> {g \in edges : e \in {g.src, g.dst}}]

pageLimit(limit) == IF limit = 0 THEN 50 ELSE Min({100, limit})

ListEntities(c) ==
  LET active == {e \in DOMAIN entities : entities[e].status = "active"} IN
  \E page \in SUBSET active :
    /\ Cardinality(page) = Min({Cardinality(active), pageLimit(Request(c).limit)})
    /\ \A e \in page, d \in active \ page :
         Cardinality(FactsOf(e, Level(c))) >= Cardinality(FactsOf(d, Level(c)))
    /\ Shows(c, "entities", [items |-> {Card(e, Level(c)) : e \in page}])

GetEntity(c) ==
  \/ Id(c) \in DOMAIN entities /\ Shows(c, "entity", [Card(Id(c), Level(c)) EXCEPT
                                                         !.relations = egoGraph({Id(c)}).edges])
  \/ /\ Id(c) \notin DOMAIN entities /\ Handling(c, "entity")
     /\ Problem(c, grpcHTTPStatus("NotFound"))
     /\ UNCHANGED <<decisions, search>>

ListEntityFacts(c) ==
  Shows(c, "entityFacts",
        [facts |-> rankFacts(queryFacts(expandEntityIDs(Slug(c)), NoFilter, Level(c)), Slug(c))])

EntityGraph(c) == Shows(c, "graph", egoGraph(expandEntityIDs(Slug(c))))

ListExperts(c) == Shows(c, "experts", [experts |-> TopicExperts(expandEntityIDs(Slug(c)))])

(* Newest first; the operator, the value and the material are not looked at. *)
ListExperiments(c) ==
  LET asked == Request(c).body
      found == {f \in DOMAIN facts : /\ VisibleFact(f, Level(c))
                                     /\ asked.process \in {"", facts[f].subject}
                                     /\ asked.parameter \in {"", facts[f].parameter}
                                     /\ facts[f].year >= asked.yearFrom}
      Before(f, g) == \/ facts[f].year > facts[g].year
                      \/ facts[f].year = facts[g].year /\ facts[f].confidence > facts[g].confidence
                      \/ facts[f].year = facts[g].year /\ facts[f].confidence = facts[g].confidence
                           /\ facts[f].id < facts[g].id
  IN Shows(c, "experiments", [facts |-> First(50, Sorted(found, Before))])

SearchNext ==
  \E c \in Players :
    \/ buildPack(c) /\ UNCHANGED <<scene, gateway, decisions>>
    \/ searchHandler(c)
    \/ ListEntities(c) \/ GetEntity(c) \/ ListEntityFacts(c)
    \/ EntityGraph(c) \/ ListExperts(c) \/ ListExperiments(c)

-----------------------------------------------------------------------------
Searched(c) == Request(c).route = "search" /\ search[c].step = "done"

(* What a request was shown can be relied on as one piece: a contradiction in  *)
(* it is between two facts of it, whatever experts decided between the reads,  *)
(* and its graph has no edge that leads out of it.                             *)
PackIsCoherent ==
  \A c \in Players : search[c].step \notin {"none", "failed"} =>
    LET pack == search[c].pack IN
    /\ \A k \in pack.contradictions :
         {k.a, k.b} \subseteq DOMAIN pack.facts
         /\ pack.facts[k.a] = disputes[k.id].a /\ pack.facts[k.b] = disputes[k.id].b
    /\ \A g \in pack.edges : {g.src, g.dst} \subseteq pack.nodes

Since(c) == SubSeq(history, search[c].since + 1, Len(history))
Changed(c, f) == \E i \in DOMAIN Since(c) : Since(c)[i].id = f /\ Since(c)[i].kind = "numeric"

(* A fact that an expert had rejected before a search began is not found by    *)
(* it; one that a search does not find, although the plan names its subject    *)
(* and its value fits, was crowded out, or came, changed or merged meanwhile.  *)
SearchFindsWhatStands ==
  \A c \in Players : Searched(c) =>
    LET found == Range(search[c].pack.facts)
        filter == factFilter(search[c].plan)
    IN
    /\ \A f \in found : facts[f].status \in Hidden => Changed(c, f)
    /\ \A f \in queryFacts(planSlugs(c), filter, Level(c)) \ found :
         \/ Changed(c, f) \/ f \notin search[c].before
         \/ \E i \in DOMAIN Since(c) : Since(c)[i].kind = "entity"
         \/ Cardinality(found) = FinalTop
=============================================================================
