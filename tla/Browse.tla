------------------------------- MODULE Browse -------------------------------
(***************************************************************************)
(* The lists that the gateway shows of internal/epistemic, the coverage of *)
(* domains and the contradictions, and the dictionaries that it reads      *)
(* itself.  Each is one read, in between the decisions of experts and the  *)
(* commits of the catalog.                                                 *)
(*                                                                         *)
(* A cell is [domain, material, process, condition, score, gap, reasons,   *)
(* counters]: an entity or None is what it covers.                         *)
(***************************************************************************)
EXTENDS Search

CanonicalName(e) == IF e \in DOMAIN entities THEN entities[e].name ELSE ""
defaultString(value, fallback) == IF value = "" THEN fallback ELSE value

(* The same cells for every caller: no access level is looked at.            *)
CoverageOf(domain) ==
  SelectSeq(scene.cells, LAMBDA cell : domain \in {"", cell.domain})

(* The message names the entities twice; the handler takes the one of the    *)
(* counters, which the cell's own numbers come with.                         *)
coverageMessage(cell) ==
  [domain |-> cell.domain, materialId |-> CanonicalName(cell.material),
   processId |-> CanonicalName(cell.process), condition |-> cell.condition, score |-> cell.score,
   gap |-> cell.gap, reasons |-> cell.reasons,
   counters |-> [material |-> CanonicalName(cell.material),
                 process |-> CanonicalName(cell.process)] @@ cell.counters]

mapCoverageCell(item) ==
  [domain |-> item.domain, condition |-> item.condition, score |-> item.score,
   gap |-> item.gap, reasons |-> item.reasons, counters |-> item.counters,
   material |-> defaultString(item.counters.material, item.materialId),
   process |-> defaultString(item.counters.process, item.processId)]

GetCoverage(c) ==
  LET cells == CoverageOf(Request(c).kind) IN
  Shows(c, "coverage", [items |-> [i \in DOMAIN cells |-> mapCoverageCell(coverageMessage(cells[i]))]])

-----------------------------------------------------------------------------
(* Both facts must be visible: the row shows what they quote.  The cluster   *)
(* that the handler passes on is not looked at.                              *)
ContradictionsOf(status, entity, level) ==
  {k \in DOMAIN disputes :
     /\ VisibleFact(disputes[k].a, level) /\ VisibleFact(disputes[k].b, level)
     /\ status \in {"", disputes[k].status}
     /\ entity \in {"", disputes[k].subject, disputes[k].parameter}}

contradictionMessage(k) ==
  [id |-> k, status |-> disputes[k].status,
   payload |-> [subject |-> CanonicalName(disputes[k].subject),
                parameter |-> CanonicalName(disputes[k].parameter),
                aStatement |-> disputes[k].a, bStatement |-> disputes[k].b,
                cause |-> disputes[k].cause]]

mapContradiction(item) ==
  [id |-> item.id, status |-> item.status, subject |-> item.payload.subject,
   parameter |-> item.payload.parameter, aStatement |-> item.payload.aStatement,
   bStatement |-> item.payload.bStatement, cause |-> item.payload.cause]

GetContradictions(c) ==
  LET ks == ContradictionsOf(Request(c).kind, Request(c).slug, Level(c)) IN
  Shows(c, "contradictions", [items |-> {mapContradiction(contradictionMessage(k)) : k \in ks}])

-----------------------------------------------------------------------------
(* The dictionaries are read without a service: a query that fails, and a    *)
(* row that does.                                                            *)
Reads(c, route, items) ==
  /\ Handling(c, route)
  /\ \/ c \notin left /\ Respond(c, 200, [items |-> items])
     \/ Fails(c) /\ \E code \in {500, 502} : Respond(c, code, None)
  /\ UNCHANGED <<trail, decisions, search>>

dictionaryUnits(c) == Reads(c, "units", scene.units)

(* Of the active entities the hundred with the most aliases, their own name  *)
(* aside.                                                                    *)
Synonyms(e) == entities[e].aliases \ {entities[e].name}

dictionarySynonyms(c) ==
  LET groups == {e \in DOMAIN entities : entities[e].status = "active" /\ Synonyms(e) # {}} IN
  \E page \in SUBSET groups :
    /\ Cardinality(page) = Min({100, Cardinality(groups)})
    /\ \A e \in page, d \in groups \ page : Cardinality(Synonyms(e)) >= Cardinality(Synonyms(d))
    /\ Reads(c, "synonyms",
             {[canonical |-> entities[e].name, aliases |-> Synonyms(e)] : e \in page})

BrowseNext ==
  \E c \in Players :
    \/ GetCoverage(c) \/ GetContradictions(c) \/ dictionaryUnits(c) \/ dictionarySynonyms(c)
=============================================================================
