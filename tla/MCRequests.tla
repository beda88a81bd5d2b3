----------------------------- MODULE MCRequests -----------------------------
(* What clients do at once, in scenes.  The base has a report, an article   *)
(* and a memo about the temperature of heap leaching, which the first two   *)
(* dispute, and a process that waits for its review.                        *)
EXTENDS Api

MCDefinition ==
  LET T(issuer, user, roles, access) == [issuer |-> issuer, user |-> user, roles |-> roles, access |-> access] IN
  [admin |-> T("demo", "ada", {"admin"}, ""),
   expert |-> T("oidc", "eva", {"expert", "guest"}, ""),
   analyst |-> T("demo", "ann", {"analyst"}, ""),
   reader |-> T("demo", "ray", {"researcher"}, "public"),
   partner |-> T("demo", "pat", {"partner"}, ""),
   stranger |-> T("oidc", "sam", {"guest"}, "")]

MCTokens == DOMAIN MCDefinition \cup {"forged"}

R(token, route, more) ==
  more @@ [token |-> token, route |-> route, parts |-> << >>, document |-> None, offset |-> 0,
           limit |-> 0, id |-> "none", kind |-> "", body |-> None, slug |-> "none"]

leaching == "process:heap-leaching"
drying == "process:drying"
temperature == "parameter:temperature"

FactOf(id, doc, access, docType, geography, year, confidence, v, status) ==
  [kind |-> "numeric", id |-> id, doc |-> doc, access |-> access, docType |-> docType,
   geography |-> geography, year |-> year, confidence |-> confidence, status |-> status,
   subject |-> leaching, parameter |-> temperature, op |-> "eq", vmin |-> v, vmax |-> v,
   siMin |-> v + 273150, siMax |-> v + 273150, unitCode |-> "degC", unit |-> {},
   quote |-> {Magnitude(v)}, quoted |-> TRUE]

MCFacts ==
  [warm |-> FactOf(1, "report", "internal", "report", "ru", 2024, 80, 70000, "machine_extracted"),
   cool |-> FactOf(2, "article", "public", "article", "foreign", 2025, 90, 62000, "multi_source"),
   hot |-> FactOf(3, "memo", "confidential", "web", "ru", 0, 60, 79000, "contradicted"),
   note |-> [FactOf(4, "article", "public", "article", "foreign", 2025, 70, 0, "machine_extracted")
             EXCEPT !.kind = "claim"]]

MCEntities ==
  LET E(name, aliases, status) == [status |-> status, mergedInto |-> None, name |-> name, aliases |-> aliases] IN
  (leaching :> E("heap leaching", {"leaching"}, "active"))
  @@ (drying :> E("drying", {"drying"}, "pending_review"))
  @@ (temperature :> E("temperature", {}, "active"))

MCEdges == {[src |-> e, dst |-> temperature, rel |-> "OPERATES_AT"] : e \in {leaching, drying}}

MCDisputes ==
  [d1 |-> [status |-> "judge_confirmed", decided |-> FALSE, a |-> "warm", b |-> "cool",
           subject |-> leaching, parameter |-> temperature, cause |-> {}]]

ChunkOf(doc, access, geography, year, words, numbers, snippet) ==
  [access |-> access, doc |-> doc, geography |-> geography, year |-> year, kind |-> "text",
   size |-> 400, embedded |-> TRUE, cyrillic |-> 300, latin |-> 40, words |-> words,
   numbers |-> numbers, head |-> numbers, snippet |-> snippet]

(* The digest cuts the second chunk within its number, 71.5.                *)
MCChunks ==
  [k1 |-> ChunkOf("article", "public", "foreign", 2025, {leaching, "temperature"}, {62000, 45000}, {62000}),
   k2 |-> [ChunkOf("survey", "internal", "ru", 0, {"weather", "leaching", "leach"}, {71500}, {7000})
           EXCEPT !.latin = 310],
   k3 |-> ChunkOf("memo", "confidential", "ru", 0, {leaching}, {79000}, {79000}),
   k4 |-> [ChunkOf("report", "internal", "ru", 2024, {leaching}, {70000}, {70000})
           EXCEPT !.kind = "table"]]

MCDocs ==
  LET D(d, access, status, geography) ==
        [sha256 |-> d, blob |-> <<"seed", d>>, access |-> access, status |-> status,
         docType |-> "report", geography |-> geography, year |-> 2024]
  IN
  [report |-> D("report", "internal", "indexed", "ru"), article |-> D("article", "public", "indexed", "foreign"),
   memo |-> D("memo", "confidential", "indexed", "ru"), protocol |-> D("protocol", "public", "extracted", "ru"),
   survey |-> [D("survey", "public", "indexed", "ru") EXCEPT !.blob = None]]

MCBlobs == [key \in {<<"seed", d>> : d \in DOMAIN MCDocs} |-> key[2]]

CellOf(field, known, points) ==
  [domain |-> field, material |-> None, process |-> known, condition |-> "any", score |-> points,
   gap |-> FALSE, reasons |-> << >>, counters |-> [facts |-> 4]]
MCCells == <<CellOf("leaching", leaching, 40), [CellOf("drying", None, 10) EXCEPT !.gap = TRUE]>>

NoLlm == [calls |-> {}, tasks |-> << >>, allowlist |-> {}, providers |-> << >>,
          resends |-> 0]

S(requests, more) ==
  more @@ [request |-> requests, faults |-> FALSE, hangsUp |-> FALSE, stops |-> FALSE, slow |-> FALSE,
           planner |-> FALSE, writer |-> FALSE, llm |-> NoLlm,
           docs |-> MCDocs, blobs |-> MCBlobs, seeds |-> {"survey"},
           facts |-> MCFacts, entities |-> MCEntities, edges |-> MCEdges, disputes |-> MCDisputes,
           chunks |-> MCChunks, ftsChunks |-> <<"k3", "k2", "k1">>,
           lexical |-> <<"k1", "k4", "k2">>, semantic |-> <<"k2", "k4", "k1", "k3">>, byText |-> <<"hot", "cool", "warm">>,
           consensus |-> <<[subject |-> leaching, parameter |-> temperature,
                            agreed |-> <<62000, 70000>>, sources |-> {62000, 70000}]>>,
           gaps |-> <<[material |-> "material:nickel-ore", process |-> leaching, label |-> {}, reasons |-> {}]>>,
           experts |-> <<[expert |-> "eva", entity |-> leaching]>>,
           etype |-> (leaching :> "process") @@ (drying :> "process") @@ (temperature :> "parameter"),
           parsed |-> {}, resolves |-> << >>, drafts |-> {},
           cells |-> MCCells, deliveries |-> << >>, units |-> {"degC", "m3/h"},
           parameterDefs |-> (temperature :> [min |-> 213150, max |-> 1973150])]

-----------------------------------------------------------------------------
File(content) == [kind |-> "file", content |-> content]
Meta1(meta) == [kind |-> "metadata", meta |-> meta]

Upload(token, parts) == R(token, "upload", [parts |-> parts])
Confidential == [access_level |-> "confidential", doc_type |-> ""]

UploadScenes ==
  {S([a |-> Upload("analyst", <<File("old"), File("new"), Meta1([geography |-> "ru"])>>),
      b |-> Upload("admin", <<Meta1(Confidential), [kind |-> "other"], File("new")>>)], x) :
     x \in {[hangsUp |-> TRUE], [faults |-> TRUE], [stops |-> TRUE]}}
  \cup
  {S([a |-> Upload("analyst", <<File("new")>> \o more)], [hangsUp |-> FALSE]) :
     more \in {<<[kind |-> "unreadable"]>>, <<Meta1([doc_type |-> "novel"])>>, <<Meta1(Confidential)>>}}
  \cup
  {S([a |-> Upload("analyst", parts), b |-> R("analyst", "status", [document |-> "a"]),
      c |-> R("reader", "documents", [offset |-> 1, limit |-> 1])], [faults |-> FALSE]) :
     parts \in {<<File("new")>>, <<File("report")>>, <<>>}}

Documents == {"report", "memo", "survey"}
ReadScenes ==
  {S([a |-> R(token, route, [document |-> d])], [faults |-> fault, stops |-> ~fault]) :
     token \in {"forged", "stranger", "partner", "reader", "expert"}, route \in {"status", "file"},
     d \in Documents, fault \in BOOLEAN}
  \cup {S([a |-> R("expert", "documents", << >>)], [faults |-> TRUE, stops |-> TRUE])}

-----------------------------------------------------------------------------
Decision(token, route, id, body) == R(token, route, [id |-> id, body |-> body])
Status(kind, status) == [kind |-> kind, status |-> status]

RejectWarm == Decision("expert", "fact", "warm", Status("numeric", "rejected"))
Restore(token) == Decision(token, "fact", "cool", Status("numeric", "expert_validated"))
RejectCool == Decision("expert", "fact", "cool", Status("numeric", "rejected"))
MergeLeaching(into) == Decision("admin", "merge", leaching, [into |-> into])
ReviewDrying(token, status) == Decision(token, "review", drying, [status |-> status])
Decide(decision) == Decision("expert", "contradiction", "d1", [decision |-> decision])

PlanOf(slugs, constraints) ==
  [intent |-> "technology_search", entities |-> slugs, geography |-> "any",
   constraints |-> constraints, years |-> << >>]
SearchFor(token, constraints) ==
  R(token, "search", [body |-> [plan |-> PlanOf(<<leaching, "material:nickel-ore">>, constraints)]])
Between(lo, hi) == <<Constraint(temperature, "range", lo, hi, "degC")>>

DecisionScenes ==
  {S([a |-> RejectCool, b |-> Restore("admin"), c |-> R("analyst", "queue", [kind |-> "facts"])],
     [hangsUp |-> FALSE]),
   S([a |-> ReviewDrying("expert", "accept"), b |-> ReviewDrying("admin", "reject"),
      c |-> R("analyst", "queue", [kind |-> "entities"])], [hangsUp |-> TRUE]),
   S([a |-> MergeLeaching(drying), b |-> ReviewDrying("admin", "reject"),
      c |-> R("reader", "entities", [limit |-> 2])], [faults |-> FALSE]),
   S([a |-> Decide("rejected"), b |-> R("expert", "queue", [kind |-> "contradictions"]),
      c |-> SearchFor("expert", << >>)], [faults |-> FALSE]),
   S([a |-> RejectWarm, b |-> MergeLeaching(drying), c |-> SearchFor("analyst", Between(60000, 80000))],
     [faults |-> FALSE]),
   S([a |-> RejectCool, b |-> Restore("admin"), c |-> SearchFor("reader", << >>)], [stops |-> TRUE])}
  \cup
  {S([a |-> r], [faults |-> fault, hangsUp |-> ~fault]) :
     fault \in BOOLEAN,
     r \in {RejectCool, Restore("partner"), MergeLeaching(drying), MergeLeaching("no"), MergeLeaching(""),
            ReviewDrying("expert", "postpone"), ReviewDrying("expert", "accept"), Decide("later"), R("expert", "queue", [kind |-> "people"]),
            R("expert", "queue", [kind |-> "orphans"]),
            Decision("expert", "fact", "note", Status("claim", "deprecated")),
            Decision("expert", "fact", "warm", Status("numeric", "")),
            Decision("expert", "fact", "warm", Status("", "rejected")),
            Decision("admin", "merge", "no", [into |-> drying]),
            Decision("expert", "fact", "warm", Status("opinion", "rejected")),
            Decision("expert", "review", leaching, [status |-> "accept"]),
            Decision("expert", "contradiction", "d2", [decision |-> "confirmed"]),
            R("expert", "merge", << >>), R("expert", "search", << >>),
            R("expert", "contradiction", << >>), R("expert", "fact", << >>), R("expert", "review", << >>)}}

Experiments(slug, parameter, year) == [process |-> slug, parameter |-> parameter, yearFrom |-> year]

BrowseScenes ==
  {S([a |-> R(token, route, [slug |-> leaching, id |-> id, body |-> Experiments(leaching, "", 2025)])],
     [faults |-> fault, hangsUp |-> ~fault]) :
     token \in {"reader", "expert"}, id \in {leaching, "no"}, fault \in BOOLEAN,
     route \in {"entities", "entity", "entityFacts", "graph", "experts", "experiments", "units", "synonyms"}}
  \cup
  {S([a |-> R(token, "coverage", [kind |-> domain])], [faults |-> fault]) :
     token \in {"reader", "expert"}, domain \in {"", "leaching"}, fault \in BOOLEAN}
  \cup
  {S([a |-> R(token, "contradictions", [kind |-> status, slug |-> slug]), b |-> Decide("rejected"),
      c |-> MergeLeaching(drying)], [faults |-> FALSE]) :
     token \in {"reader", "expert"}, status \in {"", "expert_rejected"}, slug \in {"", leaching}}
  \cup
  {S([a |-> SearchFor(token, constraints)], [faults |-> fault]) :
     token \in {"reader", "expert"}, fault \in BOOLEAN,
     constraints \in {Between(60000, 65000), Between(80000, 60000),
                      <<Constraint(temperature, "gte", 65000, 0, "degC")>>}}

-----------------------------------------------------------------------------
Clause(words, numbers, signs, unit) == [words |-> words, numbers |-> numbers, signs |-> signs, unit |-> unit]

AtTemperature == <<Clause({"leaching", "temperature"}, <<60000, 80000>>, {"dash"}, "degC")>>
Anything == <<Clause({"weather"}, << >>, {}, "")>>
Comparing == <<Clause({"catholyte", "velocity", "ru"}, <<5000>>, {"upper"}, "m/s"),
               Clause({"foreign", "current density"}, <<200000, 300000>>, {}, "A/m2"),
               Clause({"tds"}, <<1000000>>, {"lower"}, "mg/l")>>
WhoKnows == <<Clause({"leaching", "who", "foreign"}, <<1000>>, {}, "mm")>>

Question(question, filters) == [question |-> question, filters |-> filters]
Ask1(token, question, filters) == R(token, "ask", [body |-> Question(question, filters)])

Filtered(op, more) == [params |-> <<more @@ [parameter |-> temperature, op |-> op, unit |-> "degC"],
                                    [value |-> 5000], [parameter |-> temperature]>>]
Filters ==
  {<< >>, None, Filtered("range", [vmin |-> 80000, vmax |-> 60000]), Filtered("lt", [value |-> 65000]),
   [geography |-> "foreign", year_from |-> 2020] @@ Filtered("eq", [value |-> 62000])}

RuleScenes ==
  {S([a |-> Ask1(token, question, filters)], [faults |-> FALSE]) :
     token \in {"reader", "expert"}, filters \in Filters,
     question \in {AtTemperature, Anything, Comparing, WhoKnows, << >>}}
  \cup
  {S([a |-> Ask1("expert", AtTemperature, << >>)], [faults |-> fault, hangsUp |-> ~fault]) : fault \in BOOLEAN}
  \cup
  {S([a |-> Ask1("reader", AtTemperature, << >>), b |-> Ask1("expert", AtTemperature, << >>),
      c |-> RejectCool], [faults |-> FALSE]),
   S([a |-> Ask1("expert", AtTemperature, << >>), b |-> Ask1("expert", AtTemperature, << >>)],
     [stops |-> TRUE])}
  \cup
  {S([a |-> R("partner", "parse", [body |-> body])], [faults |-> fault]) :
     fault \in BOOLEAN, body \in {None, Question(<< >>, << >>), Question(WhoKnows, << >>)}}

-----------------------------------------------------------------------------
(* Bundles of the report, which is committed already, and of the protocol.  *)
IdOf == [again |-> 9, fresh |-> 10, wild |-> 11, bare |-> 12, open |-> 13, half |-> 14, about |-> 15,
         nobody |-> 20, acid |-> 21, flow |-> 16, twin |-> 17, late |-> 18, odd |-> 19]

Candidate(row, subject, parameter, op, vmin, vmax, unitCode) ==
  LET SI(v) == IF v = None \/ unitCode # "degC" THEN None ELSE v + 273150 IN
  [row |-> row, subject |-> subject, parameter |-> parameter,
   said |-> [id |-> IdOf[row], op |-> op, vmin |-> vmin, vmax |-> vmax, siMin |-> SI(vmin), siMax |-> SI(vmax),
             unitCode |-> unitCode, unit |-> {}, quote |-> {v \in {vmin, vmax} : v # None},
             quoted |-> TRUE, geography |-> "unknown", confidence |-> 97]]

BundleOf(document, listed, candidates) ==
  [document |-> document, entities |-> listed, candidates |-> candidates,
   typed |-> ("pH: 3" :> <<"pH", "3">>) @@ ("material: slag" :> <<"material", "slag">>),
   slugs |-> (<<"process", "drying">> :> drying) @@ (<<"process", "dryer">> :> drying)
             @@ (<<"material", "slag">> :> "material:slag")
             @@ (<<"parameter", "flow rate">> :> "parameter:flow-rate")
             @@ (<<"process", "heap leaching">> :> leaching)]

ReportBundle ==
  BundleOf("report", << >>,
           <<Candidate("again", "heap leaching", "temperature", "eq", 70000, 70000, "degC")>>)

ProtocolBundle ==
  BundleOf("protocol",
    <<[type |-> "process", name |-> "drying"], [type |-> "widget", name |-> "pump"],
      [type |-> "process", name |-> "dryer"]>>,
    <<Candidate("fresh", "heap leaching", "temperature", "range", 75000, 65000, "degC"),
      Candidate("wild", "dryer", "temperature", "eq", 5000000, 5000000, "degC"),
      Candidate("bare", "leaching", "temperature", "eq", 66000, 66000, ""),
      Candidate("open", "leaching", "temperature", "lte", 67000, None, "degC"),
      Candidate("half", "leaching", "temperature", "gte", 68000, None, "degC"),
      Candidate("about", "leaching", "temperature", "about", 68000, None, "degC"),
      Candidate("nobody", "", "temperature", "eq", 68000, 68000, "degC"),
      Candidate("acid", "pH: 3", "temperature", "eq", 68000, 68000, "degC"),
      Candidate("flow", "material: slag", "flow rate", "pm", 2000, 3000, "m3/h"),
      Candidate("twin", "material: slag", "flow rate", "pm", 2000, 3000, "m3/h")>>)

(* Another answer of the LLM about the protocol, and a bundle in error.     *)
OtherBundle ==
  BundleOf("protocol", << >>, <<Candidate("late", "drying", "temperature", "eq", 61000, 61000, "degC")>>)
NoUnitBundle ==
  BundleOf("protocol", << >>, <<Candidate("odd", "drying", "temperature", "eq", 61000, 61000, "furlong")>>)

CommitScenes ==
  LET Commits(requests, deliveries) == S(requests, [deliveries |-> deliveries]) IN
  {Commits([a |-> RejectWarm, b |-> SearchFor("expert", << >>)], <<ReportBundle, ProtocolBundle>>),
   Commits([a |-> ReviewDrying("expert", "reject"), b |-> SearchFor("expert", Between(60000, 80000)),
            c |-> R("reader", "entityFacts", [slug |-> drying])],
           <<ProtocolBundle, ProtocolBundle>>),
   Commits([a |-> MergeLeaching(drying), b |-> RejectWarm, c |-> R("reader", "entities", [limit |-> 2])],
           <<ReportBundle, ReportBundle>>),
   Commits([a |-> Decision("expert", "fact", "fresh", Status("numeric", "deprecated")),
            b |-> Decision("admin", "fact", "bare", Status("", "expert_validated"))],
           <<ProtocolBundle, ProtocolBundle>>),
   Commits([a |-> Ask1("reader", <<Clause({"leaching", "temperature"}, << >>, {}, "")>>, << >>),
            b |-> R("reader", "status", [document |-> "protocol"])], <<ProtocolBundle>>),
   [Commits([a |-> R("reader", "documents", << >>)],
            <<BundleOf(None, << >>, << >>), BundleOf("burnt", << >>, << >>), NoUnitBundle, ReportBundle,
              ProtocolBundle, OtherBundle>>)
    EXCEPT !.faults = TRUE]}
  \cup
  {[S([a |-> MergeLeaching(drying)], [faults |-> FALSE]) EXCEPT
      !.entities[drying].aliases = aliases, !.facts.cool.doc = "report", !.facts.cool.subject = drying,
      !.facts.cool.vmin = v, !.facts.cool.vmax = v] :
     aliases \in {{"drying"}, {"leaching"}}, v \in {62000, 70000}}

-----------------------------------------------------------------------------
(* The main provider serves any model, the spare one only the large model.  *)
Provider(name, key, models) == [name |-> name, key |-> key, models |-> models]

LlmOf(calls) ==
  [calls |-> calls, allowlist |-> {"small", "large"}, resends |-> 0,
   providers |-> <<Provider("main", TRUE, {"small"}), Provider("lapsed", FALSE, {}),
                   Provider("spare", TRUE, {})>>,
   tasks |-> [parse_query |-> [model |-> "small", fallback |-> "", escalate |-> "", json |-> TRUE],
              synthesize_answer |-> [model |-> "secret", fallback |-> "small", escalate |-> "large",
                                     json |-> FALSE],
              judge_contradiction |-> [model |-> "secret", fallback |-> "", escalate |-> "", json |-> TRUE]]]

Parsed(intent, geography, materials, processes) ==
  [intent |-> intent, geography |-> geography, materials |-> materials, processes |-> processes]

Draft(repeats, invents) == [repeats |-> repeats, invents |-> invents]

LlmScenes ==
  {S([a |-> Ask1("expert", Anything, << >>)] @@ more[1],
     more[2] @@ [planner |-> TRUE, llm |-> LlmOf({<<"a", "parse_query">>}),
                 parsed |-> {Parsed("lookup", "ru", <<"", "temp">>, <<"leach", "temp", "method">>),
                             Parsed("comparison", "mars", << >>, <<"slag">>), << >>},
                 resolves |-> [leach |-> leaching, temp |-> temperature]]) :
     more \in {<<[b |-> RejectCool], [slow |-> TRUE]>>, <<<< >>, [faults |-> TRUE]>>}}
  \cup
  {S([a |-> Ask1("expert", AtTemperature, << >>)],
     more @@ [writer |-> TRUE, llm |-> LlmOf({<<"a", "synthesize_answer">>}),
              drafts |-> {None, Draft({"facts"}, {2020000}), Draft({"fragments", "notes"}, {62500}),
                          Draft({"question"}, {}), Draft({}, {99000})}]) :
     more \in {[slow |-> TRUE], [hangsUp |-> TRUE], [faults |-> TRUE]}}
  \cup
  {S([a |-> R("forged", "ask", << >>)], [llm |-> LlmOf({<<"judge", task>>})]) :
     task \in {"judge_contradiction", "bind_numbers", "synthesize_answer"}}
  \cup
  {S([a |-> R("forged", "ask", << >>)], [llm |-> [LlmOf({<<"judge", "parse_query">>}) EXCEPT !.resends = 2]])}

(* The plant of this fact makes 1 500 000 tonnes a year.                    *)
MCNumberScenes ==
  LET output == 1500000000
      plant == [FactOf(1, "report", "internal", "report", "ru", 2024, 80, 0, "machine_extracted")
                EXCEPT !.vmin = output, !.vmax = output, !.siMin = None, !.siMax = None, !.quote = {output}]
      question == <<Clause({"leaching"}, << >>, {}, "")>>
      s == S([a |-> Ask1("expert", question, << >>)], [writer |-> FALSE])
  IN {[s EXCEPT !.facts = [@ EXCEPT !.warm = plant]]}

MCScenes == UploadScenes \cup ReadScenes \cup DecisionScenes \cup CommitScenes \cup BrowseScenes \cup RuleScenes \cup LlmScenes
MCLlms == {s.llm : s \in MCScenes}
MCNoLlms == {NoLlm}
MCFreshness == [age \in 0..2 |-> IF age = 0 THEN 100 ELSE IF age = 1 THEN 90 ELSE 82]
=============================================================================
