----------------------------- MODULE QueryPlan ------------------------------
(***************************************************************************)
(* internal/answer/app plan.go, llmplan.go: the plan of a question, by     *)
(* rules or from what the LLM made of it, and the filters on top.          *)
(*                                                                         *)
(* A question is the sequence of its clauses.  Of a clause the rules see   *)
(* which of their words it contains, its numbers (in thousandths), the     *)
(* signs of a bound, and its unit: [words, numbers, signs, unit].  A slug  *)
(* stands for its entity.                                                  *)
(***************************************************************************)
EXTENDS Integers, Sequences, FiniteSets, SequencesExt

Words(question) == UNION {clause.words : clause \in Range(question)}
containsAny(question, words) == Words(question) \cap words # {}

Topics ==
  <<[words |-> {"catholyte", "circulation"}, intent |-> "technology_search",
     entities |-> <<"material:catholyte", "process:nickel-electrowinning">>],
    [words |-> {"desalination", "sulfate", "chloride", "tds"}, intent |-> "technology_search",
     entities |-> <<"material:sulfates", "material:chlorides", "process:desalination", "property:tds">>],
    [words |-> {"leaching", "cold"}, intent |-> "gap_analysis",
     entities |-> <<"material:nickel-ore", "process:heap-leaching", "climate:cold">>]>>

ElectrowinningWords ==
  <<[words |-> {"temperature"}, parameter |-> "parameter:temperature"],
    [words |-> {"current density"}, parameter |-> "parameter:current-density"],
    [words |-> {"velocity", "circulation"}, parameter |-> "parameter:catholyte-flow-rate"]>>

electrowinningParameters(question) ==
  LET named == SelectSeq(ElectrowinningWords, LAMBDA p : containsAny(question, p.words)) IN
  IF named = << >> THEN <<"parameter:catholyte-flow-rate">>
  ELSE [i \in DOMAIN named |-> named[i].parameter]

routeQuestion(question) ==
  LET topics == SelectSeq(Topics, LAMBDA t : containsAny(question, t.words)) IN
  IF topics = << >> THEN [intent |-> "technology_search", matched |-> FALSE, entities |-> << >>]
  ELSE [intent |-> Head(topics).intent, matched |-> TRUE,
        entities |-> Head(topics).entities \o
                       (IF Head(topics) = Topics[1] THEN electrowinningParameters(question) ELSE << >>)]

detectGeography(question) ==
  CASE {"ru", "foreign"} \subseteq Words(question) -> "compare"
    [] containsAny(question, {"ru"}) -> "ru"
    [] containsAny(question, {"foreign"}) -> "foreign"
    [] OTHER -> "any"

refineIntent(question, base, geography) ==
  CASE containsAny(question, {"who"}) -> "expert_search"
    [] containsAny(question, {"gap"}) -> "gap_analysis"
    [] geography = "compare" -> "comparison"
    [] OTHER -> base

-----------------------------------------------------------------------------
(* Constraints: [parameter, op, lo, hi, unit, si, loSi, hiSi]; a bound that  *)
(* is not given is 0, as is one that has not been converted.                 *)
querySIUnits ==
  [x \in {"m/s", "%", "A/m2"} |-> [times |-> 1, by |-> 1, plus |-> 0]]
  @@ [x \in {"degC"} |-> [times |-> 1, by |-> 1, plus |-> 273150]]
  @@ [x \in {"mg/l"} |-> [times |-> 1, by |-> 1000, plus |-> 0]]
  @@ [x \in {"MPa"} |-> [times |-> 1000000, by |-> 1, plus |-> 0]]

applySI(constraint) ==
  IF constraint.unit \notin DOMAIN querySIUnits THEN constraint
  ELSE LET unit == querySIUnits[constraint.unit]
           Si(v) == ((v * unit.times) \div unit.by) + unit.plus
       IN [constraint EXCEPT
             !.si = TRUE,
             !.loSi = IF constraint.op \in {"range", "eq", "gte"} THEN Si(constraint.lo) ELSE 0,
             !.hiSi = IF constraint.op \in {"range", "eq", "lte"} THEN Si(constraint.hi) ELSE 0]

Constraint(parameter, op, lo, hi, unit) ==
  applySI([parameter |-> parameter, op |-> op, lo |-> lo, hi |-> hi, unit |-> unit,
           si |-> FALSE, loSi |-> 0, hiSi |-> 0])

constraintRules ==
  <<[word |-> "tds", parameter |-> "property:tds"],
    [word |-> "sulfate", parameter |-> "parameter:sulfate-concentration"],
    [word |-> "chloride", parameter |-> "parameter:chloride-concentration"],
    [word |-> "velocity", parameter |-> "parameter:catholyte-flow-rate"],
    [word |-> "temperature", parameter |-> "parameter:temperature"],
    [word |-> "current density", parameter |-> "parameter:current-density"]>>

(* Two numbers are a range in the order in which they are written.           *)
parseConstraint(clause, parameter) ==
  LET first == Head(clause.numbers)
      last == clause.numbers[Len(clause.numbers)]
      several == Len(clause.numbers) >= 2
      Of(op, lo, hi) == Constraint(parameter, op, lo, hi, clause.unit)
  IN CASE "dash" \in clause.signs /\ several -> Of("range", first, clause.numbers[2])
       [] "upper" \in clause.signs -> Of("lte", 0, last)
       [] "lower" \in clause.signs -> Of("gte", first, 0)
       [] several -> Of("range", first, clause.numbers[2])
       [] OTHER -> Of("eq", first, first)

extractConstraints(question) ==
  LET About(rule) == SelectSeq(question, LAMBDA c : rule.word \in c.words /\ c.numbers # << >>)
      rules == SelectSeq(constraintRules, LAMBDA rule : About(rule) # << >>)
  IN [i \in DOMAIN rules |-> parseConstraint(Head(About(rules[i])), rules[i].parameter)]

-----------------------------------------------------------------------------
(* Filters: a record with some of geography, params, year_from and year_to;  *)
(* each of its params has some of parameter, op, unit, value, vmin and vmax.  *)
FilterOp(item) == IF "op" \in DOMAIN item THEN item.op ELSE "eq"
FilterUnit(item) == IF "unit" \in DOMAIN item THEN item.unit ELSE ""
HasBound(item, key) == {key, "value"} \cap DOMAIN item # {}
Bound(item, key) == IF key \in DOMAIN item THEN item[key] ELSE item.value

Usable(item) ==
  /\ "parameter" \in DOMAIN item
  /\ CASE FilterOp(item) \in {"range", "pm"} -> HasBound(item, "vmin") /\ HasBound(item, "vmax")
       [] FilterOp(item) \in {"lte", "lt", "to"} -> HasBound(item, "vmax")
       [] OTHER -> HasBound(item, "vmin")

constraintFromFilter(item) ==
  LET op == FilterOp(item)
      Of(o, lo, hi) == Constraint(item.parameter, o, lo, hi, FilterUnit(item))
  IN CASE op \in {"range", "pm"} -> Of("range", Bound(item, "vmin"), Bound(item, "vmax"))
       [] op \in {"lte", "lt", "to"} -> Of(op, 0, Bound(item, "vmax"))
       [] op \in {"gte", "gt", "from"} -> Of(op, Bound(item, "vmin"), 0)
       [] OTHER -> Of(op, Bound(item, "vmin"), Bound(item, "vmin"))

(* A filter replaces the constraint on its parameter.                        *)
Constrained(constraints, item) ==
  LET new == constraintFromFilter(item)
      at == {i \in DOMAIN constraints : constraints[i].parameter = new.parameter}
  IN IF at = {} THEN Append(constraints, new)
     ELSE [constraints EXCEPT ![CHOOSE i \in at : \A j \in at : j <= i] = new]

applyFilters(plan, filters) ==
  LET Given(key, default) == IF key \in DOMAIN filters THEN filters[key] ELSE default
      years == {"year_from", "year_to"} \cap DOMAIN filters
  IN [plan EXCEPT
        !.geography = IF Given("geography", "") = "" THEN @ ELSE filters.geography,
        !.constraints = FoldLeft(Constrained, @, SelectSeq(Given("params", << >>), Usable)),
        !.years = IF years = {} THEN @ ELSE <<Given("year_from", 0), Given("year_to", 0)>>]

(* quality is the parser's, with its confidence in percent.                  *)
Plan(quality, intent, entities, geography, question, filters) ==
  applyFilters([quality |-> quality, intent |-> intent, entities |-> entities, geography |-> geography,
                constraints |-> extractConstraints(question), years |-> << >>], filters)

routeConfidence(selected) == IF selected.matched THEN 90 ELSE 40

buildPlan(question, filters) ==
  LET selected == routeQuestion(question)
      geography == detectGeography(question)
  IN Plan([parser |-> "rules", confidence |-> routeConfidence(selected)],
          refineIntent(question, selected.intent, geography), selected.entities,
          geography, question, filters)

(* The names of the entities of a plan, for which their slugs stand.         *)
ruleTerms(plan) == plan.entities

-----------------------------------------------------------------------------
(* What the LLM answered: an object with some of intent, geography and three *)
(* lists of terms.  resolves[t] is the entity whose name is nearest to the    *)
(* term t, in the database, if one is near; etype is the type of an entity.   *)
termsLimit == 12

stringListValue(list) == SelectSeq(list, LAMBDA t : t # "")

parseLLMPlan(valid, json) ==
  LET Text(key) == IF valid /\ key \in DOMAIN json THEN json[key] ELSE ""
      List(key) == IF valid /\ key \in DOMAIN json THEN stringListValue(json[key]) ELSE << >>
  IN [intent |-> Text("intent"), geography |-> Text("geography"), materials |-> List("materials"),
      processes |-> List("processes"), properties |-> List("properties")]

llmTerms(parsed) ==
  FoldLeft(LAMBDA ts, t : IF Contains(ts, t) \/ Len(ts) = termsLimit THEN ts ELSE Append(ts, t),
           << >>, parsed.materials \o parsed.processes \o parsed.properties)

validGeography(value) == value \in {"ru", "foreign", "compare"}

validIntents ==
  {"technology_search", "literature_review", "comparison", "gap_analysis", "expert_search",
   "experiment_search", "contradiction_analysis", "entity_lookup"}

chooseIntent(intent, question) ==
  CASE containsAny(question, {"who"}) -> "expert_search"
    [] containsAny(question, {"gap"}) -> "gap_analysis"
    [] intent \in validIntents -> intent
    [] OTHER -> "technology_search"

EntityGroups ==
  <<{"material"},
    {"process", "technology", "equipment", "experiment", "topic"},
    {"property", "parameter", "climate", "economic_indicator"}>>

resolveEntities(terms, resolves, etype) ==
  LET found == SelectSeq(terms, LAMBDA t : t \in DOMAIN resolves)
      slugs == FoldLeft(LAMBDA s, t : IF Contains(s, resolves[t]) THEN s ELSE Append(s, resolves[t]),
                        << >>, found)
      Group(i) == SelectSeq(slugs, LAMBDA slug : etype[slug] \in EntityGroups[i])
  IN Group(1) \o Group(2) \o Group(3)

llmPlan(parsed, question, filters, resolves, etype) ==
  LET detected == detectGeography(question)
      geography == IF detected = "any" /\ validGeography(parsed.geography)
                   THEN parsed.geography ELSE detected
  IN Plan([parser |-> "llm", confidence |-> 85], chooseIntent(parsed.intent, question),
          resolveEntities(llmTerms(parsed), resolves, etype), geography, question, filters)

-----------------------------------------------------------------------------
(* What the full-text search is asked for: one of the terms, or all words of  *)
(* the question.  Of the lists of words only a few stand here.  The words of  *)
(* a question are those of three letters or digits and more.                  *)
ftsStopTerms == {"method", "practice", "review"}
ftsCommonTerms == {"nickel", "temperature", "velocity"}

ftsTermsQuery(terms, question) ==
  LET Add(ts, t) == IF t \in ftsStopTerms \/ Contains(ts, t) THEN ts ELSE Append(ts, t)
      Distinct(ts) == SelectSeq(ts, LAMBDA t : t \notin ftsCommonTerms)
      all == FoldLeft(Add, << >>, terms)
      more == FoldLeft(LAMBDA ts, w : IF Len(ts) < 10 THEN Add(ts, w) ELSE ts, all,
                       SetToSeq(Words(question)))
  IN CASE Len(Distinct(all)) >= 2 -> Range(Distinct(all))
       [] Len(Distinct(all)) < 2 /\ Len(all) >= 2 -> Range(all)
       [] Len(all) < 2 /\ Len(Distinct(more)) >= 2 -> Range(Distinct(more))
       [] OTHER -> Range(more)

Matches(words, termsQuery, question) ==
  \/ words \cap termsQuery # {}
  \/ Words(question) # {} /\ Words(question) \subseteq words

(* canonicalPlan: what tells plans apart in the answer cache.                *)
canonicalPlan(plan) ==
  [intent |-> plan.intent, geography |-> plan.geography, entities |-> Range(plan.entities),
   constraints |-> {<<c.parameter, c.op, c.lo, c.hi, c.unit>> : c \in Range(plan.constraints)},
   years |-> plan.years]
=============================================================================
