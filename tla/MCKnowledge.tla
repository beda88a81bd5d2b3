---------------------------- MODULE MCKnowledge -----------------------------
(* Documents on the flow rate of two processes.  The report, the article    *)
(* and the handbook agree on leaching, the patent does not; the report also *)
(* speaks of flotation.  The memo gives a number without a unit, so without *)
(* a range.  Only employees may see the report.  An evidence pack has room  *)
(* for two facts.                                                           *)
EXTENDS AnswerCache

CONSTANTS report, article, patent, handbook, memo,
          leaching, flotation, flow,
          r1, r2, a1, p1, h1, m1,
          ann

MCDocs == {report, article, patent, handbook, memo}
MCSlugs == {leaching, flotation, flow}
MCFacts == (report :> {r1, r2}) @@ (article :> {a1}) @@ (patent :> {p1}) @@ (handbook :> {h1})
           @@ (memo :> {m1})
MCHome == (r1 :> leaching) @@ (r2 :> flotation) @@ (a1 :> leaching) @@ (p1 :> leaching)
          @@ (h1 :> leaching) @@ (m1 :> leaching)
MCParameter == [f \in {r1, r2, a1, p1, h1, m1} |-> flow]
MCAccess == (report :> "internal") @@ (article :> "public") @@ (patent :> "public")
            @@ (handbook :> "public") @@ (memo :> "public")

Facet(d, lo, hi, c, type, y, g) ==
  [doc |-> d, lo |-> lo, hi |-> hi, confidence |-> c, docType |-> type, year |-> y, geography |-> g]

MCSample ==
  (r1 :> Facet(report, 100, 100, 8, "report", 2024, "ru"))
  @@ (r2 :> Facet(report, 10, 20, 8, "report", 2024, "ru"))
  @@ (a1 :> Facet(article, 99, 103, 9, "article", 2025, "foreign"))
  @@ (p1 :> Facet(patent, 104, 160, 0, "patent", 0, "foreign"))
  @@ (h1 :> Facet(handbook, 98, 104, 9, "handbook", 2026, "ru"))
  @@ (m1 :> Facet(memo, -Infinity, Infinity, 5, "web", 2025, "foreign"))

MCDecay == 0 :> 1000 @@ 1 :> 905 @@ 2 :> 819

MCLevels == ("public" :> {"public"}) @@ ("internal" :> {"public", "internal"})

MCUnreviewed == {m1}

(* The second question asks for sources from abroad.                        *)
MCQuestions ==
  {[plan |-> [entities |-> {leaching}, passes |-> {r1, r2, a1, p1, h1, m1}], text |-> {article}],
   [plan |-> [entities |-> {flow}, passes |-> {a1, p1, m1}], text |-> {}]}

(* Each scenario lets a few kinds of events happen more often than the rest. *)
Bound(docs, most) ==
  most @@ [docs |-> docs, overlap |-> "asks" \in DOMAIN most, deliver |-> 0, merges |-> 0,
           verdicts |-> 0, replays |-> 0, invalidate |-> 0, asks |-> 0]

MCScenarios ==
  {Bound({report, article, patent}, [deliver |-> 1, verdicts |-> 1]),
   Bound({report, article, handbook}, [deliver |-> 1, verdicts |-> 1]),
   Bound({report, article, patent}, [deliver |-> 1, merges |-> 1]),
   Bound({report, article}, [deliver |-> 2, merges |-> 1]),
   Bound({report, article}, [deliver |-> 1, merges |-> 1, verdicts |-> 1]),
   Bound({report, article}, [deliver |-> 1, verdicts |-> 1, replays |-> 1]),
   Bound({report, article}, [invalidate |-> 2, asks |-> 2]),
   Bound({report, article}, [merges |-> 1, invalidate |-> 1, asks |-> 1]),
   Bound({article, patent}, [deliver |-> 1, asks |-> 1]),
   Bound({report}, [deliver |-> 2, invalidate |-> 1, asks |-> 1]),
   Bound({report}, [merges |-> 2, invalidate |-> 1, asks |-> 1]),
   Bound({article, memo}, [verdicts |-> 2, invalidate |-> 1, asks |-> 1])}
=============================================================================
