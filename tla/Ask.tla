-------------------------------- MODULE Ask ---------------------------------
(***************************************************************************)
(* internal/answer and the SSE routes: a question becomes a plan, the plan *)
(* evidence, the evidence an answer, and each is sent to the client as it  *)
(* is ready.  The LLM may plan and write; what it does not do in time, or  *)
(* wrongly, is done by rules.  The numbers of an answer are guarded.       *)
(*                                                                         *)
(* Of a text the model keeps its numeric literals, in thousandths, without *)
(* those in «names» and [citations].  A scene says what the LLM makes of   *)
(* things (parsed, drafts) and how a search ranks (byText, lexical,        *)
(* semantic).  How cached answers are invalidated is AnswerCache's.        *)
(***************************************************************************)
EXTENDS Search, LlmChain

CONSTANTS
  Deltas,         \* bound: the pieces of every summary
  MinFacts,       \* minFactsForAnswer
  TextTop         \* chunkTextLimit, summaryChunkLimit and summaryFactLimit

(* A summary is never empty, so its text is sent in one piece at least.      *)
ASSUME DeltasAssumption == Deltas \in Nat \ {0}

VARIABLES
  asks,           \* asks[c]: [step, plan, terms, pack, answer, part, cached], the locals of Ask
  stream,         \* stream[c]: the events sent to c
  cache           \* ops.answer_cache

answering == <<asks, stream, cache>>

AskSteps == {"new", "parsing", "lookup", "search", "chunks", "synthesis", "deltas", "put", "done", "end"}

AskTypeOK ==
  /\ SearchTypeOK
  /\ \A c \in Players :
       /\ asks[c].step \in AskSteps
       /\ asks[c].step \in {"deltas", "put", "done"} => asks[c].answer.confidence \in 30..95
       /\ \A i \in DOMAIN stream[c] :
            stream[c][i].event \in {"plan", "evidence", "answer.delta", "answer.done", "error"}
  /\ \A key \in DOMAIN cache : \E t \in DOMAIN Definition : key[2] = PrincipalOf(t).access

AskInit ==
  /\ asks = [c \in Players |-> [step |-> "new", plan |-> None, terms |-> << >>, pack |-> None,
                                answer |-> None, part |-> 1, cached |-> FALSE]]
  /\ stream = [c \in Players |-> << >>]
  /\ cache = << >>

-----------------------------------------------------------------------------
Asking(c, step) == pc[c] = "handle" /\ Request(c).route = "ask" /\ asks[c].step = step
Going(c, step) == Asking(c, step) /\ c \notin left
Goes(c, fields) ==
  asks' = [asks EXCEPT ![c] = [k \in DOMAIN @ |-> IF k \in DOMAIN fields THEN fields[k] ELSE @[k]]]
Emit(c, events) == stream' = [stream EXCEPT ![c] = @ \o events]
Event(name) == [event |-> name]

Begun(c) == {k \in Calls : k[1] = c /\ result[k].code = "none" /\ call[k].step = "calling"}

(* The stream ends: the status 200 has long been sent.                       *)
EndStream(c) ==
  /\ Goes(c, [step |-> "end"])
  /\ cancelled' = cancelled \cup Begun(c)
  /\ Respond(c, 200, None)
  /\ UNCHANGED trail

writeSSEProblem(c, code) ==
  /\ Emit(c, <<[event |-> "error", status |-> grpcHTTPStatus(code)]>>)
  /\ EndStream(c)

BadQuestion(c) ==
  Body(c) = None \/ (Body(c) # None /\ (Body(c).question = << >> \/ Body(c).filters = None))

Planned(c, plan, terms) == Goes(c, [step |-> "lookup", plan |-> plan, terms |-> terms])
PlannedByRules(c) ==
  LET plan == buildPlan(Body(c).question, Body(c).filters) IN Planned(c, plan, ruleTerms(plan))

(* What the client is shown of a plan, of evidence: its graph is not, and of  *)
(* an answer, whose text went before.                                        *)
constraintHasMin(op) == op \notin {"lte", "lt", "to"}
constraintHasMax(op) == op \notin {"gte", "gt", "from"}

mapConstraints(constraints) ==
  [i \in DOMAIN constraints |->
     LET x == constraints[i] IN
     [parameter |-> x.parameter, operator |-> x.op, unit |-> x.unit,
      vmin |-> IF constraintHasMin(x.op) THEN x.lo ELSE None,
      vmax |-> IF constraintHasMax(x.op) THEN x.hi ELSE None]]

mapPlan(plan) ==
  [intent |-> plan.intent, entities |-> plan.entities, quality |-> plan.quality,
   paramConstraints |-> mapConstraints(plan.constraints),
   geography |-> IF plan.geography = "" THEN "any" ELSE plan.geography]

mapEvidence(pack) == [part \in DOMAIN pack \ {"nodes", "edges"} |-> pack[part]]

mapAnswer(answer) ==
  [summary |-> answer.numbers, methods |-> answer.methods, confidence |-> answer.confidence,
   guard |-> [violations |-> answer.violations, degraded |-> answer.degraded]]

(* ParseQuery makes its plan by rules alone.                                 *)
queryParse(c) ==
  /\ Handling(c, "parse")
  /\ \/ /\ Body(c) = None \/ (Body(c) # None /\ Body(c).question = << >>)
        /\ Respond(c, 400, None)
     \/ /\ Body(c) # None /\ Body(c).question # << >> /\ c \notin left
        /\ Respond(c, 200, [plan |-> mapPlan(buildPlan(Body(c).question, << >>))])
     \/ Fails(c) /\ Respond(c, grpcHTTPStatus("Unavailable"), None)
  /\ UNCHANGED <<trail, decisions, search, chains, answering>>

askHandler(c) ==
  /\ Asking(c, "new")
  /\ \/ BadQuestion(c) /\ Problem(c, 400) /\ UNCHANGED asks
     \/ /\ ~BadQuestion(c)
        /\ IF scene.planner THEN Goes(c, [step |-> "parsing"])
           ELSE PlannedByRules(c)
        /\ UNCHANGED <<scene, gateway>>
  /\ UNCHANGED <<decisions, search, chains, stream, cache>>

(* A term resolves to an entity that has not been merged or deprecated.      *)
Near == LET near == scene.resolves IN
        [t \in {t \in DOMAIN near : entities[near[t]].status \in {"active", "pending_review"}} |-> near[t]]

(* Without an answer of the LLM that names a term, in time, the rules plan.  *)
planAndTerms(c) ==
  /\ Going(c, "parsing")
  /\ LET k == <<c, "parse_query">> IN
     \/ /\ result[k].code = "OK"
        /\ \E json \in scene.parsed, near \in {Near} \cup (IF scene.faults THEN {<< >>} ELSE {}) :
             LET parsed == parseLLMPlan(result[k].valid, json)
                 terms == llmTerms(parsed)
             IN IF terms = << >> THEN PlannedByRules(c)
                ELSE Planned(c, llmPlan(parsed, Body(c).question, Body(c).filters, near, scene.etype), terms)
        /\ UNCHANGED cancelled
     \/ /\ result[k].code \notin {"none", "OK"} \/ (result[k].code = "none" /\ (scene.slow \/ scene.faults))
        /\ PlannedByRules(c)
        /\ cancelled' = cancelled \cup Begun(c)
  /\ UNCHANGED <<scene, gateway, decisions, search, llm, call, result, upstream, stream, cache>>

KeyWithoutAccess(c) == <<canonicalPlan(asks[c].plan), "public">>    \* mutant: one entry for all levels

planCacheKey(c) == <<canonicalPlan(asks[c].plan), caller[c].access>>

(* A cache that cannot be read has no entry.                                 *)
cacheGet(c) ==
  /\ Going(c, "lookup")
  /\ LET key == planCacheKey(c) IN
     \/ /\ key \in DOMAIN cache
        /\ Goes(c, [step |-> "deltas", cached |-> TRUE, plan |-> cache[key].plan,
                    pack |-> cache[key].pack, answer |-> cache[key].answer])
        /\ Emit(c, <<[event |-> "plan", plan |-> mapPlan(cache[key].plan)],
                     [event |-> "evidence", pack |-> mapEvidence(cache[key].pack)]>>)
        /\ UNCHANGED search
     \/ /\ key \notin DOMAIN cache \/ scene.faults
        /\ Goes(c, [step |-> "search"])
        /\ Emit(c, <<[event |-> "plan", plan |-> mapPlan(asks[c].plan)]>>)
        /\ StartSearch(c, asks[c].plan)
  /\ UNCHANGED <<scene, gateway, decisions, chains, cache>>

-----------------------------------------------------------------------------
StatsOfFacts(fs, ks) == computeStats(fs)      \* mutant: the chunks do not count

(* A document is where its last fact is from, or else its first chunk.       *)
evidenceStats(fs, ks) ==
  LET chunk == scene.chunks
      ofChunks == {chunk[ks[i]].doc : i \in DOMAIN ks}
      FirstOf(d) == chunk[ks[Min({i \in DOMAIN ks : chunk[ks[i]].doc = d})]]
      Of(d) == IF d \in Sources(fs) THEN LastOf(d, fs) ELSE FirstOf(d)
      docs == Sources(fs) \cup ofChunks
  IN StatsOf(docs, [d \in docs |-> Of(d).geography], [d \in docs |-> Of(d).year])

(* The retriever's sessions have no RLS context.  It looks for the terms or   *)
(* for the whole question, in chunks of any kind for facts: those of the      *)
(* documents it finds that have a unit and a long quote, whatever their       *)
(* status; they have no subject.  Its limits are above what a scene has.      *)
Retrievable == ChunksUpTo(normalizeRLS(None))
Hits(c) ==
  {k \in Retrievable :
     Matches(scene.chunks[k].words, ftsTermsQuery(asks[c].terms, Body(c).question), Body(c).question)}

FactsByText(c) ==
  Among({f \in DOMAIN facts : /\ VisibleFact(f, normalizeRLS(None))
                              /\ facts[f].doc \in {scene.chunks[k].doc : k \in Hits(c)}
                              /\ facts[f].unitCode # "" /\ facts[f].quoted}, scene.byText)

LongTexts(ks, size) == {k \in ks : scene.chunks[k].kind = "text" /\ scene.chunks[k].size >= size}

ChunksByText(c) == Among(LongTexts(Hits(c), 120), scene.lexical)
VectorChunks == Among({k \in LongTexts(Retrievable, 150) : scene.chunks[k].embedded}, scene.semantic)

isRussianProse(k) == scene.chunks[k].cyrillic >= 40 /\ scene.chunks[k].cyrillic > scene.chunks[k].latin

augmentFacts(c) ==
  /\ Going(c, "search") /\ search[c].step = "ready"
  /\ LET flags == {"byText", "retrieved"}
         pack == [part \in DOMAIN search[c].pack \cup flags |->
                    IF part \in flags THEN FALSE ELSE search[c].pack[part]]
         found == FactsByText(c)
     IN
     \/ /\ Len(pack.facts) >= MinFacts \/ found = << >> \/ scene.faults
        /\ Goes(c, [step |-> "chunks", pack |-> pack])
     \/ /\ Len(pack.facts) < MinFacts /\ found # << >>
        /\ Goes(c, [step |-> "chunks",
                    pack |-> [pack EXCEPT !.facts = found, !.contradictions = {}, !.byText = TRUE,
                                          !.subjects = [f \in Range(found) |-> None],
                                          !.stats = evidenceStats(found, << >>)]])
  /\ UNCHANGED <<scene, gateway, decisions, search, chains, stream, cache>>

searchFailed(c) ==
  /\ Going(c, "search") /\ search[c].step = "failed"
  /\ writeSSEProblem(c, "Internal")
  /\ UNCHANGED <<decisions, search, llm, call, result, upstream, cache>>

(* In turn one of each list, none twice.                                     *)
interleaveChunks(lexical, semantic) ==
  LET Turns(k) == {2 * i - 1 : i \in {i \in DOMAIN lexical : lexical[i] = k}}
                    \cup {2 * i : i \in {i \in DOMAIN semantic : semantic[i] = k}}
      Before(k, l) == Min(Turns(k)) < Min(Turns(l))
  IN First(TextTop, Sorted(Range(lexical) \cup Range(semantic), Before))

(* Either search may find nothing because it failed.                         *)
augmentChunks(c) ==
  /\ Going(c, "chunks")
  /\ \E found \in SUBSET {"lexical", "semantic"} :
       /\ found # {"lexical", "semantic"} => scene.faults
       /\ LET chunks == interleaveChunks(
                IF "lexical" \in found THEN ChunksByText(c) ELSE << >>,
                IF "semantic" \in found THEN Among({k \in Retrievable : isRussianProse(k)}, VectorChunks) ELSE << >>)
              before == asks[c].pack
              pack == IF chunks = << >> THEN before
                      ELSE [before EXCEPT !.chunks = chunks, !.retrieved = TRUE,
                                          !.stats = evidenceStats(before.facts, chunks)]
          IN /\ Goes(c, [step |-> "synthesis", pack |-> pack])
             /\ Emit(c, <<[event |-> "evidence", pack |-> mapEvidence(pack)]>>)
  /\ UNCHANGED <<scene, gateway, decisions, search, chains, cache>>

-----------------------------------------------------------------------------
(* The literals of a number as it is printed: no sign; from a million on,    *)
(* 1e+06, its mantissa and its exponent.                                     *)
Magnitude(v) == IF v < 0 THEN -v ELSE v

Literals(v) == IF Magnitude(v) >= 1000000000 THEN {Magnitude(v) \div 1000000, 6000} ELSE {Magnitude(v)}

Printed(values) == UNION {Literals(v) : v \in values}

isYear(n) == n % 1000 = 0 /\ n \in 1900000..2100000
approxEqual(a, b) == Magnitude(a - b) <= Magnitude(b) \div 100

Values(f) == {facts[f].vmin, facts[f].vmax, facts[f].siMin, facts[f].siMax} \ {None}

allowedNumbers(pack) ==
  UNION {Values(f) \cup facts[f].quote : f \in Range(pack.facts)}
  \cup UNION {scene.chunks[k].numbers : k \in Range(pack.chunks)}
  \cup UNION {Range(x.agreed) \cup x.sources : x \in Range(pack.consensus)}

Violations(numbers, pack) ==
  {n \in numbers : ~isYear(n) /\ ~\E allowed \in allowedNumbers(pack) : approxEqual(n, allowed)}

runGuard(text, pack) == Cardinality(Violations(text.numbers, pack))

FactViews(pack) == First(TextTop, pack.facts)
ChunkViews(pack) == First(TextTop, pack.chunks)

deriveMethods(pack) ==
  LET views == FactViews(pack)
      Subject(i) == pack.subjects[views[i]]
      named == {i \in DOMAIN views : Subject(i) # None /\ scene.etype[Subject(i)] \in {"process", "technology"}}
  IN {[method |-> s, citations |-> {i \in named : Subject(i) = s}] : s \in {Subject(i) : i \in named}}

deriveConfidence(pack) ==
  70 + (IF pack.consensus # << >> THEN 15 ELSE 0) - (IF pack.contradictions # {} THEN 10 ELSE 0)

(* The numbers of a fact's text; a bound that it has not is printed as 0.     *)
formatValue(f) ==
  LET v == facts[f]
      Number(x) == IF x = None THEN 0 ELSE x
  IN CASE v.op = "range" -> {Number(v.vmin), Number(v.vmax)}
       [] v.op \in {"lte", "lt", "to"} -> {Number(v.vmax)}
       [] v.op \in {"gte", "gt", "from", "approx"} -> {Number(v.vmin)}
       [] OTHER -> IF v.vmin # None THEN {v.vmin} ELSE {v.vmax} \ {None}
valueText(f) == Printed(formatValue(f)) \cup facts[f].unit

(* cleanSnippet cuts a chunk after 700 letters for the LLM, this after 260.   *)
passagesDigest(pack) == UNION {scene.chunks[k].snippet : k \in Range(ChunkViews(pack))}

(* Of a source six facts are named.                                          *)
sourcesDigest(pack) ==
  LET views == FactViews(pack)
      named == {i \in DOMAIN views :
                  Cardinality({j \in 1..i : facts[views[j]].doc = facts[views[i]].doc}) <= 6}
  IN UNION {valueText(views[i]) : i \in named}

consensusParagraph(pack) == IF pack.consensus = << >> THEN {} ELSE Printed(Range(Head(pack.consensus).agreed))

contradictionParagraph(pack) ==
  LET dispute == IF pack.contradictions = {} THEN {} ELSE {CHOOSE k \in pack.contradictions : TRUE} IN
  UNION {facts[disputes[k.id].a].quote \cup facts[disputes[k.id].b].quote \cup disputes[k.id].cause : k \in dispute}

gapParagraph(pack) == IF pack.gaps = << >> THEN {} ELSE Head(pack.gaps).label \cup Head(pack.gaps).reasons

ExtractNumbers(pack) ==
  passagesDigest(pack) \cup sourcesDigest(pack) \cup consensusParagraph(pack)
    \cup contradictionParagraph(pack) \cup gapParagraph(pack)

NothingFound(pack) == pack.facts = << >> /\ pack.chunks = << >>

extractiveSynthesis(pack) ==
  IF NothingFound(pack) THEN [numbers |-> {}, methods |-> {}, confidence |-> 30, by |-> "rules"]
  ELSE [numbers |-> ExtractNumbers(pack), methods |-> deriveMethods(pack),
        confidence |-> deriveConfidence(pack), by |-> "rules"]

(* What the LLM is told, by its parts.                                       *)
synthesisPayload(question, pack) ==
  [question |-> UNION {Range(clause.numbers) : clause \in Range(question)},
   fragments |-> UNION {scene.chunks[k].head : k \in Range(ChunkViews(pack))},
   facts |-> UNION {valueText(f) : f \in Range(FactViews(pack))},
   notes |-> consensusParagraph(pack) \cup contradictionParagraph(pack) \cup gapParagraph(pack)]

(* A draft repeats the numbers of some parts and invents others.              *)
llmSynthesis(c, pack, draft) ==
  LET payload == synthesisPayload(Body(c).question, pack) IN
  [numbers |-> UNION {payload[part] : part \in draft.repeats} \cup draft.invents,
   methods |-> deriveMethods(pack), confidence |-> deriveConfidence(pack), by |-> "llm"]

(* A text that fails the guard is replaced, and the replacement is not.      *)
Guarded(text, degraded, pack) ==
  LET kept == IF runGuard(text, pack) > 0 THEN extractiveSynthesis(pack) ELSE text IN
  [numbers |-> kept.numbers, methods |-> kept.methods, confidence |-> kept.confidence, by |-> kept.by,
   violations |-> runGuard(kept, pack), degraded |-> degraded \/ runGuard(text, pack) > 0]

runSynthesis(c) ==
  /\ Going(c, "synthesis")
  /\ LET k == <<c, "synthesize_answer">>
         pack == asks[c].pack
         Written(text, degraded) == Goes(c, [step |-> "deltas", part |-> 1,
                                             answer |-> Guarded(text, degraded, pack)])
     IN
     \/ /\ ~scene.writer \/ NothingFound(pack)
        /\ Written(extractiveSynthesis(pack), FALSE)
        /\ UNCHANGED cancelled
     \/ /\ scene.writer /\ ~NothingFound(pack) /\ result[k].code = "OK"
        /\ \E draft \in scene.drafts :
             IF draft = None THEN Written(extractiveSynthesis(pack), TRUE)
             ELSE Written(llmSynthesis(c, pack, draft), FALSE)
        /\ UNCHANGED cancelled
     \/ /\ scene.writer /\ ~NothingFound(pack)
        /\ \/ result[k].code \notin {"none", "OK"}
           \/ result[k].code = "none" /\ (scene.slow \/ scene.faults)
        /\ Written(extractiveSynthesis(pack), TRUE)
        /\ cancelled' = cancelled \cup Begun(c)
  /\ UNCHANGED <<scene, gateway, decisions, search, llm, call, result, upstream, stream, cache>>

EmitOneMore(c) ==      \* mutant: one piece too many
  /\ Going(c, "deltas")
  /\ Emit(c, <<[event |-> "answer.delta", part |-> asks[c].part]>>)
  /\ Goes(c, [part |-> asks[c].part + 1,
              step |-> IF asks[c].part <= Deltas THEN "deltas" ELSE IF asks[c].cached THEN "done" ELSE "put"])
  /\ UNCHANGED <<scene, gateway, decisions, search, chains, cache>>

emitDelta(c) ==
  /\ Going(c, "deltas")
  /\ Emit(c, <<[event |-> "answer.delta", part |-> asks[c].part]>>)
  /\ Goes(c, [part |-> asks[c].part + 1,
              step |-> IF asks[c].part < Deltas THEN "deltas" ELSE IF asks[c].cached THEN "done" ELSE "put"])
  /\ UNCHANGED <<scene, gateway, decisions, search, chains, cache>>

KeptIfGuarded(answer) == answer.violations = 0       \* mutant: degraded answers too

Kept(answer) == answer.violations = 0 /\ ~answer.degraded

cachePut(c) ==
  /\ Going(c, "put")
  /\ LET a == asks[c]
         entry == [plan |-> a.plan, pack |-> a.pack, answer |-> a.answer]
     IN \/ /\ Kept(a.answer)
           /\ cache' = [k \in DOMAIN cache \cup {planCacheKey(c)} |->
                          IF k = planCacheKey(c) THEN entry ELSE cache[k]]
        \/ (~Kept(a.answer) \/ scene.faults) /\ UNCHANGED cache
  /\ Goes(c, [step |-> "done"])
  /\ UNCHANGED <<scene, gateway, decisions, search, chains, stream>>

emitDone(c) ==
  /\ Going(c, "done")
  /\ Emit(c, <<[event |-> "answer.done", answer |-> mapAnswer(asks[c].answer)]>>)
  /\ EndStream(c)
  /\ UNCHANGED <<decisions, search, llm, call, result, upstream, cache>>

(* The client is gone, or the connection to the answer service is.           *)
askAborted(c) ==
  /\ pc[c] = "handle" /\ Request(c).route = "ask" /\ asks[c].step \notin {"new", "end"}
  /\ \/ c \in left /\ EndStream(c) /\ UNCHANGED stream
     \/ c \notin left /\ scene.faults /\ writeSSEProblem(c, "Unavailable")
  /\ UNCHANGED <<decisions, search, llm, call, result, upstream, cache>>

(* The calls of the LLM that Ask makes; other services make others.          *)
Wanted(k) ==
  LET a == asks[k[1]] IN
  \/ k[2] = "parse_query" /\ a.step = "parsing"
  \/ k[2] = "synthesize_answer" /\ a.step = "synthesis" /\ scene.writer /\ ~NothingFound(a.pack)

AskNext ==
  \/ \E c \in Players :
       \/ queryParse(c) \/ askHandler(c) \/ planAndTerms(c) \/ cacheGet(c) \/ augmentFacts(c)
       \/ searchFailed(c) \/ augmentChunks(c) \/ runSynthesis(c) \/ emitDelta(c) \/ cachePut(c)
       \/ emitDone(c) \/ askAborted(c)
  \/ \E k \in Calls :
       /\ call[k].step = "calling" \/ (k[1] \in Players => Wanted(k))
       /\ LlmStep(k)
       /\ UNCHANGED <<scene, gateway, decisions, search, answering>>

-----------------------------------------------------------------------------
Asked(c) == Request(c).route = "ask"
EventsOf(c, name) == {stream[c][i] : i \in {i \in DOMAIN stream[c] : stream[c][i].event = name}}

(* A client that stayed received a whole answer - its plan, its evidence, all  *)
(* pieces of its text in order, its end - or a beginning of one and an error;  *)
(* whether it was computed or remembered, and whatever failed or came late.    *)
StreamIsWhole ==
  \A c \in Players : (Asked(c) /\ reply[c].code = 200) =>
    LET answer == <<"plan", "evidence">> \o [i \in 1..Deltas |-> "answer.delta"] \o <<"answer.done">>
        n == Len(stream[c])
        names == [i \in 1..n |-> stream[c][i].event]
    IN
    /\ names = answer \/ (n > 0 /\ names[n] = "error" /\ SubSeq(names, 1, n - 1) = First(n - 1, answer))
    /\ \A i \in 1..n : names[i] = "answer.delta" => stream[c][i].part = i - 2

(* What a client is told belongs together, cached or not: the violations that  *)
(* an answer states are the numbers of its text that the evidence before it    *)
(* does not have; a method cites facts of the evidence; the contradictions of  *)
(* the evidence are between its facts and its statistics count its documents.  *)
AnswerFitsEvidence ==
  \A c \in Players :
    /\ \A e \in EventsOf(c, "evidence") :
         /\ \A k \in e.pack.contradictions : {k.a, k.b} \subseteq DOMAIN e.pack.facts
         /\ e.pack.stats.sources =
              Cardinality(Sources(e.pack.facts) \cup
                          (IF e.pack.retrieved THEN {scene.chunks[k].doc : k \in Range(e.pack.chunks)} ELSE {}))
    /\ \A e \in EventsOf(c, "evidence"), done \in EventsOf(c, "answer.done") :
         /\ done.answer.guard.violations = runGuard([numbers |-> done.answer.summary], e.pack)
         /\ \A m \in done.answer.methods : m.citations # {} /\ m.citations \subseteq DOMAIN e.pack.facts

(* What the LLM failed to write is not remembered: of an asker who has an LLM   *)
(* the cache keeps only what the LLM wrote, or that nothing was found - where a *)
(* retriever that failed found nothing too; and what the graph gave for an      *)
(* entry is visible to all whom it can be served to.                            *)
CacheIsClean ==
  \A key \in DOMAIN cache :
    LET entry == cache[key] IN
    /\ entry.answer.by = "llm" \/ ~scene.writer \/ NothingFound(entry.pack)
    /\ runGuard(entry.answer, entry.pack) = 0
    /\ entry.pack.byText \/ \A f \in Range(entry.pack.facts) : Sees(key[2], facts[f].access)

(* .agents/07-query-pipeline.md: the rate of numbers that the evidence does not *)
(* have must be 0.                                                              *)
NoHallucinatedNumbers ==
  \A c \in Players : \A done \in EventsOf(c, "answer.done") : done.answer.guard.violations = 0
=============================================================================
