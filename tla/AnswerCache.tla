---------------------------- MODULE AnswerCache -----------------------------
(***************************************************************************)
(* The answer cache of internal/answer over the graph Epistemic keeps: Ask *)
(* looks a question up, computes the answer from several snapshots of the  *)
(* graph and stores it, while a worker deletes the entries whose plans     *)
(* name an entity of a facts.committed event.                              *)
(*                                                                         *)
(* A question is its plan and the documents its words match: only the plan *)
(* is part of the key, besides the asker's document access.  Of a plan the *)
(* entities are slugs, and its geography and constraints are the facts     *)
(* that pass them: neither depends on anything that changes in a fact.     *)
(***************************************************************************)
EXTENDS Epistemic, TLC

CONSTANTS
  Questions,      \* records [plan : [entities : SUBSET Slugs, passes : SUBSET AllFacts],
                  \*          text : SUBSET Docs]
  Levels,         \* Levels[l]: the access levels of documents an asker of l sees
  Access,         \* Access[d]: core.documents.access_level
  Askers,         \* concurrent calls of Ask
  FinalTop,       \* ranking.finalTop: facts an evidence pack has at most
  MinFacts        \* minFactsForAnswer

Plans == {q.plan : q \in Questions}
Keys == Plans \X DOMAIN Levels

ASSUME AnswerCacheAssumption ==
  /\ \A q \in Questions : /\ q.plan.entities \subseteq Slugs /\ q.plan.passes \subseteq AllFacts
                           /\ q.text \subseteq Docs
  /\ FinalTop \in Nat \ {0} /\ MinFacts \in Nat
  /\ \A b \in Scenarios : {b.invalidate, b.asks} \subseteq Nat /\ b.overlap \in BOOLEAN

VARIABLES
  entities,       \* slugs with a row in kg.entities
  carried,        \* carried[d]: slugs of those entity_ids of d's event that are rows
  inval,          \* inval[d]: facts.committed of d, as the answer durable has it
  invalTries,     \* deliveries of it
  cache,          \* cache[k]: ops.answer_cache, None without a live row
  ask,            \* ask[a]: the call in progress of asker a
  asks

catalogVars == <<entities, carried>>
answerVars  == <<inval, invalTries, cache, ask, asks>>
vars        == <<epistemicVars, catalogVars, answerVars>>

Idle == [pc |-> "idle"]

Started(q, l) ==
  [pc |-> "search", question |-> q, level |-> l, ids |-> {}, before |-> {}, found |-> {},
   withheld |-> {}, crowded |-> {}, verdicts |-> << >>, source |-> "graph"]

TypeOK ==
  /\ EpistemicTypeOK
  /\ entities \subseteq Slugs
  /\ carried \in [Docs -> SUBSET Slugs]
  /\ inval \in [Docs -> {"none", "pending", "done", "dead"}]
  /\ invalTries \in [Docs -> 0..bound.invalidate]
  /\ DOMAIN cache = Keys
  /\ \A a \in Askers : ask[a].pc \in {"idle", "search", "facts", "evidence", "augment", "write"}
  /\ asks \in 0..bound.asks

Init ==
  /\ EpistemicInit
  /\ entities = {}
  /\ carried = [d \in Docs |-> {}]
  /\ inval = [d \in Docs |-> "none"]
  /\ invalTries = [d \in Docs |-> 0]
  /\ cache = [k \in Keys |-> None]
  /\ ask = [a \in Askers |-> Idle]
  /\ asks = 0

-----------------------------------------------------------------------------
(* CommitExtraction resolves the names of a document, then, in another      *)
(* transaction, creates what did not resolve.  The event is built between:  *)
(* of the entities it names those created meanwhile by others are no rows.  *)
Named(d) == {Home[f] : f \in Facts[d]} \cup {Parameter[f] : f \in Facts[d]}

Commit(d) ==
  /\ CommitFacts(d)
  /\ \E seen \in SUBSET {e \in Docs : event[e] # "none"} :   \* committed before d resolved
       /\ bound.overlap \/ entities = UNION {Named(e) : e \in seen}
       /\ carried' = [carried EXCEPT ![d] =
            Named(d) \cap (UNION {Named(e) : e \in seen} \cup (Slugs \ entities))]
  /\ entities' = entities \cup Named(d)
  /\ inval' = [inval EXCEPT ![d] = "pending"]
  /\ UNCHANGED <<invalTries, cache, ask, asks>>

InvalidateSubjects(d, deleted, acked) ==    \* mutant: entity_ids of subjects only
  /\ inval[d] = "pending"
  /\ invalTries[d] < bound.invalidate
  /\ acked => deleted
  /\ invalTries' = [invalTries EXCEPT ![d] = @ + 1]
  /\ inval' = [inval EXCEPT ![d] = IF acked THEN "done"
                                   ELSE IF invalTries'[d] = bound.invalidate THEN "dead"
                                   ELSE "pending"]
  /\ cache' = [k \in Keys |->
       IF deleted /\ k[1].entities \cap carried[d] \cap {Home[f] : f \in Facts[d]} # {}
       THEN None ELSE cache[k]]
  /\ UNCHANGED <<epistemicVars, catalogVars, ask, asks>>

(* Worker.handle: resolve the ids to slugs, delete the entries whose plans  *)
(* have one of them.  An error is a Nack; the Ack may not arrive.           *)
Invalidate(d, deleted, acked) ==
  /\ inval[d] = "pending"
  /\ invalTries[d] < bound.invalidate
  /\ acked => deleted
  /\ invalTries' = [invalTries EXCEPT ![d] = @ + 1]
  /\ inval' = [inval EXCEPT ![d] = IF acked THEN "done"
                                   ELSE IF invalTries'[d] = bound.invalidate THEN "dead"
                                   ELSE "pending"]
  /\ cache' = [k \in Keys |->
       IF deleted /\ k[1].entities \cap carried[d] # {} THEN None ELSE cache[k]]
  /\ UNCHANGED <<epistemicVars, catalogVars, ask, asks>>

(* An entry outlives its 24 hours.                                          *)
Expire(k) ==
  /\ cache[k] # None
  /\ cache' = [cache EXCEPT ![k] = None]
  /\ UNCHANGED <<epistemicVars, catalogVars, inval, invalTries, ask, asks>>

-----------------------------------------------------------------------------
Handled == {d \in Docs : inval[d] = "done"}

KeyIgnoresAccess(q, l) == <<q.plan, "public">>      \* mutant: one key for all askers

planCacheKey(q, l) == <<q.plan, l>>

(* Ask up to the cache: an entry there is replayed and the call is over.    *)
Lookup(a, q, l) ==
  /\ ask[a].pc = "idle"
  /\ asks < bound.asks
  /\ asks' = asks + 1
  /\ ask' = [ask EXCEPT ![a] =
       IF cache[planCacheKey(q, l)] # None THEN Idle ELSE Started(q, l)]
  /\ UNCHANGED <<epistemicVars, catalogVars, inval, invalTries, cache>>

(* ExpandEntityIDs: the plan's entities and their neighbours in the graph.  *)
Edges == {<<subject[f], Parameter[f]>> : f \in Stored}

Expand(slugs) ==
  LET here == slugs \cap entities IN
  here \cup {e[2] : e \in {x \in Edges : x[1] \in here}}
       \cup {e[1] : e \in {x \in Edges : x[2] \in here}}

ExpandEntityIDs(a) ==
  /\ ask[a].pc = "search"
  /\ ask' = [ask EXCEPT ![a].pc = "facts", ![a].ids = Expand(ask[a].question.plan.entities),
                        ![a].before = Handled]
  /\ UNCHANGED <<epistemicVars, catalogVars, inval, invalTries, cache, asks>>

About(f, ids) == subject[f] \in ids \/ Parameter[f] \in ids

(* The facts about ids that a session of level l sees and plan passes; of   *)
(* those queryFacts leaves out the hidden ones.                             *)
Matching(l, ids, plan) ==
  {f \in Stored \cap plan.passes : About(f, ids) /\ Access[Sample[f].doc] \in Levels[l]}

VisibleFacts(l, ids, plan) == Matching(l, ids, plan) \ hidden

(* The pack has the FinalTop facts that rank highest; which these are       *)
(* depends on more than the model has.                                      *)
Cut(facts) ==
  {top \in SUBSET facts : IF Cardinality(facts) <= FinalTop THEN top = facts
                          ELSE Cardinality(top) = FinalTop}

(* withheld and crowded are history: what was left out for its status, and  *)
(* what the cut left out.                                                   *)
ReadFacts(a) ==
  /\ ask[a].pc = "facts"
  /\ LET match == Matching(ask[a].level, ask[a].ids, ask[a].question.plan)
         facts == VisibleFacts(ask[a].level, ask[a].ids, ask[a].question.plan)
     IN  \E top \in Cut(facts) :
           ask' = [ask EXCEPT ![a].pc = "evidence", ![a].found = top,
                              ![a].withheld = match \ facts, ![a].crowded = facts \ top]
  /\ UNCHANGED <<epistemicVars, catalogVars, inval, invalTries, cache, asks>>

(* Clusters are read whole, whatever the asker's level.                     *)
ConsensusAbout(ids) ==
  {c \in Clusters : /\ c[1] \in ids \/ c[2] \in ids
                    /\ consensus[c] # None /\ consensus[c].agreed # <<>>}

ReadConsensus(a) ==
  /\ ask[a].pc = "evidence"
  /\ ask' = [ask EXCEPT ![a].pc = "augment",
                        ![a].verdicts = [c \in ConsensusAbout(ask[a].ids) |-> consensus[c]]]
  /\ UNCHANGED <<epistemicVars, catalogVars, inval, invalTries, cache, asks>>

(* augmentFacts: too few facts are replaced by those of documents the words *)
(* match, if there are any.  The pool of the retriever never had an RLS     *)
(* context: whoever asks, it sees public and internal documents.            *)
augmentFacts(a) ==
  /\ ask[a].pc = "augment"
  /\ LET matched == {f \in Stored : /\ Sample[f].doc \in ask[a].question.text
                                    /\ Access[Sample[f].doc] \in Levels["internal"]}
         few == Cardinality(ask[a].found) < MinFacts /\ matched # {}
     IN  ask' = [ask EXCEPT ![a].pc = "write", ![a].found = IF few THEN matched ELSE @,
                            ![a].source = IF few THEN "text" ELSE "graph"]
  /\ UNCHANGED <<epistemicVars, catalogVars, inval, invalTries, cache, asks>>

(* Only an answer that is not degraded is stored.  The table has neither    *)
(* what its reading left out nor overtaken: the events handled since its    *)
(* first read.                                                              *)
Entry(a) == [facts |-> ask[a].found, verdicts |-> ask[a].verdicts, source |-> ask[a].source,
             withheld |-> ask[a].withheld, crowded |-> ask[a].crowded,
             overtaken |-> Handled \ ask[a].before]

Put(a) ==
  /\ ask[a].pc = "write"
  /\ cache' = [cache EXCEPT ![planCacheKey(ask[a].question, ask[a].level)] = Entry(a)]
  /\ ask' = [ask EXCEPT ![a] = Idle]
  /\ UNCHANGED <<epistemicVars, catalogVars, inval, invalTries, asks>>

(* The answer is degraded, an error, or its client is gone.                 *)
Drop(a) ==
  /\ ask[a].pc # "idle"
  /\ ask' = [ask EXCEPT ![a] = Idle]
  /\ UNCHANGED <<epistemicVars, catalogVars, inval, invalTries, cache, asks>>

Next ==
  \/ \E d \in Docs : Commit(d)
  \/ (Handle \/ Replay) /\ UNCHANGED <<catalogVars, answerVars>>
  \/ \E x, y \in Slugs : /\ x # y /\ {x, y} \subseteq entities
                         /\ MergeSubjects(x, y) /\ UNCHANGED <<catalogVars, answerVars>>
  \/ \E f \in AllFacts, status \in FactStatuses :
        UpdateFactStatus(f, status) /\ UNCHANGED <<catalogVars, answerVars>>
  \/ \E p \in Pairs, s \in Statuses \ {"suspected"} :
        DecideContradiction(p, s) /\ UNCHANGED <<catalogVars, answerVars>>
  \/ \E d \in Docs, deleted, acked \in BOOLEAN : Invalidate(d, deleted, acked)
  \/ \E k \in Keys : Expire(k)
  \/ \E a \in Askers, q \in Questions, l \in DOMAIN Levels : Lookup(a, q, l)
  \/ \E a \in Askers : \/ ExpandEntityIDs(a) \/ ReadFacts(a) \/ ReadConsensus(a)
                       \/ augmentFacts(a) \/ Put(a) \/ Drop(a)

Spec == Init /\ [][Next]_vars

-----------------------------------------------------------------------------
(* A cached answer lacks a fact about an entity its plan names, that its     *)
(* readers may see and search would show them, only if the event of that    *)
(* fact is still to be handled by the worker or dead, was handled while the *)
(* answer was being computed, or did not carry the entity; if a merge has   *)
(* moved the fact; or if the answer's reading passed it over, because it    *)
(* was then under review, rejected or deprecated, or ranked below the cut.  *)
StaleAnswerIsExplained ==
  \A k \in Keys : cache[k] # None /\ cache[k].source = "graph" =>
    \A f \in VisibleFacts(k[2], k[1].entities, k[1]) :
      LET d == Sample[f].doc IN
      \/ f \in cache[k].facts
      \/ inval[d] \in {"pending", "dead"}
      \/ d \in cache[k].overtaken
      \/ k[1].entities \cap {Home[f], Parameter[f]} \cap carried[d] = {}
      \/ f \in moved
      \/ f \in cache[k].withheld
      \/ f \in cache[k].crowded /\ Cardinality(cache[k].facts) = FinalTop

(* Askers of different access do not share entries: what the graph gave for *)
(* an entry is visible to everyone who can be served it.                    *)
CachedForItsLevel ==
  \A k \in Keys : cache[k] # None /\ cache[k].source = "graph" =>
    \A f \in cache[k].facts : Access[Sample[f].doc] \in Levels[k[2]]
=============================================================================
