# Verification of kmap

kmap turns uploaded R&D documents into a knowledge graph of numeric facts and answers
questions from it. The Go services live in `internal/` (wired by `cmd/`), the document
workers in `services/`. This directory holds TLA+ models of what is hard to test there,
in three parts:

* **transport**: how work travels between the services: the outbox, the bus, the ingestion
  pipeline, concurrent commits of the catalog;
* **knowledge**: what follows from a commit: clusters, consensus, contradictions and
  coverage, and the cached answers that rest on them;
* **requests**: what clients do at once behind the gateway: uploads, reads, decisions of
  experts, searches and questions, with the LLM, while documents are committed.

TLC checks the three on small instances; TLAPS proves what matters most for every
instance. Paths in this file are relative to the repository.

## 1. The system

```
 gateway --> ingest --(outbox, relay)--> document.registered
                                            |
                           services/parse --+--> document.parsed | document.parse-failed
                                            |
                         services/extract --+--> document.extracted
                                            |
 catalog (CommitExtraction, MarkDocumentFailed) --(outbox, relay)--> facts.committed
                                            |
            epistemic (clusters, consensus) + answer (cache invalidation)
 gateway --> catalog, epistemic, search;  gateway --> answer --> search, llm
```

| component | code | state it keeps | operations |
|---|---|---|---|
| outbox | `internal/platform/outbox` | table `ops.outbox`, row locks of the relays | `Append`, `Drain` |
| bus | `internal/platform/nats` | streams and durables at the broker, the subscription's buffer | `PublishWithHeaders`, `Subscribe`, `handle`, `deadLetter` |
| parse | `services/parse` | docir.json in the object store, tasks | `handle`, restart |
| extract | `services/extract` | bundle.json in the object store, tasks | `handle`, restart |
| ingest | `internal/ingest` | `core.documents`, versions, stage rows | `RegisterDocument`, `GetStatus`, `ListDocuments` |
| catalog | `internal/catalog` | entities, aliases, chunks, facts, edges, document status | `CommitExtraction`, `MergeEntities`, `MarkDocumentFailed`, `UpdateFactStatus` |
| epistemic | `internal/epistemic` | clusters, members, consensus, contradictions, coverage | `RecalculateFacts`, `DecideContradiction`, lists |
| answer | `internal/answer` | `ops.answer_cache` | `Ask`, `ParseQuery`, invalidation on facts.committed |
| search | `internal/search` | none | evidence pack, facts, graph, experts, experiments |
| llm | `internal/llm` | none | completion over a chain of models and providers |
| gateway | `internal/gateway` | audit log, its process | authorise, forward, upload, entity review, dictionaries |
| platform | `internal/platform/{runtime,auth,pg,blob,config}` | workers and closers; RLS settings of a connection | start, shutdown, verify, `SetRLS` |

Synchronous gRPC joins gateway, ingest, catalog, epistemic, search, answer and llm;
everything else goes through JetStream events and shared tables. The Go services publish
through the outbox; the Python services, epistemic and the gateway publish directly.

What is hard here: every event is delivered at least once and in no order; a handler may
outlive its `ack_wait` and run beside its own redelivery; errors of acknowledgements and
dead letters are dropped; processes crash between a step and its announcement; a restart
deletes or recreates durables and replays the stream; the catalog resolves names outside
its transaction while other commits and merges go on; merges and verdicts send no event;
a request is served in several transactions with the decisions of others between them; a
client may hang up, and then the audit fails as well; a database session sees only the
rows its RLS setting lets it see, and some sessions set none; an LLM may be late, wrong or
gone; a cached answer outlives the facts it rests on.

What makes each component correct:

* outbox: an event is in the stream only if its transaction committed, and at last it is;
  a mark is never set on what the stream does not hold; no second copy within the
  duplicate window.
* bus: a message the broker forgets was acted upon or dead-lettered; the handler is
  called at most `MaxDeliver` times in the life of a durable.
* parse and extract: an event names an artifact that exists; overlap alone does not leave
  an artifact nobody announces; a document comes to rest.
* catalog: an indexed document has the facts of one bundle, once; "indexed" is final;
  a public fact has its edge unless a merge left the fact behind; the history of a fact that
  every session sees tells its status.
* epistemic: every cluster is judged on all its members, a consensus has a value in common,
  decisions of experts stand, a coverage cell is stale only for a stated reason.
* answer: a cached answer is stale only for a stated reason, and what the graph gave for it
  stays within its access level; a stream is whole; an answer's citations, numbers and
  violations are about its evidence.
* search: a pack is of one piece; a fact that stands is found. llm: the requests of a
  completion are bounded, and its failure means that nobody is left to ask.
* ingest and gateway: one document per file, and its uploader is told the truth; lists and
  searches stay within the access of the token, and an answer goes beyond it only in what was
  found by its text, up to the sight of a session without access context; a change is audited;
  a review happens once; a request fails in the server only for a reason; a stopping gateway
  answers what it took.

`PROJECT.json` lists all components, and every hazard at the line where it bites with the
properties that cover it.

## 2. Modules

Transport:

| module | stands for | state and actions |
|---|---|---|
| `EventLog` | what the outbox promises | committed transactions, the events stored; `Commit`, `Deliver` |
| `Outbox` | `outbox.go`, `relay.go`, `PublishWithHeaders` | `rows` is `ops.outbox`, `claimed[r]` the row locks of relay r, `sent[r]` its `publishedIDs`, `copies` and `window` the stream; `Commit`, `Claim`, `Publish` (acknowledged, answer lost, failed), `MarkPublished`, `Rollback`, `Expire` |
| `JetStream` | the broker's record of one message of one durable (external) | operators `Delivered`, `Settled`, `Requeued` |
| `Delivery` | `Subscribe`, `handle`, `deadLetter` of `bus.go` | `broker`, the buffer `inbox`, the copy `current` and its `verdict`; `Push`, `AckWait`, `Begin`, `Decide`, `SettleAck`, `SettleNack`, `SettleDeadLetter`, `Crash`, `GracefulStop` |
| `Pipeline` | `services/parse`, `services/extract`, the catalog's two handlers, document status | `status`, `artifacts`, `copies` of each event, `durable`, and per task `step`, `on`, `nth`; one action per step of `handle`, faults, task death, `ack_wait`, restarts |
| `Catalog` | `CommitExtraction` and `MergeEntities` against each other | `bundle` in the object store, `entity`, `aliases`, `facts`, `chunked`, `edges`, `indexed`, `events`, and per caller where it is; `open[m]` the merge of expert m with the rows it has written, `late` (history) what an ended merge left behind; `Overwrite`, `Fetch`, `Resolve`, `Commit`, `Fail`, and a merge statement by statement: `MergeNames`, `MergeFacts`, `MergeEdges`, `MergeEnd`, `MergeFail` |

Knowledge (`Consensus` <- `Epistemic` <- `AnswerCache`, which holds `Spec`):

| module | stands for | state and actions |
|---|---|---|
| `Consensus` | `consensus.go` of epistemic | operators only: `Lo`, `Hi`, `Weight`, `WeightedMedian`, `OverlapsByHalf`, `Verdict`, `Consensus` |
| `Epistemic` | the consumer of facts.committed, `RecalculateFacts` statement by statement, `DecideContradiction`; of catalog what it reads | `subject` of each fact, `hidden` those whose status search leaves out, `event`, the open transaction (`hand`, `step`, `grouped`), `member`, `consensus`, `dispute`, `cell`; `CommitFacts`, `MergeSubjects`, `UpdateFactStatus`, `DecideContradiction`, `Group`, `GroupRaises`, `Judge`, `Announce`, `Abort`, `Replay` |
| `AnswerCache` | `Ask` around `ops.answer_cache`, the invalidation worker | `cache`, per asker the read it is at and what its reading left out, `inval` the worker's durable, `carried` the entities an event names; `Commit`, `Invalidate`, `Expire`, `Lookup`, `ExpandEntityIDs`, `ReadFacts` (with its filters and its `Cut`), `ReadConsensus`, `augmentFacts`, `Put`, `Drop` |

Requests (each line extends the ones before it that it names; `Api` holds `Spec`):

| module | stands for | state and actions |
|---|---|---|
| `Access` | `internal/platform/auth`, `rls.go` | operators: `PrincipalOf` a token, `Authorize`, `Sees` |
| `Gateway` (`Access`) | `authorize`, audit, clients that hang up, the process and its shutdown | `pc`, `caller`, `reply`, `left`, `announced`, `trail`, `process` |
| `Uploads` (`Gateway`) | upload, status, list and file routes, `internal/ingest` | `docs`, `blobs`, `outbox`, `work`; one action per part, lookup, registration, response, and per read |
| `Decisions` (`Gateway`) | fact, review, merge and contradiction routes with what catalog, epistemic or the gateway's SQL does; the review queue | `facts`, `history`, `entities`, `edges`, `disputes` |
| `Extraction` (`Uploads`, `Decisions`) | `CommitExtraction` of one bundle: names, drafts, candidates, bounds, classification, natural key, edges, errors | `commit`; `fetchBundle`, `ResolveByNames`, `Commit` |
| `QueryPlan` | `plan.go`, `llmplan.go` of answer | operators: plans by rules or from an LLM's answer, filters, cache key |
| `Search` (`Decisions`, `QueryPlan`) | `internal/search`: the pack, one read per step; the routes that read entities, facts, graph, experts, experiments | `search` |
| `Browse` (`Search`) | lists of coverage and contradictions, dictionaries | none of its own |
| `LlmChain` | `internal/llm`: chain, attempts, providers, deadlines, the client library's repeated requests | `llm`, `call`, `result`, `upstream`, `cancelled` |
| `Ask` (`Search`, `LlmChain`) | `internal/answer` and the SSE routes | `asks`, `stream`, `cache`; a step per read, call, guard and event sent |
| `Api` | all of them together | `Next` is one of the above; `Finished` |

Proofs: `JetStreamProofs`, `OutboxProofs`, `DeliveryProofs`, `PipelineProofs`,
`CatalogProofs`, `KnowledgeProofs` (of `AnswerCache`), `ApiProofs` and `ServiceProofs` (of
`Api`; the second uses the invariants of the first); section 6. Instances for TLC:
`MCOutbox`, `MCDelivery`, `MCPipeline`, `MCCatalog`, `MCKnowledge`, `MCRequests`; section 3.

How the parts meet. `Delivery` and `Pipeline` use `JetStream`; `Delivery` has the bus in
full detail for one durable, `Pipeline` keeps of it what a document can see. `Outbox`
refines `EventLog` with `log <- {e : copies[e] > 0}`, and `Pipeline` and `AnswerCache` rest
on that promise. Concurrent commits are `Catalog`'s, what one commit computes is
`Extraction`'s. How the answer cache ages is `AnswerCache`'s, which leaves out what an
answer says; how an answer comes about is `Ask`'s, which never invalidates. A recalculation
under verdicts is `Epistemic`'s, the request that gives the verdict `Decisions`'.

Abstractions, beyond those the comments of a module name:

* Events, documents, names, slugs and values are members of small sets; text, wording and
  logging are left out. Of a text `Ask` keeps its numbers, since the number guard is about
  them, and of a question its clauses with their words, numbers, signs and units.
* A step that may fail for reasons the model does not have (network, disk, parser, another
  service) fails at any time, as often as its bound allows, or where its scene has `faults`.
* In `Catalog` a commit is one step: it holds an advisory lock on the document, inserts of a
  slug, fact or edge that another commit has inserted wait for that one, and what a merge has
  written and not yet committed makes it wait (`MustWait`). A merge takes no such lock: its
  statements are steps, each reads what is committed when it runs, and commits and other
  merges fall between them. One thing is left out: a commit whose edge statement waited for a
  merge goes on with the facts as they were before the wait. In `Decisions` a merge is one
  step, and `Epistemic` has of it only which facts moved; there nothing is said of edges. In
  `Epistemic` the statements of the transaction are steps where others may write between them.
* Which facts rank highest is `Search`'s; in `AnswerCache` the cut takes any `FinalTop` of
  those that match (`Cut`).
* Full-text and vector search are external: a scene says what they find, and the chunks of
  a document committed during a scene are not among it.
* In `Extraction` the deliveries of a scene come one after the other.
* Left out: edge weights, the stored size of a cluster, the condition hash in keys (extract
  leaves conditions empty), token counts, the pauses between attempts.

Definitions commented "mutant" are plausible mistakes. They are part of no specification;
each shows that one property notices it when put in the place of the definition it
precedes.

## 3. Runs

| run | instance | shows |
|---|---|---|
| `outbox` | 2 relays, 3 events of 2 transactions, batch 2, 1 lost claim, 1 expiry per id | `MarkedIsStored`, `OneCopyPerWindow`, `BacklogDrains`, refinement of `EventLog` with its liveness |
| `delivery` | a good and a malformed message, 2 deliveries, 2 stops, 1 lost answer | `SettledIsAccounted`, `AttemptsBounded` |
| `delivery_dlq` | the same | **violated**: a message out of deliveries is not always dead-lettered |
| `pipeline_overlap` | 1 document, 2 parse and 2 extract tasks, 2 deliveries, 1 fault, 1 restart | `ArtifactChain`, `WedgeNeedsFault`, `IndexedIsFinal` |
| `pipeline_rest` | 1 task per stage, 2 faults, 1 restart | `DocumentsComeToRest` |
| `pipeline_replay` | 1 task per stage, 2 copies, 1 fault, 1 restart | **violated**: a replay does not reach every unfinished document |
| `catalog` | 2 callers, 2 mergers, 3 documents, 2 names, 2 slugs, 4 bundles, 4 calls, 2 merges, one slug also with itself | `IndexedDocumentIsWhole`, `EdgesFollowFacts` |
| `catalog_merge` | 1 caller, 1 merger, no merge with itself | **violated**: a merge may leave facts with the merged entity |
| `catalog_recommit` | 1 caller, 1 merger | **violated**: a second commit of a document may fail for good |
| `knowledge` | 5 documents, 6 facts, 3 slugs, 1 asker, 2 questions, 2 levels, packs of 2 facts, 12 scenarios | `ClustersAreJudged`, `StaleCellIsExplained`, `AgreementIsSound`, `DecisionStands`, `StaleAnswerIsExplained`, `CachedForItsLevel` |
| `requests` | 6 kinds of tokens and a forged one, up to 3 clients at once, 291 scenes | the properties of the requests part, below |
| `ask_numbers` | one question about a fact of 1 500 000 tonnes | **violated**: an answer has numbers that its evidence does not have |

The violated properties quote the repository's own documents; the findings in
`PROJECT.json` give the line and the trace in words.

The properties of `requests`: `DocumentHoldsItsFile` and `AcceptedIsRegistered` (uploads
that race, or carry several files), `ReviewedOnce`, `HistoryTellsStatus` (decisions against
each other and against commits), `OneFactPerReading` (a document that is committed again),
`ChangeIsAudited`, `ShownIsVisible`, `PackIsCoherent` and
`SearchFindsWhatStands` (searches between decisions and commits), `FailureIsExhaustive` and
`CallsAreBounded` (the chain of models), `StreamIsWhole`, `AnswerFitsEvidence` and
`CacheIsClean` (answers), `ServerErrorIsExplained`, `RequestsAreDrained`, and `TypeOK`.
Each is preceded in its module by what it says. `ServerErrorIsExplained` is a property of
steps: the reason for a failure holds in the state in which the request fails, and may be
gone in a later one.

Why the bounds are enough.

* Transport. Two relays and a batch smaller than the events let a transaction be split
  between relays. Two deliveries make the last delivery a redelivery, so first, middle and
  last behaviour all occur; the code compares only with `MaxDeliver`. Documents share
  nothing in the pipeline but its tasks, so one document shows what its own messages do to
  each other; two tasks per stage let a redelivery overlap the first attempt; two copies
  make an event that was published twice two messages. Two faults are needed to lose a task
  (the work fails and its nak fails). The catalog's instance has the conflicts that matter:
  two spellings with one slug, one name with two slugs, a document with two bundles, a
  public and an internal document, a third document whose fact a second merge can bring to an
  entity that is being merged away, merges in both directions and of an entity with itself.
  Two mergers let a merge wait for, fail on, or chain with another; a third would wait for the
  same rows. Every bound is a constant named `Max...`.
* Knowledge. A scenario (`MCScenarios`) lets a few kinds of events happen at all: one to three
  of the documents are committed, with one or two deliveries to epistemic or to the cache
  worker, up to two merges, one or two verdicts or one replay, up to two questions. The twelve of
  them put side by side what can disturb each other: deliveries and verdicts, merges, replays,
  invalidation and questions. Of the questions one is filtered by geography; the pack is
  smaller than the facts that match, so the cut crowds some out; one fact is committed under
  unit review, so that an expert's decision brings it into sight. The values of the facts give
  each verdict (`insufficient`, `consensus`, `majority`, `split`), a point against a range, a
  weight of zero, a document without a year, and an internal document among public ones.
* Requests. A scene says who asks what at once, what the base holds, and which disturbances
  may occur: `faults` (any call to a dependency may fail or lose its answer), `hangsUp` (a
  client may go), `stops` (the gateway may be told to stop, or its listener fail), `slow`
  (an LLM may be late). `UploadScenes` race two uploads of one file with different rights;
  `ReadScenes` try every kind of token on a document of each level; `DecisionScenes` and
  `CommitScenes` put decisions, merges, searches and commits next to each other;
  `BrowseScenes` read while others decide; `RuleScenes` vary questions and filters, an
  inverted range among them; `LlmScenes` vary what planner and writer answer, and what
  providers do. More clients at once bring no new pairs of steps that touch the same row:
  a decision concerns one fact, entity or contradiction, of which the scenes have two or
  three contenders.

The theorems hold for every value of the constants.

Deadlock is not checked in the transport part and in `knowledge`: with finitely many
events, faults and calls these instances come to an end, in which the real system waits for
the next upload. `requests` does check it: a scene ends only by `Finished`, when every
client is done or the gateway has stopped, so a request that no step can continue would show.

## 4. Fairness

* `Outbox`: `Relay.Run` drains at start and on every tick, hence weak fairness of `Claim`,
  `Publish` and `MarkPublished`. That a publication is acknowledged is not up to the code:
  strong fairness of `PublishAcked` says that a broker tried again and again answers at
  last. `Rollback` has none and is bounded.
* `Pipeline`: tasks fetch in a loop and `handle` runs to its end; the catalog's
  subscription and the `ack_wait` timer run: weak fairness. Faults have none. The process
  that has lost all tasks of a stage is not restarted by anything in the code, so that is
  one of the states in which a document may rest.
* The other specifications state none and are checked for safety only. What an event leads
  to in epistemic and the cache rests on `Delivery`, where it may end out of deliveries;
  that a request ends is, short of fairness, the absence of deadlock in `requests`.

## 5. What the runs rest on

JetStream is modelled from how the code configures it (`DeliverAll`, `AckWait`,
`MaxDeliver`, `Nats-Msg-Id`), not from its source. PostgreSQL is taken at its word:
`FOR UPDATE SKIP LOCKED`, unique indexes, foreign keys and row-level security do what they
say, and a transaction is READ COMMITTED. Messages do not expire from the stream (72 hours)
within a run. Signed metadata between services verifies: keys agree, clocks differ by less
than five minutes. Signatures of tokens are a choice between valid and not.

## 6. Proofs

All theorems are of the form `Spec => ...`, for every value of the constants that satisfies
the assumption of the module they are about; TLC evaluates the assumptions on the runs'
instances. `OutboxAssumption`, `DeliveryAssumption` and `PipelineAssumption` give the
bounds and identifiers their types; `CatalogAssumption` also says that a bundle has finitely
many facts, told apart by their values. `EpistemicAssumption` says that a fact belongs to
one document, a document has finitely many facts, bounds are integers and confidences and
ages natural numbers; `AnswerCacheAssumption` that questions name slugs, facts and documents, and
that a pack has room for a fact.

Of the requests part: `AccessAssumption`, a verifier mode is one the code knows;
`UsersAssumption`, a valid token names a user; `EntitiesAssumption`, `FactsAssumption` and
`DocumentsAssumption`, the rows a scene starts from have the columns that handlers read,
statuses and levels of access are those of the schema, a merged entity has a target and a
document its object, and new documents are not named like those there are;
`KeysAssumption`, the foreign keys of facts and edges hold, facts are finitely many and
their ids unique; `PartsAssumption` and `BundlesAssumption`, the parts of a body, the
deliveries of a scene and what a bundle lists are sequences, a bound that extract sends is a
number or none, a confidence a number; `RowsAssumption`, one row comes of one reading and
has an id of its own (the catalog draws a new random id for each); `RankingAssumption`, the
table `Freshness`, which stands for the exponential of `ranking.go`, has the ages of the
years that occur; `DeltasAssumption`, the text of an answer is sent in at least one piece.
For the same reason as `RowsAssumption` nobody names a fact
before it is committed: `Nameable` is a guard of `UpdateFactStatus`, since ids in a scene
are not random. `ProvidersAssumption` says that a configuration names a provider once;
`cmd/llm/main.go` does not reject one that repeats a name among its fallbacks, and then that
provider is asked twice in an attempt.

* `OutboxProofs`: `TypeOK`, `MarkedIsStored`, `OneCopyPerWindow`, and the safety half of
  the refinement of `EventLog`. `OutboxInv` adds what the three need. `RelayInv`: a relay
  tries and marks only rows it claimed, and what it counted as sent is stored. `RowInv`: a
  row exists exactly for the events of committed transactions. `StreamInv`: an id in the
  window has at most one copy beyond its expiries and one outside it none, and only
  existing rows were published.
* `DeliveryProofs`: `TypeOK`, `SettledIsAccounted` and `AttemptsBounded`. `TypeOK` is not
  inductive: `Push` adds one to the delivery count, so the invariant needs `ReadyHasTries`
  (a message waits for delivery only while one is left). `SettledIsAccounted` needs
  `AckIsApplied` (the verdict "ack" is of a message whose handler took effect).
  `AttemptsBounded` needs `Numbered`: the copies in the buffer are in the order of their
  delivery numbers, and all of those are later than the calls of the handler so far.
* `PipelineProofs`: `TypeOK`, `ArtifactChain`, `IndexedIsFinal` and `WedgeNeedsFault`. An
  event has its artifact because a task in step "stored" wrote it (`StoredHasArtifact`);
  extract's artifact has parse's behind it because a task holds only a message that is in
  the stream (`Holding`); a document is indexed only from a message in the stream
  (`Streamed`). Without a fault an artifact that is not announced is in the hands of a
  task in step "stored" (`InHand`), and only publishing takes the task out of that step.
* `JetStreamProofs`: the lemmas on the broker's operators that `DeliveryProofs` and
  `PipelineProofs` cite.
* `CatalogProofs`: `TypeOK`, `IndexedDocumentIsWhole` and `EdgesFollowFacts`. `WholeInv`:
  chunks are stored exactly for indexed documents, facts only for these, and a document
  has one fact per value. So a commit for a document with chunks can only store what is
  there, and the first one finds nothing; a merge changes subjects only. Equal sets of
  values then give equal numbers of facts (`AsManyAsValues`). For `EdgesFollowFacts`,
  `OpenInv` says what an open merge may rely on: no other merges the same entity away, and the
  facts it is to move are still there under the subject it read. `EdgesInv` adds what is due
  between the edge statement and the end: a public fact that a merge is bringing is late, or
  the merge brings the edge too, or its target has one. No premise is needed: a fact of an
  entity merged with itself is late when that merge ends.
* `KnowledgeProofs`, first part: `DecisionStands`, `ClustersAreJudged` and
  `StaleCellIsExplained`. `JudgedInv` says what the open transaction may rely on: facts of
  a sent event are rows (`Store`), and each fact of the event in hand is in a cluster,
  stored or about to be (`Consumer`); then `Judge` judges every cluster that has changed.
  `CellInv` adds, for the moment between `Judge` and its announcement, that a cell which
  is still wrong has another event that owes it a recount.
* `KnowledgeProofs`, second part: `CachedForItsLevel` and `StaleAnswerIsExplained`. What a call
  has read so far is as visible as what it will store (`CacheInv`), and lacks nothing without
  one of the property's excuses (`StaleInv`): among these are what its reading passed over for
  its status (`withheld`) and what the cut left out (`crowded`). The invariant speaks of all
  facts that match the plan, hidden or not, so that no decision of an expert disturbs it. An
  excuse must survive the steps of others: a commit adds a fact only with an event outstanding,
  a merge moves one, and an event that ceases to be outstanding deletes the entry or is counted
  as overtaken (`OnlyEvents`).
* `KnowledgeProofs`, third part: `TypeOK` and `AgreementIsSound`, that is
  `ConsensusMeansOverlap` and `AgreedRangeDividesWeight`. `JudgedInv` reduces the latter two to
  facts about the operators of `Consensus`: ranges whose common part is half of their hull
  overlap pairwise (`HalfIsShared`); `WeightedMedian` stops at the least end up to which half
  of the weight lies (`MedianDivides`), and the median of the lower ends is not above that of
  the upper ones (`MediansAreInOrder`). `FiniteClusters` says that a cluster is a finite set,
  so that least elements exist and weights can be summed. `WeightOf` is a recursive function on
  subsets; that it does not depend on the order of summation, and adds up over disjoint sets,
  is shown of the smallest set that might violate it (`SmallestSet`), in the well-founded order
  of finite subsets: this induction needs no theorem with an operator for a parameter.
* `ApiProofs`: `RequestsAreDrained`, `ReviewedOnce` and `DocumentHoldsItsFile`. Most of
  the first two is that a step of any handler leaves the requests as they are or answers
  one (`Handled`). `DrainInv`: a request that is past its handler has its answer or its
  client left, and a gateway that closes in time has no request in hand. `ReviewInv`:
  whoever is told that the review was theirs, or is in the audit log for it, found the
  entity pending and left it otherwise, and nothing makes an entity pending again.
  `HoldInv`: the key of an object names its upload, so only the upload itself could
  overwrite it, and one that has registered a document stores no more parts; a document is
  inserted only if none has its hash, and a commit changes nothing of it but the status.
* `ApiProofs`, uploads and decisions: `AcceptedIsRegistered`, `ChangeIsAudited` and
  `HistoryTellsStatus`. `AcceptInv`: the key in hand is that of the last file read so far,
  and its object holds that file. `AuditInv`: a change is between its write and its audit
  row, or has both, or its client left (`Traced`), and a row is of somebody who is past that
  write. `HistoryInv`: the last decision that names a fact gave it its status; a fact
  nobody named has the one it started with or that its commit computed. It needs that no
  fact the history names is still to come with a commit (`Nameable`): otherwise one would
  arrive with a history.
* `ApiProofs`, reads: `PackIsCoherent`. `PackInv` carries through
  the steps of a search what each read has put into the pack so far: contradictions only
  after the facts they refer to, edges only between nodes, and every fact visible to the
  caller. That the rows read keep their columns and their documents' access (`RowsInv`)
  makes this survive the commits, merges and decisions in between. `AccessInv` says of what
  has been answered that it is within the caller's level.
* `ApiProofs`, answers: `StreamIsWhole`, `CacheIsClean`, `ShownIsVisible` and `AnswerFitsEvidence`.
  `StreamInv` ties the events sent to the step of `Ask` and the piece it is at. `CleanInv`:
  an answer that is about to be stored has passed the guard against the very pack it
  is stored with, and the numbers a pack allows never change (`NumbersStand`).
  `FitInv` says that each event sent, and each entry of the cache, was true of its pack, and
  `CountInv` that the statistics of a search count the sources of its facts.
  `SeenInv` says of the pack in hand, of each evidence sent and of each entry of the cache that
  its facts and chunks are in the sight of the level it is for, or were found by their text and
  are in the sight of a session without context; with `AccessInv` for the other routes this is
  `ShownIsVisible`. That an entry is found only by a caller of the level it was stored for is
  what the key is for.
* `ApiProofs`, failures: `ServerErrorIsExplained`. Each handler's step answers without a
  failure or with one it can explain (`Owns`). Two reasons lie in an earlier step: a search
  that has failed had bounds in the wrong order or met a fault (`FailInv`), and an upload
  that is about to insert has looked for its file and found none, so a document with that
  hash came since, from another upload (`LookupInv`).
* `ServiceProofs`, completions: `CallsAreBounded` and `FailureIsExhaustive`. `ChainInv` ties
  the calls so far to the place of the walk: the models ahead have not been asked (`Walked`),
  and of the present model no provider from the next one on was asked in this attempt
  (`AskedBefore`), each call having sent at most three requests; a chain repeats no model
  because `modelChain` drops repetitions. `ExhaustInv` adds the other direction: whoever is
  behind the walk and knows the model was asked (`Tried`), up to a deadline or an empty answer,
  which end an attempt.
* `ServiceProofs`, search: `SearchFindsWhatStands`. `FindInv` says it of every step, not only
  of the last, and of the moment the search began: what was visible then and named by the
  plan is among the facts read, or was decided or moved since, or was crowded out; what was
  read was not hidden then, or was decided since (`Answerable`). Three things make it
  inductive. A step of anybody else rewrites a fact only with a row of the history
  (`Rewritten`, `HistoryGrows`), or adds one that was not there before. The facts that the
  ranking keeps are the first of a strict order, so who is not among them was crowded out by
  as many as a pack holds (`StrictOrder`, `CrowdedOut`); the order is strict because a fact's
  id is its own. And rows refer to entities that exist (`LinksInv`), so that the entities a
  plan names are reached. For a commit this needs that every name of its bundle leads to an
  entity that is there or is drafted by it, although a draft's slug may take the place of a
  resolved name. The names are a fold over the bundle; what holds of it is shown of the
  smallest set of its items that might violate it, like the sums of weights above.
* `ServiceProofs`, types: `TypeOK` of `Api`. `ServiceInv` is the conjunction of what the
  parts promise each other, eighteen invariants. Twelve are those of the other theorems; it
  adds one per part for what no other property needed: `GateInv` (who is announced),
  `FilesInv` (the object and the access of a document, an upload's cursor),
  `KnownInv` (statuses, the targets of merges, the cursor of the deliveries), `IdsInv` (what
  a search expands to), `SureInv` (the confidence of an answer, cached or not, and for whose
  level it is cached) and `ReachInv` (how long a chain is and where the walk stands). None
  of them is inductive alone: a commit places its facts by `LinksInv`, an upload inserts
  what `HoldInv` holds, a cache entry has the level of a caller by `AccessInv`.

Only model-checked:

* `OneFactPerReading`. It is true of the names of the scenes and not of any. Two candidates
  of one bundle may have a quote and bounds in common and be about different parameters;
  several entities may answer to a name, and two commits then resolve it differently; an
  entity that a review rejected between them answers to its alias no more. Each gives two
  natural keys to what the property takes for one reading.
* All liveness (`BacklogDrains`, `DocumentsComeToRest`, the liveness half of
  `ImplementsEventLog`), which is beyond this prover.

## 7. What the code does that a document or a reader may not expect

Five disagreements with the documents have a run (section 3, findings). The models show
these as well; no run is about them alone.

* Knowledge. The documents clear cached answers on epistemic.updated
  (`.agents/08-epistemic.md:84`, `.agents/03-architecture.md:168`); the code does so on
  facts.committed, before epistemic has judged (`internal/answer/ports/consumer/consumer.go:29`).
  So an answer may be stored after the invalidation with the consensus of before it.
  Merges, fact decisions and verdicts announce nothing: what was cached stays.
  An event with two facts of one cluster raises in `upsertClusters` on every delivery.
  A candidate for a contradiction should have disjoint ranges and a gap of over a tenth of
  their union (`.agents/08-epistemic.md:34`); `generateContradictions` has no threshold
  (`internal/epistemic/adapters/pg/repo.go:285`), so ranges that nearly touch are disputed,
  such as [100, 100] and [104, 160] of the `knowledge` instance. `ClustersAreJudged` asks for
  the code's condition, not for the documents'. A fact that an expert frees from unit review,
  and one that a cut left out, are missing from answers cached before.
* Answers. `FactsByText` finds facts of any status, rejected ones too. It, `ChunksByText` and
  `VectorChunks` read as sessions without access context for every caller: public and internal
  documents, whatever the token (`internal/answer/adapters/pg/retrieve.go:58`, 159, 215). So
  the evidence of an answer may show a reader or partner facts and chunks of internal documents
  that no list or search would show them; `ShownIsVisible` says that it goes no further. A
  failed retrieval is not an error (`service.go:195`, 220, 223): the answer goes on with less
  evidence, is not marked as degraded, and is cached for its 24 hours. Four-digit years pass
  the number guard (`isYear`). `planCacheKey` ignores the words of the question, so the
  text-found part of an answer is that of another question with the same plan. "Nothing found"
  is cached, and if its plan names no entity nothing invalidates it. A snippet cut at 260
  letters may halve a number. The documents promise one regeneration of a failed answer; there
  is none. `ParseQuery` plans by rules alone, `Ask` may use the LLM.
* Search. Bounds in the wrong order are an SQL error and fail the request. Filters with
  `lt`, `gt`, `from` and `to`, or with a unit the table does not have, are ignored, as is
  `time_range`; a fact without SI bounds fits every range. `ExpandEntityIDs` does not follow
  `merged_into`. The handler of contradictions passes a cluster that epistemic ignores.
* LLM. A provider that hangs uses up the deadline of the attempt, so a fallback behind it is
  never asked (`.agents/15-resources.md:42` expects it; `fallback.go:57`). The client library
  sends a failed request up to twice more (`client.go:22-27` does not turn this off), inside
  the two attempts that `Service` makes: a provider receives up to six for one model.
* Uploads and decisions. Of two racing uploads the loser looks up the winner's document
  under its own rights and fails if it may not see it (`.agents/11-nfr.md:63`). A client
  that hangs up after a change leaves no audit row (`.agents/11-nfr.md:62`;
  `internal/gateway/ports/http/auth.go:101-105`). Merges that make two facts or aliases equal
  fail with 500. `UpdateFactStatus` sets no RLS context and updates no row without an error: the
  history then names a decision that the fact does not have, against
  `.agents/04-data-model.md:343`. It happens to a fact of an internal document on a connection
  that had the setting in an earlier transaction. `HistoryTellsStatus` is therefore about the
  facts that every session sees.
  A review is in the audit log as entity.merge as well. `Idempotency-Key` is never read.
* Merges. A merge of an entity with itself is not rejected and deletes all its edges. A commit
  that resolved an entity before its merge leaves its facts with it (`catalog_merge`), and one
  that falls between the statements of the merge leaves a public fact without an edge, against
  the same line of `.agents/04-data-model.md`: this is what `late` in `EdgesFollowFacts` excuses.
* Commits. An unknown unit fails the whole commit. Extract always sends the geography
  "unknown", so the document's own is never used (`.agents/06-extraction.md:107`,
  `.agents/05-ingestion.md:41`). Its chunks carry no id, so facts refer to the last one.
* Runtime. A worker that returns an error is logged, and the process goes on without it;
  a listener's error exits without closing the resources.

## 8. Not modelled

* How numcore and extract find numbers and names in a text, and what parse makes of a file:
  a choice of outcomes, and in `Extraction` a set of bundles.
* Stream creation, expiry of messages, the start of processes, workers other than as
  crashes; fetching a document by URL, to which no route leads.
* Edge weights; the stored size of a cluster; row locks other than those of open merges in
  `Catalog`, and deadlocks inside PostgreSQL (an aborted transaction is a failure at any time).
* Merges of entities that are parameters (`internal/catalog/adapters/pg/repository.go:284`) in
  `Catalog`, `Epistemic` and `AnswerCache`; `Decisions` has them.
* At shutdown, the handlers of bus workers: for `Delivery` and `Pipeline` they crash.
* Prompts, wording, scores of full-text search, token counts.
* Configuration, the embed and evaluation services, the bootstrap, the user interface and
  generated code: they keep no state that interleaves with anything here.

## 9. Plan

Done: all modules of section 2, with the theorems of section 6: every safety property of
the passing runs but `OneFactPerReading`, and every action property, for all values of the
constants. Next, in this order:

1. Fairness of the gateway's handlers, and that every request of a client that stays is
   answered.
2. Ranges and operators of the number extractor, against a reference definition.
3. Under which conditions on the names of two bundles `OneFactPerReading` holds of any base.
