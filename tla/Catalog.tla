------------------------------ MODULE Catalog -------------------------------
(***************************************************************************)
(* internal/catalog: CommitExtraction, which turns an extraction bundle    *)
(* into entities, chunks, facts and edges, and MergeEntities, by which an  *)
(* expert folds one entity into another.                                   *)
(*                                                                         *)
(* CommitExtraction reads the bundle from the object store, then resolves  *)
(* its names outside any transaction, then commits.  The consumer and the  *)
(* gRPC server both call it.  The transaction itself acts at one point: it *)
(* holds an advisory lock on the document, and inserts of a slug, a fact   *)
(* or an edge that another transaction has written wait for that one.      *)
(*                                                                         *)
(* MergeEntities takes no such lock.  Its statements are steps of their    *)
(* own, READ COMMITTED: each sees what is committed when it runs, locks    *)
(* the rows it writes, and shows them to others only when the merge ends.  *)
(*                                                                         *)
(* A fact's parameter is resolved as its subject is, and its condition,    *)
(* operator and unit only make its natural key longer: the model keeps the *)
(* subject and a value.  An entity is named by its slug, which is unique;  *)
(* the uuid drawn for an entity whose slug turns out to be taken belongs   *)
(* to no row.                                                              *)
(***************************************************************************)
EXTENDS Naturals, FiniteSets

CONSTANTS
  Workers,        \* concurrent callers of CommitExtraction
  Mergers,        \* concurrent callers of MergeEntities
  Docs, Names, Slugs, Values,
  Access,         \* Access[d]: core.documents.access_level
  Bundles,        \* Bundles[d]: the bundles extract may have written for d
  MergePairs,     \* the <<entity, into>> pairs experts ask for
  New,            \* the resolution of a name no entity answers to
  MaxAttempts,    \* bound: calls of CommitExtraction
  MaxMerges       \* bound: calls of MergeEntities

(* bundle.slug gives every name the slug its entity would be created with   *)
(* (slugify of the etype the bundle gives it); facts are those whose name   *)
(* and operator pass NewEntity and ValidateOperator.                        *)
IsBundle(b) ==
  /\ DOMAIN b.slug \subseteq Names
  /\ b.slug \in [DOMAIN b.slug -> Slugs]
  /\ b.facts \subseteq [name : DOMAIN b.slug, value : Values]
  /\ IsFiniteSet(b.facts)
  /\ \A f, g \in b.facts : f.value = g.value => f = g    \* values tell facts apart

ASSUME CatalogAssumption ==
  /\ Access \in [Docs -> {"public", "internal", "confidential", "restricted"}]
  /\ \A d \in Docs : Bundles[d] # {} /\ \A b \in Bundles[d] : IsBundle(b)
  /\ MergePairs \subseteq Slugs \X Slugs
  /\ New \notin Slugs
  /\ MaxAttempts \in Nat
  /\ MaxMerges \in Nat

VARIABLES
  bundle,         \* bundle[d]: bundle.json of d in the object store
  entity,         \* entity[s]: kg.entities.status of slug s, "absent" without a row
  aliases,        \* <<s, n>>: alias n of entity s
  facts,          \* kg.numeric_facts
  chunked,        \* documents whose chunks are stored; the first ids stay
  edges,          \* slugs with an OPERATES_AT edge
  indexed,        \* documents with status 'indexed'
  events,         \* the facts.committed events appended to the outbox
  pc, doc, bnd, res,    \* per worker: where it is, document, bundle, resolution
  open,           \* open[m]: the merge of m, with the rows it has written
  late,           \* history: facts an ended merge of their subject left behind
  attempts, merges

graph  == <<entity, aliases, facts, chunked, edges, indexed, events>>
caller == <<pc, doc, bnd, res>>
merger == <<open, late, merges>>
vars   == <<bundle, graph, caller, attempts, merger>>

Facts  == [doc : Docs, subject : Slugs, value : Values]
Events == [doc : Docs, entities : SUBSET Slugs]

(* step is the last statement run; names, facts: the aliases and facts it   *)
(* moves; edge: whether it moves the edge.                                  *)
NoMerge == [step |-> "idle", from |-> New, into |-> New,
            names |-> {}, facts |-> {}, edge |-> FALSE]
Merges  == [step : {"names", "facts", "edges"}, from : Slugs, into : Slugs,
            names : SUBSET Names, facts : SUBSET Facts, edge : BOOLEAN]

TypeOK ==
  /\ DOMAIN bundle = Docs /\ \A d \in Docs : bundle[d] \in Bundles[d]
  /\ entity \in [Slugs -> {"absent", "live", "merged"}]
  /\ aliases \subseteq Slugs \X Names
  /\ facts \subseteq Facts
  /\ chunked \subseteq Docs
  /\ edges \subseteq Slugs
  /\ indexed \subseteq Docs
  /\ events \subseteq Events
  /\ pc \in [Workers -> {"idle", "fetched", "resolved"}]
  /\ \A f \in {doc, bnd, res} : DOMAIN f = Workers
  /\ \A w \in Workers :
        pc[w] # "idle" => doc[w] \in Docs /\ bnd[w] \in Bundles[doc[w]]
  /\ \A w \in Workers :
        pc[w] = "resolved" => res[w] \in [DOMAIN bnd[w].slug -> Slugs \cup {New}]
  /\ open \in [Mergers -> Merges \cup {NoMerge}]
  /\ late \subseteq Docs \X Values
  /\ attempts \in 0..MaxAttempts
  /\ merges \in 0..MaxMerges

Init ==
  /\ bundle \in {b \in [Docs -> UNION {Bundles[d] : d \in Docs}] :
                   \A d \in Docs : b[d] \in Bundles[d]}
  /\ entity = [s \in Slugs |-> "absent"]
  /\ aliases = {}
  /\ facts = {}
  /\ chunked = {}
  /\ edges = {}
  /\ indexed = {}
  /\ events = {}
  /\ pc = [w \in Workers |-> "idle"]
  /\ doc = [w \in Workers |-> New]
  /\ bnd = [w \in Workers |-> New]
  /\ res = [w \in Workers |-> New]
  /\ open = [m \in Mergers |-> NoMerge]
  /\ late = {}
  /\ attempts = 0
  /\ merges = 0

-----------------------------------------------------------------------------
(* Two overlapping attempts of extract both find no bundle and both write   *)
(* one; the language model may answer them differently.                     *)
Overwrite(d) ==
  /\ bundle' \in {[bundle EXCEPT ![d] = b] : b \in Bundles[d]}
  /\ UNCHANGED <<graph, caller, attempts, merger>>

(* A delivery of extracted, a redelivery, or a gRPC call.                   *)
Fetch(w, d) ==
  /\ pc[w] = "idle"
  /\ attempts < MaxAttempts
  /\ attempts' = attempts + 1
  /\ pc' = [pc EXCEPT ![w] = "fetched"]
  /\ doc' = [doc EXCEPT ![w] = d]
  /\ bnd' = [bnd EXCEPT ![w] = bundle[d]]
  /\ UNCHANGED <<bundle, graph, res, merger>>

(* resolveByNamesSQL: an entity answers to its aliases unless it is merged. *)
(* Of several that answer to one name the last row wins, in no order.       *)
Answering(n) == {s \in Slugs : <<s, n>> \in aliases /\ entity[s] = "live"}

Resolve(w) ==
  /\ pc[w] = "fetched"
  /\ \E r \in [DOMAIN bnd[w].slug -> Slugs \cup {New}] :
        /\ \A n \in DOMAIN r :
              IF Answering(n) = {} THEN r[n] = New ELSE r[n] \in Answering(n)
        /\ res' = [res EXCEPT ![w] = r]
  /\ pc' = [pc EXCEPT ![w] = "resolved"]
  /\ UNCHANGED <<bundle, graph, doc, bnd, attempts, merger>>

-----------------------------------------------------------------------------
(* What the open merges have written: the rows as they are and as they will *)
(* be.  Whoever wants to write one of them waits.                           *)
Landing(F, y) == {[f EXCEPT !.subject = y] : f \in F}

HeldEntities == {open[m].from : m \in Mergers}
HeldAliases  == UNION {{open[m].from, open[m].into} \X open[m].names : m \in Mergers}
HeldFacts    == UNION {open[m].facts \cup Landing(open[m].facts, open[m].into) : m \in Mergers}
HeldEdges    == UNION {{open[m].from, open[m].into} : m \in {k \in Mergers : open[k].edge}}

-----------------------------------------------------------------------------
Created(w) == {n \in DOMAIN res[w] : res[w][n] = New}

SubjectUnmapped(w, n) == res[w][n]     \* mutant: remapID is not applied

(* remapID: an entity whose slug is taken becomes the one that has it,      *)
(* whatever the status of that one (ON CONFLICT (slug) DO UPDATE).          *)
Subject(w, n) == IF n \in Created(w) THEN bnd[w].slug[n] ELSE res[w][n]

Wanted(w) == {[doc |-> doc[w], subject |-> Subject(w, f.name), value |-> f.value] :
                f \in bnd[w].facts}

(* insertFactSQL skips facts whose natural key is stored.  One that is new  *)
(* refers to the chunk id this attempt drew, and when the chunks of the     *)
(* document are already stored they keep their ids: the reference is to no  *)
(* row and the transaction fails.                                           *)
ChunkMissing(w) == doc[w] \in chunked /\ Wanted(w) \ facts # {}

(* entity_ids of facts.committed: built before the transaction, so of the   *)
(* entities this attempt creates only those whose slug is free are rows.    *)
EventOf(w) ==
  [doc |-> doc[w],
   entities |-> {res[w][f.name] : f \in {g \in bnd[w].facts : g.name \notin Created(w)}}
                \cup {s \in Slugs : /\ entity[s] = "absent"
                                    /\ \E n \in Created(w) : bnd[w].slug[n] = s}]

Idle(w) ==
  /\ pc' = [pc EXCEPT ![w] = "idle"]
  /\ doc' = [doc EXCEPT ![w] = New]
  /\ bnd' = [bnd EXCEPT ![w] = New]
  /\ res' = [res EXCEPT ![w] = New]
  /\ UNCHANGED <<bundle, attempts, merger>>

(* The rows this attempt writes; those of a fact that is stored too, since  *)
(* the insert looks for it.  A reference to an entity locks nothing a merge *)
(* of that entity needs.                                                    *)
MustWait(w) ==
  LET made == {<<bnd[w].slug[n], n>> : n \in Created(w)}
      ours == Wanted(w) \cup {f \in facts : f.doc = doc[w]}
  IN  \/ \E a \in made : a[1] \in HeldEntities \/ a \in HeldAliases
      \/ Wanted(w) \cap HeldFacts # {}
      \/ {f.subject : f \in ours} \cap HeldEdges # {}

CommitLooseChunks(w) ==   \* mutant: the chunk reference is not a foreign key
  /\ pc[w] = "resolved"
  /\ ~MustWait(w)
  /\ facts' = facts \cup Wanted(w)
  /\ entity' = [s \in Slugs |-> IF entity[s] = "absent" /\
                                   \E n \in Created(w) : bnd[w].slug[n] = s
                                THEN "live" ELSE entity[s]]
  /\ aliases' = aliases \cup {<<bnd[w].slug[n], n>> : n \in Created(w)}
  /\ chunked' = chunked \cup {doc[w]}
  /\ edges' = edges \cup {f.subject : f \in {g \in facts' : g.doc = doc[w]}}
  /\ indexed' = indexed \cup {doc[w]}
  /\ events' = events \cup {EventOf(w)}
  /\ Idle(w)

Commit(w) ==
  /\ pc[w] = "resolved"
  /\ ~ChunkMissing(w)
  /\ ~MustWait(w)
  /\ entity' = [s \in Slugs |-> IF entity[s] = "absent" /\
                                   \E n \in Created(w) : bnd[w].slug[n] = s
                                THEN "live" ELSE entity[s]]
  /\ aliases' = aliases \cup {<<bnd[w].slug[n], n>> : n \in Created(w)}
  /\ chunked' = chunked \cup {doc[w]}
  /\ facts' = facts \cup Wanted(w)
  /\ edges' = edges \cup {f.subject : f \in {g \in facts' : g.doc = doc[w]}}
  /\ indexed' = indexed \cup {doc[w]}
  /\ events' = events \cup {EventOf(w)}
  /\ Idle(w)

(* An error anywhere: the missing chunk, a deadlock, a lost connection.     *)
(* Nothing is stored and the consumer answers Nack.                         *)
Fail(w) ==
  /\ pc[w] # "idle"
  /\ Idle(w)
  /\ UNCHANGED graph

-----------------------------------------------------------------------------
(* MergeEntities sets no RLS context, and an UPDATE touches only rows its   *)
(* session may SELECT: facts of public documents, and those of internal     *)
(* ones if app.doc_access was never set on this pooled connection (after a  *)
(* set_config that was local to a transaction it reads as '').              *)
Visible == {{"public"}, {"public", "internal"}}

Opens(m, x, y) ==
  /\ <<x, y>> \in MergePairs /\ "absent" \notin {entity[x], entity[y]}
  /\ merges < MaxMerges
  /\ merges' = merges + 1
  /\ open[m] = NoMerge

NamesOf(x) == {n \in Names : <<x, n>> \in aliases}

(* The entity row, locked against another merge of it, and the aliases: the *)
(* primary key fails the merge on one that y has.                           *)
MergeNames(m, x, y) ==
  /\ Opens(m, x, y)
  /\ x \notin HeldEntities
  /\ x # y => ({y} \X NamesOf(x)) \cap (aliases \cup HeldAliases) = {}
  /\ open' = [open EXCEPT ![m] = [NoMerge EXCEPT !.step = "names", !.from = x,
                                                !.into = y, !.names = NamesOf(x)]]
  /\ UNCHANGED <<bundle, graph, caller, attempts, late>>

(* The facts of x that are committed by now and visible to the session.     *)
(* The natural key fails the merge on one that y has.                       *)
MergeFacts(m) ==
  /\ open[m].step = "names"
  /\ \E levels \in Visible :
        LET F == {f \in facts : f.subject = open[m].from /\ Access[f.doc] \in levels}
        IN  /\ Landing(F, open[m].into) \cap ((facts \ F) \cup HeldFacts) = {}
            /\ open' = [open EXCEPT ![m].step = "facts", ![m].facts = F]
  /\ UNCHANGED <<bundle, graph, caller, attempts, late, merges>>

MergeForgetsEdges(m) ==    \* mutant: edges of x are deleted, not reassigned
  /\ open[m].step = "facts"
  /\ open' = [open EXCEPT ![m].step = "edges"]
  /\ UNCHANGED <<bundle, graph, caller, attempts, late, merges>>

(* The edge of x is reassigned unless y has one of its own.                 *)
MergeEdges(m) ==
  /\ open[m].step = "facts"
  /\ LET x == open[m].from
         y == open[m].into
         moves == x \in edges /\ (x = y \/ y \notin edges)
     IN  /\ moves => {x, y} \cap HeldEdges = {}
         /\ open' = [open EXCEPT ![m].step = "edges", ![m].edge = moves]
  /\ UNCHANGED <<bundle, graph, caller, attempts, late, merges>>

(* Facts that merges past their edges will put under x.                     *)
OnTheWay(x) == UNION {open[k].facts : k \in {j \in Mergers : open[j].step = "edges"
                                                           /\ open[j].into = x}}

(* What is left at x is deleted, an edge committed meanwhile included; so   *)
(* for x = y every edge is.  Then the transaction commits.                  *)
MergeEnd(m) ==
  /\ open[m].step = "edges"
  /\ LET x == open[m].from
         y == open[m].into
     IN  /\ entity' = [entity EXCEPT ![x] = "merged"]
         /\ aliases' = (aliases \ ({x} \X open[m].names)) \cup ({y} \X open[m].names)
         /\ facts' = (facts \ open[m].facts) \cup Landing(open[m].facts, y)
         /\ edges' = (edges \ {x}) \cup (IF open[m].edge /\ x # y THEN {y} ELSE {})
         /\ late' = late \cup {<<f.doc, f.value>> : f \in {g \in facts' : g.subject = x} \cup OnTheWay(x)}
  /\ open' = [open EXCEPT ![m] = NoMerge]
  /\ UNCHANGED <<bundle, chunked, indexed, events, caller, attempts, merges>>

(* A deadlock, a lost connection, a row that is there: nothing is stored.   *)
MergeFail(m) ==
  /\ open[m] # NoMerge
  /\ open' = [open EXCEPT ![m] = NoMerge]
  /\ UNCHANGED <<bundle, graph, caller, attempts, late, merges>>

Next ==
  \/ \E d \in Docs : Overwrite(d)
  \/ \E w \in Workers, d \in Docs : Fetch(w, d)
  \/ \E w \in Workers : Resolve(w) \/ Commit(w) \/ Fail(w)
  \/ \E m \in Mergers, x, y \in Slugs : MergeNames(m, x, y)
  \/ \E m \in Mergers : MergeFacts(m) \/ MergeEdges(m) \/ MergeEnd(m) \/ MergeFail(m)

Spec == Init /\ [][Next]_vars

-----------------------------------------------------------------------------
(* Whatever redeliveries, overlapping calls, rewritten bundles, slug        *)
(* conflicts and merges do, an indexed document has the facts of one of its *)
(* bundles, each exactly once.                                              *)
FactsOf(d) == {f \in facts : f.doc = d}

IndexedDocumentIsWhole ==
  \A d \in indexed :
    \E b \in Bundles[d] :
      /\ {f.value : f \in FactsOf(d)} = {f.value : f \in b.facts}
      /\ Cardinality(FactsOf(d)) = Cardinality(b.facts)

(* A fact of a public document has the edge by which search walks from its  *)
(* subject to the parameter, however merges and commits interleave; except  *)
(* a fact that a merge of its subject did not take along: one committed     *)
(* after the merge had moved the facts, one another merge was bringing, or  *)
(* one of an entity merged with itself.                                     *)
EdgesFollowFacts ==
  \A f \in facts : Access[f.doc] = "public" =>
                    f.subject \in edges \/ <<f.doc, f.value>> \in late

(* .agents/04-data-model.md: on a merge the facts are reassigned.  So no    *)
(* fact stays with a merged entity, where searches by the other would miss  *)
(* it.                                                                      *)
MergedIsEmpty ==
  \A f \in facts : entity[f.subject] # "merged"

(* .agents/10-contracts.md: CommitExtraction is idempotent.  So a call for  *)
(* a document that is indexed does not fail for want of a row.              *)
RecommitSucceeds ==
  \A w \in Workers : pc[w] = "resolved" /\ doc[w] \in indexed => ~ChunkMissing(w)
=============================================================================
