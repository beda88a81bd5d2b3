--------------------------- MODULE CatalogProofs ----------------------------
(***************************************************************************)
(* The catalog, for any callers, documents, names, bundles and merges: the *)
(* variables keep their types, an indexed document has the facts of one    *)
(* bundle, once, and a public fact has its edge unless a merge of its      *)
(* subject did not take it along.                                          *)
(***************************************************************************)
EXTENDS Catalog, FiniteSetTheorems, TLAPS

-----------------------------------------------------------------------------
(* A caller that has resolved its names stores facts in order.              *)
LEMMA WantedAreFacts ==
  ASSUME TypeOK, NEW w \in Workers, pc[w] = "resolved"
  PROVE  /\ doc[w] \in Docs /\ bnd[w] \in Bundles[doc[w]] /\ IsBundle(bnd[w])
         /\ DOMAIN res[w] = DOMAIN bnd[w].slug
         /\ \A n \in DOMAIN res[w] : n \in Names /\ bnd[w].slug[n] \in Slugs
                                      /\ res[w][n] \in Slugs \cup {New}
         /\ Wanted(w) \subseteq Facts
<1>1. /\ doc[w] \in Docs /\ bnd[w] \in Bundles[doc[w]]
      /\ res[w] \in [DOMAIN bnd[w].slug -> Slugs \cup {New}]
  BY DEF TypeOK
<1>2. IsBundle(bnd[w])
  BY <1>1, CatalogAssumption
<1>3. \A n \in DOMAIN res[w] : n \in Names /\ bnd[w].slug[n] \in Slugs /\ res[w][n] \in Slugs \cup {New}
  BY <1>1, <1>2 DEF IsBundle
<1>4. ASSUME NEW f \in bnd[w].facts
      PROVE  [doc |-> doc[w], subject |-> Subject(w, f.name), value |-> f.value] \in Facts
  <2>1. f.name \in DOMAIN res[w] /\ f.value \in Values
    BY <1>1, <1>2 DEF IsBundle
  <2>2. Subject(w, f.name) \in Slugs
    BY <2>1, <1>3 DEF Subject, Created
  <2> QED
    BY <1>1, <2>1, <2>2 DEF Facts
<1> QED
  BY <1>1, <1>2, <1>3, <1>4 DEF Wanted

LEMMA LandingAreFacts ==
  ASSUME NEW F \in SUBSET Facts, NEW y \in Slugs
  PROVE  Landing(F, y) \subseteq Facts
BY DEF Landing, Facts

(* What the callers hold.                                                   *)
CallersType ==
  /\ DOMAIN bundle = Docs /\ \A d \in Docs : bundle[d] \in Bundles[d]
  /\ pc \in [Workers -> {"idle", "fetched", "resolved"}]
  /\ \A f \in {doc, bnd, res} : DOMAIN f = Workers
  /\ \A w \in Workers :
        pc[w] # "idle" => doc[w] \in Docs /\ bnd[w] \in Bundles[doc[w]]
  /\ \A w \in Workers :
        pc[w] = "resolved" => res[w] \in [DOMAIN bnd[w].slug -> Slugs \cup {New}]
  /\ attempts \in 0..MaxAttempts

MergersType ==
  /\ open \in [Mergers -> Merges \cup {NoMerge}]
  /\ late \subseteq Docs \X Values
  /\ merges \in 0..MaxMerges

GraphType ==
  /\ entity \in [Slugs -> {"absent", "live", "merged"}]
  /\ aliases \subseteq Slugs \X Names
  /\ facts \subseteq Facts
  /\ chunked \subseteq Docs
  /\ edges \subseteq Slugs
  /\ indexed \subseteq Docs
  /\ events \subseteq Events

LEMMA TypeIsThree == TypeOK <=> CallersType /\ GraphType /\ MergersType
BY DEF TypeOK, CallersType, GraphType, MergersType

LEMMA MergersUnchangedType ==
  ASSUME MergersType, UNCHANGED merger
  PROVE  MergersType'
BY DEF MergersType, merger, Merges, Facts, NoMerge

LEMMA GraphUnchangedType ==
  ASSUME GraphType, UNCHANGED graph
  PROVE  GraphType'
BY DEF GraphType, graph, Facts, Events

LEMMA IdleKeepsCallers ==
  ASSUME CallersType, NEW w \in Workers, Idle(w)
  PROVE  CallersType'
<1>1. \A v \in Workers :
        /\ v # w => /\ pc'[v] = pc[v] /\ doc'[v] = doc[v]
                    /\ bnd'[v] = bnd[v] /\ res'[v] = res[v]
        /\ v = w => pc'[v] = "idle"
  BY DEF Idle, CallersType
<1>2. pc' \in [Workers -> {"idle", "fetched", "resolved"}]
  BY DEF Idle, CallersType
<1>3. DOMAIN doc' = Workers /\ DOMAIN bnd' = Workers /\ DOMAIN res' = Workers
  BY DEF Idle, CallersType
<1> QED
  BY <1>1, <1>2, <1>3 DEF Idle, CallersType

LEMMA FetchKeepsCallers ==
  ASSUME CallersType, NEW w \in Workers, NEW d \in Docs, Fetch(w, d)
  PROVE  CallersType'
<1>1. \A v \in Workers :
        /\ v # w => /\ pc'[v] = pc[v] /\ doc'[v] = doc[v] /\ bnd'[v] = bnd[v]
        /\ v = w => pc'[v] = "fetched" /\ doc'[v] = d /\ bnd'[v] = bundle[d]
  BY DEF Fetch, CallersType
<1>2. pc' \in [Workers -> {"idle", "fetched", "resolved"}]
  BY DEF Fetch, CallersType
<1>3. DOMAIN doc' = Workers /\ DOMAIN bnd' = Workers
  BY DEF Fetch, CallersType
<1>4. attempts' \in 0..MaxAttempts
  BY CatalogAssumption DEF Fetch, CallersType
<1> QED
  BY <1>1, <1>2, <1>3, <1>4 DEF Fetch, CallersType

LEMMA ResolveKeepsCallers ==
  ASSUME CallersType, NEW w \in Workers, Resolve(w)
  PROVE  CallersType'
<1>1. PICK r \in [DOMAIN bnd[w].slug -> Slugs \cup {New}] : res' = [res EXCEPT ![w] = r]
  BY DEF Resolve
<1>2. \A v \in Workers :
        /\ v # w => pc'[v] = pc[v] /\ res'[v] = res[v]
        /\ v = w => pc'[v] = "resolved" /\ res'[v] = r /\ pc[v] # "idle"
  BY <1>1 DEF Resolve, CallersType
<1>3. pc' \in [Workers -> {"idle", "fetched", "resolved"}]
  BY DEF Resolve, CallersType
<1>4. DOMAIN res' = Workers
  BY <1>1 DEF CallersType
<1> QED
  BY <1>2, <1>3, <1>4 DEF Resolve, CallersType

LEMMA OverwriteKeepsCallers ==
  ASSUME CallersType, NEW d \in Docs, Overwrite(d)
  PROVE  CallersType'
<1>1. PICK b \in Bundles[d] : bundle' = [bundle EXCEPT ![d] = b]
  BY DEF Overwrite
<1>2. DOMAIN bundle' = Docs /\ \A e \in Docs : bundle'[e] \in Bundles[e]
  BY <1>1 DEF CallersType
<1> QED
  BY <1>2 DEF Overwrite, CallersType, caller

LEMMA CommitKeepsGraphType ==
  ASSUME TypeOK, NEW w \in Workers, Commit(w)
  PROVE  GraphType'
<1>0. pc[w] = "resolved"
  BY DEF Commit
<1>1. /\ doc[w] \in Docs /\ Wanted(w) \subseteq Facts
      /\ \A n \in DOMAIN res[w] : n \in Names /\ bnd[w].slug[n] \in Slugs
                                   /\ res[w][n] \in Slugs \cup {New}
  BY <1>0, WantedAreFacts
<1>2. entity' \in [Slugs -> {"absent", "live", "merged"}]
  BY DEF Commit, TypeOK
<1>3. aliases' \subseteq Slugs \X Names
  BY <1>1 DEF Commit, TypeOK, Created
<1>4. facts' \subseteq Facts
  BY <1>1 DEF Commit, TypeOK
<1>5. edges' \subseteq Slugs
  BY <1>4 DEF Commit, TypeOK, Facts
<1>6. EventOf(w) \in Events
  <2>1. \A f \in bnd[w].facts : f.name \in DOMAIN res[w]
    BY <1>0, WantedAreFacts DEF IsBundle
  <2>2. {res[w][f.name] : f \in {g \in bnd[w].facts : g.name \notin Created(w)}} \subseteq Slugs
    BY <1>1, <2>1 DEF Created
  <2> QED
    BY <1>1, <2>2 DEF EventOf, Events
<1>7. chunked' \subseteq Docs /\ indexed' \subseteq Docs /\ events' \subseteq Events
  BY <1>1, <1>6 DEF Commit, TypeOK
<1> QED
  BY <1>2, <1>3, <1>4, <1>5, <1>7 DEF GraphType, Facts, Events

(* What a running merge is, and what its statements set.                    *)
LEMMA OpenMerge ==
  ASSUME TypeOK, NEW m \in Mergers, open[m].step # "idle"
  PROVE  /\ open[m] \in Merges /\ open[m] # NoMerge
         /\ open[m].from \in Slugs /\ open[m].into \in Slugs
         /\ open[m].names \subseteq Names /\ open[m].facts \subseteq Facts
         /\ open[m].edge \in BOOLEAN
<1>1. open[m] \in Merges
  BY DEF TypeOK, NoMerge
<1> QED
  BY <1>1 DEF Merges, NoMerge

LEMMA MergeNamesKeepsMergers ==
  ASSUME TypeOK, NEW m \in Mergers, NEW x \in Slugs, NEW y \in Slugs, MergeNames(m, x, y)
  PROVE  MergersType'
<1>1. [NoMerge EXCEPT !.step = "names", !.from = x, !.into = y, !.names = NamesOf(x)] \in Merges
  BY DEF NoMerge, Merges, NamesOf
<1>2. open' \in [Mergers -> Merges \cup {NoMerge}]
  BY <1>1 DEF MergeNames, TypeOK
<1>3. merges' \in 0..MaxMerges
  BY CatalogAssumption DEF MergeNames, Opens, TypeOK
<1> QED
  BY <1>2, <1>3 DEF MergeNames, MergersType, TypeOK

LEMMA MergeFactsSets ==
  ASSUME TypeOK, NEW m \in Mergers, MergeFacts(m)
  PROVE  \E F \in SUBSET facts :
           /\ \A f \in F : f.subject = open[m].from
           /\ open' = [open EXCEPT ![m].step = "facts", ![m].facts = F]
           /\ open'[m] \in Merges /\ open'[m].facts = F
           /\ open'[m].from = open[m].from /\ open'[m].step = "facts"
           /\ \A k \in Mergers \ {m} : open'[k] = open[k]
<1>1. PICK levels \in Visible :
        LET F == {f \in facts : f.subject = open[m].from /\ Access[f.doc] \in levels}
        IN  open' = [open EXCEPT ![m].step = "facts", ![m].facts = F]
  BY DEF MergeFacts
<1> DEFINE F == {f \in facts : f.subject = open[m].from /\ Access[f.doc] \in levels}
<1>2. open' = [open EXCEPT ![m].step = "facts", ![m].facts = F]
  BY <1>1
<1>3. F \in SUBSET facts /\ F \in SUBSET Facts /\ \A f \in F : f.subject = open[m].from
  BY DEF TypeOK
<1> HIDE DEF F
<1>4. open[m] \in Merges
  BY OpenMerge DEF MergeFacts
<1>5. open'[m] = [open[m] EXCEPT !.step = "facts", !.facts = F]
  BY <1>2 DEF TypeOK
<1>6. /\ open'[m] \in Merges /\ open'[m].facts = F
      /\ open'[m].from = open[m].from /\ open'[m].step = "facts"
  BY <1>3, <1>4, <1>5 DEF Merges
<1>7. \A k \in Mergers \ {m} : open'[k] = open[k]
  BY <1>2 DEF TypeOK
<1> QED
  BY <1>2, <1>3, <1>6, <1>7

LEMMA MergeEdgesSets ==
  ASSUME TypeOK, NEW m \in Mergers, MergeEdges(m)
  PROVE  /\ open'[m] \in Merges /\ open'[m].step = "edges"
         /\ open'[m].facts = open[m].facts /\ open'[m].from = open[m].from
         /\ open'[m].into = open[m].into
         /\ open[m].from \in edges => open'[m].edge \/ open[m].into \in edges
         /\ \A k \in Mergers \ {m} : open'[k] = open[k]
         /\ open' \in [Mergers -> Merges \cup {NoMerge}]
<1> DEFINE moves == open[m].from \in edges /\ (open[m].from = open[m].into \/ open[m].into \notin edges)
<1>1. open' = [open EXCEPT ![m].step = "edges", ![m].edge = moves]
  BY DEF MergeEdges
<1>2. moves \in BOOLEAN /\ (open[m].from \in edges => moves \/ open[m].into \in edges)
  OBVIOUS
<1> HIDE DEF moves
<1>3. open[m] \in Merges
  BY OpenMerge DEF MergeEdges
<1>4. open'[m] = [open[m] EXCEPT !.step = "edges", !.edge = moves]
  BY <1>1 DEF TypeOK
<1>5. /\ open'[m] \in Merges /\ open'[m].step = "edges"
      /\ open'[m].facts = open[m].facts /\ open'[m].from = open[m].from
      /\ open'[m].into = open[m].into /\ open'[m].edge = moves
  BY <1>2, <1>3, <1>4 DEF Merges
<1>6. \A k \in Mergers \ {m} : open'[k] = open[k]
  BY <1>1 DEF TypeOK
<1>7. open' \in [Mergers -> Merges \cup {NoMerge}]
  BY <1>1, <1>5, <1>6 DEF TypeOK
<1> QED
  BY <1>2, <1>5, <1>6, <1>7

LEMMA ClosingSets ==
  ASSUME TypeOK, NEW m \in Mergers, open' = [open EXCEPT ![m] = NoMerge]
  PROVE  /\ open' \in [Mergers -> Merges \cup {NoMerge}]
         /\ open'[m] = NoMerge /\ \A k \in Mergers \ {m} : open'[k] = open[k]
BY DEF TypeOK

LEMMA MergeEndSets ==
  ASSUME TypeOK, NEW m \in Mergers, MergeEnd(m)
  PROVE  /\ open[m] \in Merges /\ open[m].step = "edges"
         /\ open[m].from \in Slugs /\ open[m].into \in Slugs /\ open[m].facts \subseteq Facts
         /\ facts' = (facts \ open[m].facts) \cup Landing(open[m].facts, open[m].into)
         /\ edges' = (edges \ {open[m].from})
                      \cup (IF open[m].edge /\ open[m].from # open[m].into
                             THEN {open[m].into} ELSE {})
         /\ late' = late \cup {<<f.doc, f.value>> :
                      f \in {g \in facts' : g.subject = open[m].from} \cup OnTheWay(open[m].from)}
         /\ open'[m] = NoMerge /\ \A k \in Mergers \ {m} : open'[k] = open[k]
<1>1. open[m].step = "edges"
  BY DEF MergeEnd
<1>2. /\ open[m] \in Merges /\ open[m].from \in Slugs /\ open[m].into \in Slugs
      /\ open[m].facts \subseteq Facts
  BY <1>1, OpenMerge
<1>3. open'[m] = NoMerge /\ \A k \in Mergers \ {m} : open'[k] = open[k]
  BY ClosingSets DEF MergeEnd
<1> QED
  BY <1>1, <1>2, <1>3 DEF MergeEnd

LEMMA OnTheWayAreFacts ==
  ASSUME TypeOK, NEW x
  PROVE  OnTheWay(x) \subseteq Facts
<1> SUFFICES ASSUME NEW k \in Mergers, open[k].step = "edges"
             PROVE  open[k].facts \subseteq Facts
  BY DEF OnTheWay
<1> QED
  BY OpenMerge

LEMMA MergeEndKeepsType ==
  ASSUME TypeOK, NEW m \in Mergers, MergeEnd(m)
  PROVE  TypeOK'
<1>1. /\ open[m].from \in Slugs /\ open[m].into \in Slugs
      /\ open[m].names \subseteq Names /\ open[m].facts \subseteq Facts
  BY OpenMerge DEF MergeEnd
<1>2. facts' \subseteq Facts
  BY <1>1, LandingAreFacts DEF MergeEnd, TypeOK
<1>3. entity' \in [Slugs -> {"absent", "live", "merged"}]
  BY <1>1 DEF MergeEnd, TypeOK
<1>4. aliases' \subseteq Slugs \X Names
  BY <1>1 DEF MergeEnd, TypeOK
<1>5. edges' \subseteq Slugs
  BY <1>1, MergeEndSets DEF TypeOK
<1>6. GraphType'
  BY <1>2, <1>3, <1>4, <1>5 DEF MergeEnd, GraphType, TypeOK, Facts, Events
<1>7. CallersType'
  BY DEF MergeEnd, CallersType, TypeOK, caller
<1>8. late' \subseteq Docs \X Values
  <2>1. {g \in facts' : g.subject = open[m].from} \cup OnTheWay(open[m].from) \subseteq Facts
    BY <1>2, OnTheWayAreFacts
  <2>2. \A f \in Facts : <<f.doc, f.value>> \in Docs \X Values
    BY DEF Facts
  <2> QED
    BY <2>1, <2>2, MergeEndSets DEF TypeOK
<1>9. MergersType'
  BY <1>8, ClosingSets DEF MergeEnd, MergersType, TypeOK
<1> QED
  BY <1>6, <1>7, <1>9, TypeIsThree DEF TypeOK, CallersType, GraphType, MergersType

LEMMA OpeningKeepsMergers ==
  ASSUME TypeOK, NEW m \in Mergers, MergeFacts(m) \/ MergeEdges(m) \/ MergeFail(m)
  PROVE  MergersType'
<1>1. CASE MergeFacts(m)
  <2>1. PICK F \in SUBSET facts :
          /\ open' = [open EXCEPT ![m].step = "facts", ![m].facts = F]
          /\ open'[m] \in Merges
          /\ \A k \in Mergers \ {m} : open'[k] = open[k]
    BY <1>1, MergeFactsSets
  <2>2. open' \in [Mergers -> Merges \cup {NoMerge}]
    BY <2>1 DEF TypeOK
  <2> QED
    BY <1>1, <2>2 DEF MergeFacts, MergersType, TypeOK
<1>2. CASE MergeEdges(m)
  BY <1>2, MergeEdgesSets DEF MergeEdges, MergersType, TypeOK
<1>3. CASE MergeFail(m)
  BY <1>3, ClosingSets DEF MergeFail, MergersType, TypeOK
<1> QED
  BY <1>1, <1>2, <1>3

LEMMA StepKeepsType ==
  ASSUME TypeOK, [Next]_vars
  PROVE  TypeOK'
<1>0. CallersType /\ GraphType /\ MergersType
  BY TypeIsThree
<1> USE TypeIsThree
<1>1. CASE UNCHANGED vars
  <2>1. GraphType'
    BY <1>0, <1>1, GraphUnchangedType DEF vars
  <2>2. MergersType'
    BY <1>0, <1>1, MergersUnchangedType DEF vars
  <2>3. CallersType'
    BY <1>0, <1>1 DEF vars, caller, CallersType
  <2> QED
    BY <2>1, <2>2, <2>3 DEF TypeOK, CallersType, GraphType, MergersType
<1>2. CASE \E m \in Mergers : MergeEnd(m)
  BY <1>2, MergeEndKeepsType
<1>3. CASE \E w \in Workers : Commit(w)
  <2>1. PICK w \in Workers : Commit(w)
    BY <1>3
  <2>2. CallersType'
    BY <1>0, <2>1, IdleKeepsCallers DEF Commit
  <2>3. GraphType'
    BY <2>1, CommitKeepsGraphType
  <2>4. MergersType'
    BY <1>0, <2>1, MergersUnchangedType DEF Commit, Idle
  <2> QED
    BY <2>2, <2>3, <2>4 DEF TypeOK, CallersType, GraphType, MergersType
<1>4. CASE \/ \E d \in Docs : Overwrite(d)
           \/ \E w \in Workers, d \in Docs : Fetch(w, d)
           \/ \E w \in Workers : Resolve(w) \/ Fail(w)
  <2>1. CallersType'
    BY <1>0, <1>4, OverwriteKeepsCallers, FetchKeepsCallers, ResolveKeepsCallers,
       IdleKeepsCallers DEF Fail
  <2>2. UNCHANGED graph /\ UNCHANGED merger
    BY <1>4 DEF Overwrite, Fetch, Resolve, Fail, Idle
  <2>3. GraphType' /\ MergersType'
    BY <1>0, <2>2, GraphUnchangedType, MergersUnchangedType
  <2> QED
    BY <2>1, <2>3 DEF TypeOK, CallersType, GraphType, MergersType
<1>5. CASE \/ \E m \in Mergers, x, y \in Slugs : MergeNames(m, x, y)
           \/ \E m \in Mergers : MergeFacts(m) \/ MergeEdges(m) \/ MergeFail(m)
  <2>1. MergersType'
    BY <1>5, MergeNamesKeepsMergers, OpeningKeepsMergers
  <2>2. UNCHANGED <<bundle, graph, caller, attempts>>
    BY <1>5 DEF MergeNames, MergeFacts, MergeEdges, MergeFail
  <2>3. CallersType'
    BY <1>0, <2>2 DEF CallersType, caller
  <2>4. GraphType'
    BY <1>0, <2>2, GraphUnchangedType
  <2> QED
    BY <2>1, <2>3, <2>4 DEF TypeOK, CallersType, GraphType, MergersType
<1> QED
  BY <1>1, <1>2, <1>3, <1>4, <1>5 DEF Next

(* The variables keep their types, for all documents, bundles and callers.  *)
THEOREM TypeCorrect == Spec => []TypeOK
<1>1. Init => TypeOK
  BY CatalogAssumption DEF Init, TypeOK
<1>2. TypeOK /\ [Next]_vars => TypeOK'
  BY StepKeepsType
<1> QED
  BY <1>1, <1>2, PTL DEF Spec

-----------------------------------------------------------------------------
(* The facts a running merge moves are stored facts of its entity, which no *)
(* other merge has: the entity's row is locked.                             *)
OpenInv ==
  /\ TypeOK
  /\ \A m \in Mergers : open[m].facts \subseteq facts
                        /\ \A f \in open[m].facts : f.subject = open[m].from
  /\ \A m, k \in Mergers : open[m].from = open[k].from => m = k \/ open[m] = NoMerge

LEMMA IdleMerge ==
  ASSUME TypeOK, NEW m \in Mergers
  PROVE  /\ NoMerge.from = New /\ NoMerge.facts = {} /\ NoMerge.step = "idle"
         /\ open[m] # NoMerge => open[m].from \in Slugs /\ open[m] \in Merges
         /\ open[m] = NoMerge => open[m].from \notin Slugs
BY CatalogAssumption DEF TypeOK, NoMerge, Merges

LEMMA OneMergeKeepsOpen ==
  ASSUME OpenInv, TypeOK', NEW m \in Mergers, facts' = facts,
         \A k \in Mergers \ {m} : open'[k] = open[k],
         open'[m].facts \subseteq facts,
         \A f \in open'[m].facts : f.subject = open'[m].from,
         open'[m] = NoMerge \/ (open[m] # NoMerge /\ open'[m].from = open[m].from)
  PROVE  OpenInv'
<1>1. \A k \in Mergers : /\ open'[k].facts \subseteq facts'
                         /\ \A f \in open'[k].facts : f.subject = open'[k].from
  BY DEF OpenInv
<1>2. \A j, k \in Mergers : open'[j].from = open'[k].from => j = k \/ open'[j] = NoMerge
  <2> SUFFICES ASSUME NEW j \in Mergers, NEW k \in Mergers, j # k, open'[j] # NoMerge,
                      open'[j].from = open'[k].from
               PROVE  FALSE
    OBVIOUS
  <2>1. CASE open'[m] # NoMerge
    <3>1. open[j].from = open[k].from /\ open[j] # NoMerge
      BY <2>1
    <3> QED
      BY <3>1 DEF OpenInv
  <2>2. CASE open'[m] = NoMerge
    <3>1. j # m /\ open'[j] = open[j]
      BY <2>2
    <3>2. CASE k = m
      <4>1. open[j].from \in Slugs
        BY <3>1, IdleMerge DEF OpenInv
      <4> QED
        BY <2>2, <3>1, <3>2, <4>1, CatalogAssumption DEF NoMerge
    <3>3. CASE k # m
      BY <3>1, <3>3 DEF OpenInv
    <3> QED
      BY <3>2, <3>3
  <2> QED
    BY <2>1, <2>2
<1> QED
  BY <1>1, <1>2 DEF OpenInv

LEMMA CommitKeepsFacts ==
  ASSUME NEW w \in Workers, Commit(w)
  PROVE  facts \subseteq facts' /\ open' = open /\ late' = late
BY DEF Commit, Idle, merger

LEMMA StepKeepsOpen ==
  ASSUME OpenInv, [Next]_vars
  PROVE  OpenInv'
<1>0. TypeOK /\ TypeOK'
  BY StepKeepsType DEF OpenInv
<1>1. CASE facts \subseteq facts' /\ open' = open
  BY <1>0, <1>1 DEF OpenInv, NoMerge
<1>2. CASE \E m \in Mergers, x, y \in Slugs : MergeNames(m, x, y)
  <2>1. PICK m \in Mergers, x \in Slugs, y \in Slugs : MergeNames(m, x, y)
    BY <1>2
  <2>2. /\ facts' = facts /\ open'[m].from = x /\ open'[m].facts = {}
        /\ \A k \in Mergers \ {m} : open'[k] = open[k] /\ open[k].from # x
    BY <1>0, <2>1 DEF MergeNames, TypeOK, NoMerge, HeldEntities, graph
  <2> QED
    BY <1>0, <2>2 DEF OpenInv, NoMerge
<1>3. CASE \E m \in Mergers : MergeFacts(m)
  <2>1. PICK m \in Mergers : MergeFacts(m)
    BY <1>3
  <2>2. PICK F \in SUBSET facts :
          /\ \A f \in F : f.subject = open[m].from
          /\ open'[m].facts = F /\ open'[m].from = open[m].from /\ open'[m].step = "facts"
          /\ \A k \in Mergers \ {m} : open'[k] = open[k]
    BY <1>0, <2>1, MergeFactsSets
  <2>3. facts' = facts /\ open[m] # NoMerge
    BY <1>0, <2>1, IdleMerge DEF MergeFacts, graph
  <2> QED
    BY <1>0, <2>2, <2>3, OneMergeKeepsOpen
<1>4. CASE \E m \in Mergers : MergeEdges(m)
  <2>1. PICK m \in Mergers : MergeEdges(m)
    BY <1>4
  <2>2. facts' = facts /\ open[m] # NoMerge
    BY <1>0, <2>1, IdleMerge DEF MergeEdges, graph
  <2>3. /\ open'[m].facts = open[m].facts /\ open'[m].from = open[m].from
        /\ \A k \in Mergers \ {m} : open'[k] = open[k]
    BY <1>0, <2>1, MergeEdgesSets
  <2>4. open[m].facts \subseteq facts /\ \A f \in open[m].facts : f.subject = open[m].from
    BY DEF OpenInv
  <2> QED
    BY <1>0, <2>2, <2>3, <2>4, OneMergeKeepsOpen
<1>5. CASE \E m \in Mergers : MergeFail(m)
  <2>1. PICK m \in Mergers : MergeFail(m)
    BY <1>5
  <2>2. facts' = facts /\ open'[m] = NoMerge /\ \A k \in Mergers \ {m} : open'[k] = open[k]
    BY <1>0, <2>1, ClosingSets DEF MergeFail, graph
  <2>3. open'[m].facts = {}
    BY <1>0, <2>2, IdleMerge
  <2> QED
    BY <1>0, <2>2, <2>3, OneMergeKeepsOpen
<1>6. CASE \E m \in Mergers : MergeEnd(m)
  <2>1. PICK m \in Mergers : MergeEnd(m)
    BY <1>6
  <2>2. /\ open[m].from \in Slugs
        /\ facts' = (facts \ open[m].facts) \cup Landing(open[m].facts, open[m].into)
        /\ open'[m] = NoMerge /\ \A k \in Mergers \ {m} : open'[k] = open[k]
    BY <1>0, <2>1, MergeEndSets
  <2>3. ASSUME NEW k \in Mergers \ {m}
        PROVE  open[k].facts \cap open[m].facts = {}
    <3>1. open[k] = NoMerge => open[k].facts = {}
      BY <1>0, IdleMerge
    <3>2. open[k] # NoMerge => open[k].from # open[m].from
      BY <2>3 DEF OpenInv
    <3> QED
      BY <3>1, <3>2 DEF OpenInv
  <2>4. \A k \in Mergers : /\ open'[k].facts \subseteq facts'
                          /\ \A f \in open'[k].facts : f.subject = open'[k].from
    BY <1>0, <2>2, <2>3, IdleMerge DEF OpenInv
  <2>5. \A j, k \in Mergers : open'[j].from = open'[k].from => j = k \/ open'[j] = NoMerge
    <3> SUFFICES ASSUME NEW j \in Mergers, NEW k \in Mergers, j # k, open'[j] # NoMerge,
                        open'[j].from = open'[k].from
                 PROVE  FALSE
      OBVIOUS
    <3>1. j # m /\ open'[j] = open[j] /\ open[j].from \in Slugs
      BY <1>0, <2>2, IdleMerge
    <3>2. k # m
      BY <1>0, <2>2, <3>1, CatalogAssumption DEF NoMerge
    <3> QED
      BY <2>2, <3>1, <3>2 DEF OpenInv
  <2> QED
    BY <1>0, <2>4, <2>5 DEF OpenInv
<1>7. CASE \E w \in Workers : Commit(w)
  BY <1>1, <1>7, CommitKeepsFacts
<1>8. CASE \/ UNCHANGED vars
           \/ \E d \in Docs : Overwrite(d)
           \/ \E w \in Workers, d \in Docs : Fetch(w, d)
           \/ \E w \in Workers : Resolve(w) \/ Fail(w)
  BY <1>1, <1>8 DEF vars, graph, merger, Overwrite, Fetch, Resolve, Fail, Idle
<1> QED
  BY <1>2, <1>3, <1>4, <1>5, <1>6, <1>7, <1>8 DEF Next

-----------------------------------------------------------------------------
(* The values S has for document d are those of bundle b.                   *)
Shows(S, d, b) ==
  /\ \A f \in S : f.doc = d => \E g \in b.facts : g.value = f.value
  /\ \A g \in b.facts : \E f \in S : f.doc = d /\ f.value = g.value

(* Before the status of a document is 'indexed' nothing of it is stored, and *)
(* what is stored has the values of one bundle; merges move subjects only.  *)
WholeInv ==
  /\ OpenInv
  /\ chunked = indexed
  /\ \A f \in facts : f.doc \in indexed
  /\ \A f, g \in facts : f.doc = g.doc /\ f.value = g.value => f = g
  /\ \A d \in indexed : \E b \in Bundles[d] : Shows(facts, d, b)

(* A document whose chunks are stored only commits facts that are stored.   *)
LEMMA CommitAgainKeepsWhole ==
  ASSUME WholeInv, NEW w \in Workers, Commit(w), doc[w] \in chunked
  PROVE  WholeInv'
<1>1. facts' = facts /\ chunked' = chunked /\ indexed' = indexed
  BY DEF Commit, ChunkMissing, WholeInv
<1>2. OpenInv' /\ TypeOK
  BY StepKeepsOpen DEF WholeInv, OpenInv, Next
<1> QED
  BY <1>1, <1>2 DEF WholeInv, Shows

LEMMA CommitFirstKeepsWhole ==
  ASSUME WholeInv, NEW w \in Workers, Commit(w), doc[w] \notin chunked
  PROVE  WholeInv'
<1>1. /\ doc[w] \in Docs /\ bnd[w] \in Bundles[doc[w]] /\ IsBundle(bnd[w])
      /\ facts' = facts \cup Wanted(w)
      /\ chunked' = chunked \cup {doc[w]} /\ indexed' = indexed \cup {doc[w]}
  BY WantedAreFacts DEF Commit, WholeInv, OpenInv
<1>2. OpenInv' /\ TypeOK
  BY StepKeepsOpen DEF WholeInv, OpenInv, Next
<1>3. /\ \A f \in Wanted(w) : f.doc = doc[w] /\ \E g \in bnd[w].facts : f.value = g.value
      /\ \A g \in bnd[w].facts : \E f \in Wanted(w) : f.doc = doc[w] /\ f.value = g.value
      /\ \A f, g \in Wanted(w) : f.value = g.value => f = g
  <2> DEFINE Made(g) == [doc |-> doc[w], subject |-> Subject(w, g.name), value |-> g.value]
  <2>1. /\ \A g \in bnd[w].facts : Made(g) \in Wanted(w)
        /\ \A f \in Wanted(w) : \E g \in bnd[w].facts : f = Made(g)
    BY DEF Wanted
  <2>2. \A g \in bnd[w].facts : Made(g).doc = doc[w] /\ Made(g).value = g.value
    OBVIOUS
  <2>3. \A f, g \in bnd[w].facts : f.value = g.value => f = g
    BY <1>1 DEF IsBundle
  <2> HIDE DEF Made
  <2> QED
    BY <2>1, <2>2, <2>3
<1>4. \A f \in facts : f.doc # doc[w]
  BY DEF WholeInv
<1>5. \A f \in facts' : f.doc \in indexed'
  BY <1>1, <1>3 DEF WholeInv
<1>6. \A f, g \in facts' : f.doc = g.doc /\ f.value = g.value => f = g
  BY <1>1, <1>3, <1>4 DEF WholeInv
<1>7. ASSUME NEW d \in indexed'
      PROVE  \E b \in Bundles[d] : Shows(facts', d, b)
  <2>1. CASE d = doc[w]
    <3>1. Shows(facts', d, bnd[w])
      BY <1>1, <1>3, <1>4, <2>1 DEF Shows
    <3> QED
      BY <1>1, <2>1, <3>1
  <2>2. CASE d # doc[w]
    <3>1. PICK b \in Bundles[d] : Shows(facts, d, b)
      BY <1>1, <2>2 DEF WholeInv
    <3>2. Shows(facts', d, b)
      BY <1>1, <1>3, <2>2, <3>1 DEF Shows
    <3> QED
      BY <3>2
  <2> QED
    BY <2>1, <2>2
<1> QED
  BY <1>1, <1>2, <1>5, <1>6, <1>7 DEF WholeInv

LEMMA MergeEndKeepsWhole ==
  ASSUME WholeInv, NEW m \in Mergers, MergeEnd(m)
  PROVE  WholeInv'
<1>1. OpenInv' /\ TypeOK /\ chunked' = chunked /\ indexed' = indexed
  BY StepKeepsOpen DEF WholeInv, OpenInv, MergeEnd, Next
<1>2. /\ facts' = (facts \ open[m].facts) \cup Landing(open[m].facts, open[m].into)
      /\ open[m].facts \subseteq facts
  BY <1>1, MergeEndSets DEF WholeInv, OpenInv
<1> DEFINE Image(f) == IF f \in open[m].facts THEN [f EXCEPT !.subject = open[m].into] ELSE f
<1>3. \A f \in facts : Image(f).doc = f.doc /\ Image(f).value = f.value
  BY <1>1 DEF TypeOK, Facts
<1>4. /\ \A f \in facts : Image(f) \in facts'
      /\ \A h \in facts' : \E f \in facts : h = Image(f)
  BY <1>2 DEF Landing
<1> HIDE DEF Image
<1>5. \A h \in facts' : h.doc \in indexed'
  BY <1>1, <1>3, <1>4 DEF WholeInv
<1>6. \A h, k \in facts' : h.doc = k.doc /\ h.value = k.value => h = k
  BY <1>3, <1>4 DEF WholeInv
<1>7. ASSUME NEW d \in indexed'
      PROVE  \E b \in Bundles[d] : Shows(facts', d, b)
  <2>1. PICK b \in Bundles[d] : Shows(facts, d, b)
    BY <1>1 DEF WholeInv
  <2>2. Shows(facts', d, b)
    BY <1>3, <1>4, <2>1 DEF Shows
  <2> QED
    BY <2>2
<1> QED
  BY <1>1, <1>5, <1>6, <1>7 DEF WholeInv

LEMMA StepKeepsWhole ==
  ASSUME WholeInv, [Next]_vars
  PROVE  WholeInv'
<1>1. CASE UNCHANGED graph
  <2>1. OpenInv' /\ facts' = facts /\ chunked' = chunked /\ indexed' = indexed
    BY <1>1, StepKeepsOpen DEF WholeInv, graph
  <2> QED
    BY <2>1 DEF WholeInv, Shows
<1>2. CASE \E w \in Workers : Commit(w)
  BY <1>2, CommitAgainKeepsWhole, CommitFirstKeepsWhole
<1>3. CASE \E m \in Mergers : MergeEnd(m)
  BY <1>3, MergeEndKeepsWhole
<1> QED
  BY <1>1, <1>2, <1>3 DEF Next, vars, Overwrite, Fetch, Resolve, Fail,
     MergeNames, MergeFacts, MergeEdges, MergeFail

LEMMA InitIsWhole ==
  ASSUME Init
  PROVE  WholeInv
<1>1. TypeOK
  BY CatalogAssumption DEF Init, TypeOK
<1>2. \A m \in Mergers : open[m] = NoMerge
  BY DEF Init
<1>3. OpenInv
  BY <1>1, <1>2, IdleMerge DEF OpenInv
<1> QED
  BY <1>3 DEF Init, WholeInv

(* Records told apart by their values are as many as their values.          *)
LEMMA AsManyAsValues ==
  ASSUME NEW S, NEW T, IsFiniteSet(T),
         \A f, g \in S : f.value = g.value => f = g,
         \A f, g \in T : f.value = g.value => f = g,
         \A f \in S : \E g \in T : g.value = f.value,
         \A g \in T : \E f \in S : f.value = g.value
  PROVE  Cardinality(S) = Cardinality(T)
<1> DEFINE M == [g \in T |-> CHOOSE f \in S : f.value = g.value]
<1>1. \A g \in T : M[g] \in S /\ M[g].value = g.value
  OBVIOUS
<1>2. M \in [T -> S]
  BY <1>1
<1>3. \A g, h \in T : M[g] = M[h] => g = h
  BY <1>1
<1>4. \A f \in S : \E g \in T : M[g] = f
  <2> SUFFICES ASSUME NEW f \in S
               PROVE  \E g \in T : M[g] = f
    OBVIOUS
  <2>1. PICK g \in T : g.value = f.value
    OBVIOUS
  <2>2. M[g] \in S /\ M[g].value = f.value
    BY <1>1, <2>1
  <2> QED
    BY <2>2
<1> HIDE DEF M
<1>5. M \in Bijection(T, S)
  BY <1>2, <1>3, <1>4 DEF Bijection, Injection, Surjection, IsInjective
<1>6. ExistsBijection(T, S)
  BY <1>5 DEF ExistsBijection
<1> QED
  BY <1>6, FS_Bijection

(* Whatever redeliveries, overlapping calls, rewritten bundles, slug        *)
(* conflicts and merges do, an indexed document has the facts of one of its *)
(* bundles, each exactly once.                                              *)
THEOREM IndexedDocumentsAreWhole == Spec => []IndexedDocumentIsWhole
<1>1. Init => WholeInv
  BY InitIsWhole
<1>2. WholeInv /\ [Next]_vars => WholeInv'
  BY StepKeepsWhole
<1>3. WholeInv => IndexedDocumentIsWhole
  <2> SUFFICES ASSUME WholeInv, NEW d \in indexed
               PROVE  \E b \in Bundles[d] :
                        /\ {f.value : f \in FactsOf(d)} = {f.value : f \in b.facts}
                        /\ Cardinality(FactsOf(d)) = Cardinality(b.facts)
    BY DEF IndexedDocumentIsWhole
  <2>1. d \in Docs
    BY DEF WholeInv, OpenInv, TypeOK
  <2>2. PICK b \in Bundles[d] : Shows(facts, d, b)
    BY DEF WholeInv
  <2>3. IsBundle(b)
    BY <2>1, CatalogAssumption
  <2>4. /\ \A f \in FactsOf(d) : \E g \in b.facts : g.value = f.value
        /\ \A g \in b.facts : \E f \in FactsOf(d) : f.value = g.value
    BY <2>2 DEF Shows, FactsOf
  <2>5. \A f, g \in FactsOf(d) : f.value = g.value => f = g
    BY DEF FactsOf, WholeInv
  <2>6. IsFiniteSet(b.facts) /\ \A f, g \in b.facts : f.value = g.value => f = g
    BY <2>3 DEF IsBundle
  <2>7. Cardinality(FactsOf(d)) = Cardinality(b.facts)
    BY <2>4, <2>5, <2>6, AsManyAsValues
  <2>8. {f.value : f \in FactsOf(d)} = {f.value : f \in b.facts}
    BY <2>4
  <2> QED
    BY <2>7, <2>8
<1> QED
  BY <1>1, <1>2, <1>3, PTL DEF Spec

-----------------------------------------------------------------------------
(* A public fact has its edge or is late; and those a merge moves will have *)
(* it when the merge ends: the edge moves with them, or is there already.   *)
EdgesInv ==
  /\ OpenInv
  /\ EdgesFollowFacts
  /\ \A m \in Mergers : open[m].step = "edges" =>
        \A f \in open[m].facts :
           \/ Access[f.doc] # "public"
           \/ <<f.doc, f.value>> \in late
           \/ open[m].edge
           \/ open[m].into \in edges

LEMMA CommitKeepsEdges ==
  ASSUME EdgesInv, NEW w \in Workers, Commit(w)
  PROVE  EdgesInv'
<1>1. \A f \in Wanted(w) : f.doc = doc[w]
  BY DEF Wanted
<1>2. \A f \in facts' : f \in facts \/ f.doc = doc[w]
  BY <1>1 DEF Commit
<1>3. /\ edges \subseteq edges'
      /\ \A f \in facts' : f.doc = doc[w] => f.subject \in edges'
  BY DEF Commit
<1>4. OpenInv' /\ open' = open /\ late' = late
  BY StepKeepsOpen, CommitKeepsFacts DEF EdgesInv, Next
<1> QED
  BY <1>2, <1>3, <1>4 DEF EdgesInv, EdgesFollowFacts

LEMMA MergeEdgesKeepsEdges ==
  ASSUME EdgesInv, NEW m \in Mergers, MergeEdges(m)
  PROVE  EdgesInv'
<1>1. OpenInv' /\ TypeOK /\ UNCHANGED <<facts, edges, late>>
  BY StepKeepsOpen DEF EdgesInv, OpenInv, Next, MergeEdges, graph
<1>2. /\ open'[m].facts = open[m].facts /\ open'[m].into = open[m].into
      /\ open[m].from \in edges => open'[m].edge \/ open[m].into \in edges
      /\ \A k \in Mergers \ {m} : open'[k] = open[k]
  BY <1>1, MergeEdgesSets
<1>3. \A f \in open[m].facts :
        \/ Access[f.doc] # "public" \/ <<f.doc, f.value>> \in late
        \/ open[m].from \in edges
  BY DEF EdgesInv, OpenInv, EdgesFollowFacts
<1> QED
  BY <1>1, <1>2, <1>3 DEF EdgesInv, EdgesFollowFacts

LEMMA MergeEndKeepsEdges ==
  ASSUME EdgesInv, NEW m \in Mergers, MergeEnd(m)
  PROVE  EdgesInv'
<1> DEFINE x == open[m].from
           y == open[m].into
           F == open[m].facts
<1>1. OpenInv' /\ TypeOK
  BY StepKeepsOpen DEF EdgesInv, OpenInv, Next
<1>2. /\ open[m].step = "edges" /\ F \subseteq Facts
      /\ facts' = (facts \ F) \cup Landing(F, y)
      /\ edges' = (edges \ {x}) \cup (IF open[m].edge /\ x # y THEN {y} ELSE {})
      /\ late' = late \cup {<<f.doc, f.value>> :
                   f \in {g \in facts' : g.subject = x} \cup OnTheWay(x)}
      /\ open'[m] = NoMerge /\ \A k \in Mergers \ {m} : open'[k] = open[k]
  BY <1>1, MergeEndSets
<1>3. /\ late \subseteq late' /\ edges \ {x} \subseteq edges'
      /\ \A f \in facts' : f.subject = x => <<f.doc, f.value>> \in late'
      /\ \A f \in OnTheWay(x) : <<f.doc, f.value>> \in late'
  BY <1>2
<1>4. ASSUME NEW h \in facts', Access[h.doc] = "public", h.subject # x
      PROVE  h.subject \in edges' \/ <<h.doc, h.value>> \in late'
  <2>1. CASE h \in facts
    BY <1>3, <1>4, <2>1 DEF EdgesInv, EdgesFollowFacts
  <2>2. CASE h \in Landing(F, y)
    <3>1. PICK f \in F : h = [f EXCEPT !.subject = y]
      BY <2>2 DEF Landing
    <3>2. f \in Facts
      BY <1>2
    <3>3. h.subject = y /\ h.doc = f.doc /\ h.value = f.value
      BY <3>1, <3>2 DEF Facts
    <3>4. <<f.doc, f.value>> \in late \/ open[m].edge \/ y \in edges
      BY <1>2, <1>4, <3>3 DEF EdgesInv
    <3> QED
      BY <1>2, <1>3, <1>4, <3>3, <3>4
  <2> QED
    BY <1>2, <2>1, <2>2
<1>5. EdgesFollowFacts'
  BY <1>3, <1>4 DEF EdgesFollowFacts
<1>6. ASSUME NEW k \in Mergers, open'[k].step = "edges", NEW f \in open'[k].facts,
             Access[f.doc] = "public", ~open'[k].edge
      PROVE  <<f.doc, f.value>> \in late' \/ open'[k].into \in edges'
  <2>1. k # m
    BY <1>2, <1>6 DEF NoMerge
  <2>2. open'[k] = open[k]
    BY <1>2, <2>1
  <2>3. <<f.doc, f.value>> \in late \/ open[k].into \in edges
    BY <1>6, <2>2 DEF EdgesInv
  <2>4. open[k].into = x => f \in OnTheWay(x)
    BY <1>6, <2>2 DEF OnTheWay
  <2> QED
    BY <1>3, <2>2, <2>3, <2>4
<1> QED
  BY <1>1, <1>5, <1>6 DEF EdgesInv

LEMMA StepKeepsEdges ==
  ASSUME EdgesInv, [Next]_vars
  PROVE  EdgesInv'
<1>0. OpenInv' /\ TypeOK
  BY StepKeepsOpen DEF EdgesInv, OpenInv
<1>1. CASE UNCHANGED <<facts, edges, late>> /\ \A m \in Mergers : open'[m] = open[m] \/ open'[m].step # "edges"
  BY <1>0, <1>1 DEF EdgesInv, EdgesFollowFacts
<1>2. CASE \E w \in Workers : Commit(w)
  BY <1>2, CommitKeepsEdges
<1>3. CASE \E m \in Mergers : MergeEdges(m)
  BY <1>3, MergeEdgesKeepsEdges
<1>4. CASE \E m \in Mergers : MergeEnd(m)
  BY <1>4, MergeEndKeepsEdges
<1>5. CASE \/ \E m \in Mergers, x, y \in Slugs : MergeNames(m, x, y)
           \/ \E m \in Mergers : MergeFacts(m) \/ MergeFail(m)
  <2>1. UNCHANGED <<facts, edges, late>>
    BY <1>5 DEF MergeNames, MergeFacts, MergeFail, graph
  <2>2. CASE \E m \in Mergers, x, y \in Slugs : MergeNames(m, x, y)
    BY <1>0, <1>1, <2>1, <2>2 DEF MergeNames, TypeOK, NoMerge
  <2>3. CASE \E m \in Mergers : MergeFacts(m)
    BY <1>0, <1>1, <2>1, <2>3, MergeFactsSets
  <2>4. CASE \E m \in Mergers : MergeFail(m)
    BY <1>0, <1>1, <2>1, <2>4 DEF MergeFail, TypeOK, NoMerge
  <2> QED
    BY <1>5, <2>2, <2>3, <2>4
<1>6. CASE \/ UNCHANGED vars
           \/ \E d \in Docs : Overwrite(d)
           \/ \E w \in Workers, d \in Docs : Fetch(w, d)
           \/ \E w \in Workers : Resolve(w) \/ Fail(w)
  BY <1>1, <1>6 DEF vars, graph, merger, Overwrite, Fetch, Resolve, Fail, Idle
<1> QED
  BY <1>2, <1>3, <1>4, <1>5, <1>6 DEF Next

(* However the statements of merges and the commits interleave, a fact of a *)
(* public document has its edge, or a merge of its subject ended when the   *)
(* fact was there and could not be taken along.                             *)
THEOREM EdgesAlwaysFollowFacts == Spec => []EdgesFollowFacts
<1>1. Init => EdgesInv
  <2> SUFFICES ASSUME Init PROVE EdgesInv
    OBVIOUS
  <2>1. OpenInv /\ \A m \in Mergers : open[m] = NoMerge
    BY InitIsWhole DEF WholeInv, Init
  <2> QED
    BY <2>1 DEF EdgesInv, EdgesFollowFacts, Init, NoMerge
<1>2. EdgesInv /\ [Next]_vars => EdgesInv'
  BY StepKeepsEdges
<1>3. EdgesInv => EdgesFollowFacts
  BY DEF EdgesInv
<1> QED
  BY <1>1, <1>2, <1>3, PTL DEF Spec
=============================================================================
