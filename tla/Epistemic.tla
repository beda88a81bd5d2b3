----------------------------- MODULE Epistemic ------------------------------
(***************************************************************************)
(* internal/epistemic: on each facts.committed event one transaction puts  *)
(* the facts of the event into clusters, judges every cluster they are in, *)
(* records the contradictions it finds and counts the coverage of their    *)
(* subjects again; then epistemic.updated is published and the event       *)
(* acknowledged.  Catalog, which commits facts, merges entities and        *)
(* records the verdicts of experts, writes the facts meanwhile.            *)
(*                                                                         *)
(* The durable has no queue group and one process handles its messages one *)
(* at a time.  Of the transaction's statements the first reads the         *)
(* subjects of the facts and the last reads them again; what the others    *)
(* read only this process writes.  A cluster is named by subject and       *)
(* parameter: the condition hash would only make the key longer.           *)
(***************************************************************************)
EXTENDS Consensus

CONSTANTS
  Docs, Slugs,
  Facts,          \* Facts[d]: names of the facts a commit of d stores
  Home,           \* Home[f]: the subject f is committed with
  Parameter,      \* Parameter[f]
  Unreviewed,     \* facts whose unit no one knows: committed as needs_unit_review
  Scenarios,      \* bounds: records of which one holds for a whole behaviour
  None

AllFacts == UNION {Facts[d] : d \in Docs}

ASSUME EpistemicAssumption ==
  /\ \A d \in Docs : IsFiniteSet(Facts[d]) /\ \A f \in Facts[d] : Sample[f].doc = d
  /\ \A f \in AllFacts : /\ Home[f] \in Slugs /\ Parameter[f] \in Slugs
                         /\ {Sample[f].lo, Sample[f].hi} \subseteq Int
                         /\ {Sample[f].confidence, Freshness(Sample[f].year)} \subseteq Nat
  /\ \A b \in Scenarios :
        /\ b.docs \subseteq Docs            \* the documents catalog commits
        /\ {b.deliver, b.merges, b.verdicts, b.replays} \subseteq Nat
  /\ None \notin Docs \cup Slugs
  /\ Unreviewed \subseteq AllFacts

VARIABLES
  bound,          \* the scenario
  subject,        \* subject[f]: subject_id of the stored fact, None without a row
  moved,          \* facts that a merge has moved
  validated,      \* facts with an expert's validation
  hidden,         \* facts whose status search leaves out: under review, rejected, deprecated
  event,          \* event[d]: facts.committed of d, as the epistemic durable has it
  tries,          \* tries[d]: deliveries of it
  hand,           \* the event being handled, or None
  step,           \* "idle", or the step of handle reached
  grouped,        \* rows of cluster_members the open transaction has written
  member,         \* epi.cluster_members
  consensus,      \* consensus[c]: epi.consensus, None without a row
  dispute,        \* dispute[p]: status of the contradiction of pair p, or "none"
  cell,           \* cell[s]: the coverage cell of process s, None without a row
  unannounced,    \* subjects merges and verdicts touched since their cell was built
  merges, verdicts, replays

base    == <<subject, moved, validated, hidden, merges, verdicts, unannounced>>
handler == <<hand, step, grouped>>
judged  == <<member, consensus, dispute, cell>>
epistemicVars == <<bound, base, event, tries, handler, judged, replays>>

Clusters == Slugs \X Slugs
Pairs == {p \in SUBSET AllFacts : Cardinality(p) = 2}
Statuses == {"suspected", "expert_confirmed", "expert_rejected", "resolved"}

FactStatuses == {"validated", "hidden", "other"}     \* as far as readers tell them apart

Stored == {f \in AllFacts : subject[f] # None}
Members(c) == {f \in AllFacts : <<c, f>> \in member}
ClusterOf(f) == <<subject[f], Parameter[f]>>

EpistemicTypeOK ==
  /\ bound \in Scenarios
  /\ subject \in [AllFacts -> Slugs \cup {None}]
  /\ moved \cup validated \cup hidden \subseteq AllFacts
  /\ event \in [Docs -> {"none", "pending", "done", "dead"}]
  /\ tries \in [Docs -> 0..bound.deliver]
  /\ hand \in Docs \cup {None}
  /\ step \in {"idle", "grouped", "judged"}
  /\ grouped \subseteq Clusters \X AllFacts
  /\ member \subseteq Clusters \X AllFacts
  /\ DOMAIN consensus = Clusters
  /\ dispute \in [Pairs -> Statuses \cup {"none"}]
  /\ DOMAIN cell = Slugs
  /\ unannounced \subseteq Slugs
  /\ merges \in 0..bound.merges
  /\ verdicts \in 0..bound.verdicts
  /\ replays \in 0..bound.replays

EpistemicInit ==
  /\ bound \in Scenarios
  /\ subject = [f \in AllFacts |-> None]
  /\ moved = {}
  /\ validated = {}
  /\ hidden = {}
  /\ event = [d \in Docs |-> "none"]
  /\ tries = [d \in Docs |-> 0]
  /\ hand = None
  /\ step = "idle"
  /\ grouped = {}
  /\ member = {}
  /\ consensus = [c \in Clusters |-> None]
  /\ dispute = [p \in Pairs |-> "none"]
  /\ cell = [s \in Slugs |-> None]
  /\ unannounced = {}
  /\ merges = 0
  /\ verdicts = 0
  /\ replays = 0

-----------------------------------------------------------------------------
(* Catalog: the facts of a document and their event commit together.        *)
CommitFacts(d) ==
  /\ d \in bound.docs /\ event[d] = "none"
  /\ subject' = [f \in AllFacts |-> IF f \in Facts[d] THEN Home[f] ELSE subject[f]]
  /\ hidden' = hidden \cup (Facts[d] \cap Unreviewed)
  /\ event' = [event EXCEPT ![d] = "pending"]
  /\ UNCHANGED <<bound, moved, validated, merges, verdicts, unannounced, tries, handler, judged,
                 replays>>

(* MergeEntities moves facts of x that its session sees to y; no event.     *)
MergeSubjects(x, y) ==
  /\ merges < bound.merges
  /\ merges' = merges + 1
  /\ \E seen \in SUBSET {f \in AllFacts : subject[f] = x} :
        /\ subject' = [f \in AllFacts |-> IF f \in seen THEN y ELSE subject[f]]
        /\ moved' = moved \cup seen
        /\ unannounced' = IF seen = {} THEN unannounced ELSE unannounced \cup {x, y}
  /\ UNCHANGED <<bound, validated, hidden, verdicts, event, tries, handler, judged, replays>>

(* UpdateFactStatus, to any status: one that counts as validated, one that  *)
(* search leaves out, or another; no event.                                 *)
UpdateFactStatus(f, status) ==
  /\ f \in Stored
  /\ verdicts < bound.verdicts
  /\ verdicts' = verdicts + 1
  /\ validated' = IF status = "validated" THEN validated \cup {f} ELSE validated \ {f}
  /\ hidden' = IF status = "hidden" THEN hidden \cup {f} ELSE hidden \ {f}
  /\ unannounced' = IF validated' = validated THEN unannounced ELSE unannounced \cup {subject[f]}
  /\ UNCHANGED <<bound, subject, moved, merges, event, tries, handler, judged, replays>>

(* DecideContradiction: any decision on any contradiction, decided or not.  *)
DecideContradiction(p, status) ==
  /\ dispute[p] # "none"
  /\ verdicts < bound.verdicts
  /\ verdicts' = verdicts + 1
  /\ dispute' = [dispute EXCEPT ![p] = status]
  /\ UNCHANGED <<bound, subject, moved, validated, hidden, merges, unannounced, event, tries, handler,
                 member, consensus, cell, replays>>

-----------------------------------------------------------------------------
(* The delivery ends.  One that was not acknowledged is the last if it was  *)
(* the last allowed.                                                       *)
Settle(d, acked) ==
  /\ event' = [event EXCEPT ![d] = IF acked THEN "done"
                                   ELSE IF tries[d] = bound.deliver THEN "dead"
                                   ELSE "pending"]
  /\ hand' = None
  /\ step' = "idle"
  /\ grouped' = {}

(* upsertClusters.  The statement raises if two facts of the event have one *)
(* cluster: ON CONFLICT DO UPDATE cannot touch a row twice.                 *)
SharesCluster(d) ==
  \E f, g \in Facts[d] : f # g /\ ClusterOf(f) = ClusterOf(g)

DeliverOnceMore(d) ==     \* mutant: one delivery too many
  event[d] = "pending" /\ tries[d] <= bound.deliver

Deliverable(d) == event[d] = "pending" /\ tries[d] < bound.deliver

Group(d) ==
  /\ step = "idle" /\ Deliverable(d)
  /\ tries' = [tries EXCEPT ![d] = @ + 1]
  /\ ~SharesCluster(d)
  /\ hand' = d
  /\ step' = "grouped"
  /\ grouped' = {<<ClusterOf(f), f>> : f \in Facts[d]} \ member
  /\ UNCHANGED <<bound, base, event, judged, replays>>

GroupRaises(d) ==
  /\ step = "idle" /\ Deliverable(d)
  /\ tries' = [tries EXCEPT ![d] = @ + 1]
  /\ SharesCluster(d)
  /\ event' = [event EXCEPT ![d] = IF tries'[d] = bound.deliver THEN "dead" ELSE "pending"]
  /\ UNCHANGED <<bound, base, handler, judged, replays>>

(* The clusters the facts of the event are in, by whichever event they came *)
(* to be in them.                                                           *)
Affected(d) == {c \in Clusters : \E f \in Facts[d] : <<c, f>> \in member'}

FactsOn(s) == {f \in AllFacts : subject[f] = s}

Cell(here) ==
  LET docs == Cardinality(DocumentsOf(here))
      good == Cardinality(here \cap validated)
  IN  IF here = {} THEN None
      ELSE [docs |-> docs, facts |-> Cardinality(here), validated |-> good,
            score |-> Min({10, 2 * docs + good}), gap |-> docs < 2]

CoverageOfEvent(s) == Cell(FactsOn(s) \cap Facts[hand])   \* mutant

(* rebuildCoverage counts every stored fact of a subject.                   *)
Coverage(s) == Cell(FactsOn(s))

DisputesOfEvent(d) ==     \* mutant: pairs both of whose facts the event brings
  {p \in Pairs : /\ p \subseteq Facts[d]
                 /\ \E c \in Affected(d) : \A f \in p : <<c, f>> \in member'
                 /\ \E f, g \in p : Sample[f].doc # Sample[g].doc /\ RangesDisjoint(f, g)}

NewDisputes(d) ==
  {p \in Pairs : /\ \E c \in Affected(d) : \A f \in p : <<c, f>> \in member'
                 /\ \E f, g \in p : Sample[f].doc # Sample[g].doc /\ RangesDisjoint(f, g)}

SuspectAgain(p, found) == IF p \in found THEN "suspected" ELSE dispute[p]   \* mutant

(* ON CONFLICT DO NOTHING: a contradiction already there keeps its status.  *)
Suspect(p, found) == IF p \in found /\ dispute[p] = "none" THEN "suspected" ELSE dispute[p]

(* computeConsensus, generateContradictions, rebuildCoverage, commit.       *)
Judge ==
  /\ step = "grouped"
  /\ step' = "judged"
  /\ grouped' = {}
  /\ member' = member \cup grouped
  /\ consensus' = [c \in Clusters |->
       IF c \in Affected(hand) THEN ComputeConsensus({f \in AllFacts : <<c, f>> \in member'})
       ELSE consensus[c]]
  /\ dispute' = [p \in Pairs |-> Suspect(p, NewDisputes(hand))]
  /\ LET rebuilt == {subject[f] : f \in Facts[hand]} IN
       /\ cell' = [s \in Slugs |-> IF s \in rebuilt THEN Coverage(s) ELSE cell[s]]
       /\ unannounced' = unannounced \ rebuilt
  /\ UNCHANGED <<bound, subject, moved, validated, hidden, merges, verdicts, event, tries, hand,
                 replays>>

(* epistemic.updated is published, or Nack; the Ack may not arrive.         *)
Announce(published, acked) ==
  /\ step = "judged"
  /\ acked => published
  /\ Settle(hand, acked)
  /\ UNCHANGED <<bound, base, tries, judged, replays>>

(* An error of the database or the death of the process: rollback.          *)
Abort ==
  /\ step = "grouped"
  /\ Settle(hand, FALSE)
  /\ UNCHANGED <<bound, base, tries, judged, replays>>

(* A graceful stop deletes the durable; the next start reads all history.   *)
Replay ==
  /\ step = "idle"
  /\ replays < bound.replays
  /\ replays' = replays + 1
  /\ event' = [d \in Docs |-> IF event[d] = "none" THEN "none" ELSE "pending"]
  /\ tries' = [d \in Docs |-> 0]
  /\ UNCHANGED <<bound, base, handler, judged>>

Handle ==
  \/ \E d \in Docs : Group(d) \/ GroupRaises(d)
  \/ Judge
  \/ Abort
  \/ \E published, acked \in BOOLEAN : Announce(published, acked)

-----------------------------------------------------------------------------
(* Whatever the order of the events, redeliveries and merges between them:  *)
(* the facts of a handled event are in clusters, every cluster's consensus  *)
(* is the verdict on all its present members, and no two of them from       *)
(* different documents have disjoint ranges, however small the gap, without *)
(* a recorded contradiction.                                                *)
ClustersAreJudged ==
  /\ \A d \in Docs : event[d] = "done" =>
        \A f \in Facts[d] : \E c \in Clusters : <<c, f>> \in member
  /\ \A c \in {m[1] : m \in member} : consensus[c] = ComputeConsensus(Members(c))
  /\ \A c \in Clusters : \A f, g \in Members(c) :
        Sample[f].doc # Sample[g].doc /\ RangesDisjoint(f, g) => dispute[{f, g}] # "none"

(* A coverage cell differs from the facts only while an event that will     *)
(* rebuild it is outstanding or dead, or where a merge or a verdict, which  *)
(* no event announces, changed the facts since.                             *)
StaleCellIsExplained ==
  \A s \in Slugs :
    cell[s] # Cell(FactsOn(s)) =>
      \/ s \in unannounced
      \/ \E d \in Docs : /\ event[d] \in {"pending", "dead"}
                         /\ \E f \in Facts[d] : subject[f] = s

(* A cluster whose sources are said to agree holds no two facts whose       *)
(* ranges, points widened, have no value in common.                         *)
ConsensusMeansOverlap ==
  \A c \in {m[1] : m \in member} :
    consensus[c].verdict = "consensus" =>
      \A f, g \in Ranged(Members(c)) : Lo(f) <= Hi(g) /\ Lo(g) <= Hi(f)

(* The agreed range starts and ends where the sources, by weight, divide:   *)
(* at most half of the weight lies strictly below or above either end.      *)
AgreedRangeDividesWeight ==
  \A c \in {m[1] : m \in member} :
    LET S == Ranged(Members(c))
        Divides(v, end(_)) ==
          /\ 2 * WeightOf({f \in S : end(f) < v}) <= WeightOf(S)
          /\ 2 * WeightOf({f \in S : end(f) > v}) <= WeightOf(S)
    IN  S # {} => /\ Divides(consensus[c].agreed[1], Lo)
                  /\ Divides(consensus[c].agreed[2], Hi)

(* What sources are said to agree on can be relied on: they overlap, and the *)
(* range that is given for them lies where their weight divides.             *)
AgreementIsSound == ConsensusMeansOverlap /\ AgreedRangeDividesWeight

(* A decision of an expert is never undone by a recalculation: a            *)
(* contradiction that has been decided does not become suspected again.     *)
DecisionStands ==
  [][\A p \in Pairs : dispute[p] \notin {"none", "suspected"} =>
       dispute'[p] \notin {"none", "suspected"}]_epistemicVars
=============================================================================
