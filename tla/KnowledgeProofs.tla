-------------------------- MODULE KnowledgeProofs ---------------------------
(***************************************************************************)
(* What the knowledge base concludes, for any documents, facts, scenarios  *)
(* and bounds: the decisions of experts outlive every recalculation, every *)
(* cluster is judged on all its members, and a coverage cell is only stale *)
(* for a stated reason.  The answer cache keeps what the graph gave apart  *)
(* by access, and a stored answer lacks a fact only for a stated reason.   *)
(* Sources that are said to agree overlap, and the range they agree on is  *)
(* a weighted median of their bounds; these rest on facts about sums of    *)
(* weights over finite sets, proved by taking a least counterexample.      *)
(***************************************************************************)
EXTENDS AnswerCache, FiniteSetTheorems, TLAPS

-----------------------------------------------------------------------------
(* The decisions of experts.                                               *)
HasDispute == dispute = [p \in Pairs |-> dispute[p]]

Stands == \A p \in Pairs : dispute[p] \notin {"none", "suspected"} =>
            dispute'[p] \notin {"none", "suspected"}

(* Of the statements of a recalculation only the one that inserts           *)
(* contradictions touches them, and it leaves the status of those there.    *)
LEMMA JudgeKeepsDecisions ==
  ASSUME HasDispute, Judge
  PROVE  HasDispute' /\ Stands
<1>1. dispute' = [p \in Pairs |-> Suspect(p, NewDisputes(hand))]
  BY DEF Judge
<1>2. HasDispute'
  BY <1>1 DEF HasDispute
<1>3. Stands
  BY <1>1 DEF Stands, Suspect
<1> QED
  BY <1>2, <1>3

LEMMA DecideKeepsDecisions ==
  ASSUME HasDispute, NEW q \in Pairs, NEW s \in Statuses \ {"suspected"}, DecideContradiction(q, s)
  PROVE  HasDispute' /\ Stands
<1>1. dispute' = [dispute EXCEPT ![q] = s] /\ s \notin {"none", "suspected"}
  BY DEF DecideContradiction, Statuses
<1>2. dispute' = [p \in Pairs |-> IF p = q THEN s ELSE dispute[p]]
  BY <1>1 DEF HasDispute
<1> QED
  BY <1>1, <1>2 DEF HasDispute, Stands

(* Every other step leaves the contradictions as they are.                  *)
LEMMA StepKeepsDecisions ==
  ASSUME HasDispute, [Next]_vars
  PROVE  HasDispute' /\ [Stands]_epistemicVars
<1>1. CASE UNCHANGED dispute
  <2>1. HasDispute' /\ Stands
    BY <1>1 DEF HasDispute, Stands
  <2> QED
    BY <2>1
<1>2. CASE Judge
  BY <1>2, JudgeKeepsDecisions
<1>3. CASE \E p \in Pairs, s \in Statuses \ {"suspected"} : DecideContradiction(p, s)
  BY <1>3, DecideKeepsDecisions
<1>4. UNCHANGED dispute \/ Judge
        \/ \E p \in Pairs, s \in Statuses \ {"suspected"} : DecideContradiction(p, s)
  <2>1. CASE UNCHANGED vars
    BY <2>1 DEF vars, epistemicVars, judged
  <2>2. CASE \E d \in Docs : Commit(d)
    BY <2>2 DEF Commit, CommitFacts, judged
  <2>3. CASE Handle
    <3>1. CASE \E d \in Docs : Group(d) \/ GroupRaises(d)
      BY <3>1 DEF Group, GroupRaises, judged
    <3>2. CASE Abort \/ \E published, acked \in BOOLEAN : Announce(published, acked)
      BY <3>2 DEF Abort, Announce, judged
    <3> QED
      BY <2>3, <3>1, <3>2 DEF Handle
  <2>4. CASE Replay
    BY <2>4 DEF Replay, judged
  <2>5. CASE \E x, y \in Slugs : MergeSubjects(x, y)
    BY <2>5 DEF MergeSubjects, judged
  <2>6. CASE \E f \in AllFacts, s \in FactStatuses : UpdateFactStatus(f, s)
    BY <2>6 DEF UpdateFactStatus, judged
  <2>7. CASE \E d \in Docs, deleted, acked \in BOOLEAN : Invalidate(d, deleted, acked)
    BY <2>7 DEF Invalidate, epistemicVars, judged
  <2>8. CASE \E k \in Keys : Expire(k)
    BY <2>8 DEF Expire, epistemicVars, judged
  <2>9. CASE \E a \in Askers, q \in Questions, l \in DOMAIN Levels : Lookup(a, q, l)
    BY <2>9 DEF Lookup, epistemicVars, judged
  <2>10. CASE \E a \in Askers : ExpandEntityIDs(a) \/ ReadFacts(a) \/ ReadConsensus(a)
    BY <2>10 DEF ExpandEntityIDs, ReadFacts, ReadConsensus, epistemicVars, judged
  <2>11. CASE \E a \in Askers : augmentFacts(a) \/ Put(a) \/ Drop(a)
    BY <2>11 DEF augmentFacts, Put, Drop, epistemicVars, judged
  <2> QED
    BY <2>1, <2>2, <2>3, <2>4, <2>5, <2>6, <2>7, <2>8, <2>9, <2>10, <2>11 DEF Next
<1> QED
  BY <1>1, <1>2, <1>3, <1>4

(* No recalculation, merge, redelivery or replay turns a decided            *)
(* contradiction back into a suspected one.                                 *)
THEOREM DecisionsStand == Spec => DecisionStands
<1>1. Init => HasDispute
  BY DEF Init, EpistemicInit, HasDispute
<1>2. HasDispute /\ [Next]_vars => HasDispute'
  BY StepKeepsDecisions
<1>3. HasDispute /\ [Next]_vars => [Stands]_epistemicVars
  BY StepKeepsDecisions
<1>4. [Stands]_epistemicVars => 
      [\A p \in Pairs : dispute[p] \notin {"none", "suspected"} =>
         dispute'[p] \notin {"none", "suspected"}]_epistemicVars
  BY DEF Stands
<1> QED
  BY <1>1, <1>2, <1>3, <1>4, PTL DEF Spec, DecisionStands

-----------------------------------------------------------------------------
(* Clusters and contradictions.                                             *)
Joined(f, pairs) == \E c \in Clusters : <<c, f>> \in pairs

(* What the consumer relies on: the facts of an event that was sent are      *)
(* rows, and what its open transaction has written is of its event.          *)
Store ==
  /\ subject = [f \in AllFacts |-> subject[f]]
  /\ event = [d \in Docs |-> event[d]]
  /\ \A d \in Docs : \A f \in Facts[d] :
       IF event[d] = "none" THEN subject[f] = None ELSE subject[f] \in Slugs

Consumer ==
  /\ step \in {"idle", "grouped", "judged"}
  /\ step # "idle" => hand \in Docs /\ event[hand] = "pending"
  /\ step = "grouped" =>
       /\ \A m \in grouped : m \in Clusters \X Facts[hand]
       /\ \A f \in Facts[hand] : Joined(f, member \cup grouped)
  /\ step = "judged" => \A f \in Facts[hand] : Joined(f, member)

Verdicts ==
  /\ HasDispute
  /\ member \subseteq Clusters \X AllFacts
  /\ consensus = [c \in Clusters |-> consensus[c]]
  /\ ClustersAreJudged

JudgedInv == Store /\ Consumer /\ Verdicts

LEMMA FactsHaveOneDoc ==
  /\ \A d \in Docs : \A f \in Facts[d] : f \in AllFacts /\ Sample[f].doc = d
  /\ \A f \in AllFacts : \E d \in Docs : f \in Facts[d]
BY EpistemicAssumption DEF AllFacts

LEMMA TwoFactsArePair ==
  ASSUME NEW f \in AllFacts, NEW g \in AllFacts, f # g
  PROVE  {f, g} \in Pairs
<1>1. IsFiniteSet({f}) /\ Cardinality({f}) = 1
  BY FS_Singleton
<1>2. Cardinality({f} \cup {g}) = 2
  BY <1>1, FS_AddElement
<1>3. {f} \cup {g} = {f, g}
  OBVIOUS
<1> QED
  BY <1>2, <1>3 DEF Pairs

(* The recalculation: a cluster that gets a member is judged again on all   *)
(* its members, and every disjoint pair in it is compared again.            *)
LEMMA JudgeJudges ==
  ASSUME JudgedInv, Judge
  PROVE  JudgedInv'
<1>1. /\ hand \in Docs /\ event[hand] = "pending"
      /\ \A m \in grouped : m \in Clusters \X Facts[hand]
      /\ \A f \in Facts[hand] : Joined(f, member \cup grouped)
  BY DEF JudgedInv, Consumer, Judge
<1>2. /\ step' = "judged" /\ member' = member \cup grouped
      /\ UNCHANGED <<subject, event, hand>>
  BY DEF Judge
<1>3. Store'
  BY <1>2 DEF JudgedInv, Store
<1>4. Consumer'
  BY <1>1, <1>2 DEF Consumer, Joined
<1>5. member' \subseteq Clusters \X AllFacts
  BY <1>1, <1>2, FactsHaveOneDoc DEF JudgedInv, Verdicts
<1>6. \A c \in Clusters, f \in AllFacts :
        <<c, f>> \in member' => <<c, f>> \in member \/ c \in Affected(hand)
  <2> SUFFICES ASSUME NEW c \in Clusters, NEW f \in AllFacts, <<c, f>> \in grouped
               PROVE  c \in Affected(hand)
    BY <1>2
  <2>1. f \in Facts[hand]
    BY <1>1
  <2> QED
    BY <1>2, <2>1 DEF Affected
<1>7. consensus' = [c \in Clusters |->
        IF c \in Affected(hand) THEN ComputeConsensus({f \in AllFacts : <<c, f>> \in member'})
        ELSE consensus[c]]
  BY DEF Judge
<1>8. \A c \in Clusters : {f \in AllFacts : <<c, f>> \in member'} = Members(c)'
  BY DEF Members
<1>9. ASSUME NEW c \in {m[1] : m \in member'}
      PROVE  consensus'[c] = ComputeConsensus(Members(c))'
  <2>1. PICK m \in member' : c = m[1]
    OBVIOUS
  <2>2. c \in Clusters /\ m[2] \in AllFacts /\ m = <<c, m[2]>>
    BY <1>5, <2>1
  <2>3. CASE c \in Affected(hand)
    BY <1>7, <1>8, <2>2, <2>3 DEF ComputeConsensus
  <2>4. CASE c \notin Affected(hand)
    <3>1. m \in member /\ c \in {n[1] : n \in member}
      BY <1>6, <2>1, <2>2, <2>4
    <3>2. Members(c)' = Members(c)
      BY <1>2, <1>6, <2>2, <2>4 DEF Members
    <3>3. consensus[c] = ComputeConsensus(Members(c))
      BY <3>1 DEF JudgedInv, Verdicts, ClustersAreJudged
    <3> QED
      BY <1>7, <2>2, <2>4, <3>2, <3>3
  <2> QED
    BY <2>3, <2>4
<1>10. dispute' = [p \in Pairs |-> Suspect(p, NewDisputes(hand))]
  BY DEF Judge
<1>11. ASSUME NEW c \in Clusters, NEW f \in Members(c)', NEW g \in Members(c)',
              Sample[f].doc # Sample[g].doc, RangesDisjoint(f, g)
       PROVE  dispute'[{f, g}] # "none"
  <2>1. f \in AllFacts /\ g \in AllFacts /\ <<c, f>> \in member' /\ <<c, g>> \in member'
    BY DEF Members
  <2>2. {f, g} \in Pairs
    BY <1>11, <2>1, TwoFactsArePair
  <2>3. CASE c \in Affected(hand)
    <3>1. {f, g} \in NewDisputes(hand)
      BY <1>11, <2>1, <2>2, <2>3 DEF NewDisputes
    <3> QED
      BY <1>10, <2>2, <3>1 DEF Suspect
  <2>4. CASE c \notin Affected(hand)
    <3>1. f \in Members(c) /\ g \in Members(c)
      BY <1>6, <2>1, <2>4 DEF Members
    <3>2. dispute[{f, g}] # "none"
      BY <1>11, <3>1 DEF JudgedInv, Verdicts, ClustersAreJudged
    <3> QED
      BY <1>10, <2>2, <3>2 DEF Suspect
  <2> QED
    BY <2>3, <2>4
<1>12. \A d \in Docs : event'[d] = "done" =>
         \A f \in Facts[d] : \E c \in Clusters : <<c, f>> \in member'
  BY <1>2 DEF JudgedInv, Verdicts, ClustersAreJudged
<1>13. ClustersAreJudged'
  BY <1>9, <1>11, <1>12 DEF ClustersAreJudged
<1>14. HasDispute' /\ consensus' = [c \in Clusters |-> consensus'[c]]
  BY <1>7, <1>10 DEF HasDispute
<1> QED
  BY <1>3, <1>4, <1>5, <1>13, <1>14 DEF JudgedInv, Verdicts

(* Where no event becomes handled, verdicts that stay as they are stay right. *)
LEMMA SameVerdicts ==
  ASSUME Verdicts, UNCHANGED judged, \A d \in Docs : event'[d] = "done" => event[d] = "done"
  PROVE  Verdicts'
<1>1. UNCHANGED <<member, consensus, dispute>>
  BY DEF judged
<1>2. \A c : Members(c)' = Members(c)
  BY <1>1 DEF Members
<1>3. \A d \in Docs : event'[d] = "done" =>
         \A f \in Facts[d] : \E c \in Clusters : <<c, f>> \in member'
  BY <1>1 DEF Verdicts, ClustersAreJudged
<1>4. \A c \in {m[1] : m \in member'} : consensus'[c] = ComputeConsensus(Members(c))'
  BY <1>1 DEF Verdicts, ClustersAreJudged, Members
<1>5. \A c \in Clusters : \A f, g \in Members(c)' :
        Sample[f].doc # Sample[g].doc /\ RangesDisjoint(f, g) => dispute'[{f, g}] # "none"
  BY <1>1, <1>2 DEF Verdicts, ClustersAreJudged
<1>6. ClustersAreJudged'
  BY <1>3, <1>4, <1>5 DEF ClustersAreJudged
<1> QED
  BY <1>1, <1>6 DEF Verdicts, HasDispute

(* Catalog commits: the facts are new and their event is not handled.       *)
LEMMA CommitKeepsJudged ==
  ASSUME JudgedInv, NEW d \in Docs, CommitFacts(d)
  PROVE  JudgedInv'
<1>1. /\ event[d] = "none"
      /\ subject' = [f \in AllFacts |-> IF f \in Facts[d] THEN Home[f] ELSE subject[f]]
      /\ event' = [e \in Docs |-> IF e = d THEN "pending" ELSE event[e]]
      /\ UNCHANGED <<handler, judged>>
  BY DEF CommitFacts, JudgedInv, Store
<1>2. Store'
  <2>1. ASSUME NEW e \in Docs, NEW f \in Facts[e]
        PROVE  IF event'[e] = "none" THEN subject'[f] = None ELSE subject'[f] \in Slugs
    <3>1. f \in AllFacts /\ (f \in Facts[d] => e = d) /\ Home[f] \in Slugs
      BY FactsHaveOneDoc, EpistemicAssumption
    <3> QED
      BY <1>1, <3>1 DEF JudgedInv, Store
  <2>2. subject' = [f \in AllFacts |-> subject'[f]] /\ event' = [e \in Docs |-> event'[e]]
    BY <1>1
  <2> QED
    BY <2>1, <2>2 DEF Store
<1>3. Consumer'
  BY <1>1 DEF JudgedInv, Consumer, Joined, handler, judged
<1>4. Verdicts'
  BY <1>1, SameVerdicts DEF JudgedInv
<1> QED
  BY <1>2, <1>3, <1>4 DEF JudgedInv

LEMMA MergeKeepsJudged ==
  ASSUME JudgedInv, NEW x \in Slugs, NEW y \in Slugs, MergeSubjects(x, y)
  PROVE  JudgedInv'
<1>1. PICK seen \in SUBSET {f \in AllFacts : subject[f] = x} :
        subject' = [f \in AllFacts |-> IF f \in seen THEN y ELSE subject[f]]
  BY DEF MergeSubjects
<1>2. UNCHANGED <<event, handler, judged>>
  BY DEF MergeSubjects
<1>3. Store'
  <2>1. None \notin Slugs /\ \A e \in Docs : \A f \in Facts[e] : f \in AllFacts
    BY EpistemicAssumption, FactsHaveOneDoc
  <2> QED
    BY <1>1, <1>2, <2>1 DEF JudgedInv, Store
<1>4. Consumer'
  BY <1>2 DEF JudgedInv, Consumer, Joined, handler, judged
<1>5. Verdicts'
  BY <1>2, SameVerdicts DEF JudgedInv
<1> QED
  BY <1>3, <1>4, <1>5 DEF JudgedInv

LEMMA DecisionKeepsJudged ==
  ASSUME JudgedInv, NEW p \in Pairs, NEW s \in Statuses \ {"suspected"}, DecideContradiction(p, s)
  PROVE  JudgedInv'
<1>1. /\ dispute' = [q \in Pairs |-> IF q = p THEN s ELSE dispute[q]]
      /\ s # "none"
      /\ UNCHANGED <<subject, event, handler, member, consensus>>
  BY DEF DecideContradiction, JudgedInv, Verdicts, HasDispute, Statuses
<1>2. Store' /\ Consumer'
  BY <1>1 DEF JudgedInv, Store, Consumer, Joined, handler
<1>3. \A q \in Pairs : dispute[q] # "none" => dispute'[q] # "none"
  BY <1>1
<1>4. ClustersAreJudged'
  <2>1. ASSUME NEW c \in Clusters, NEW f \in Members(c)', NEW g \in Members(c)',
               Sample[f].doc # Sample[g].doc, RangesDisjoint(f, g)
        PROVE  dispute'[{f, g}] # "none"
    <3>1. f \in Members(c) /\ g \in Members(c) /\ f \in AllFacts /\ g \in AllFacts /\ f # g
      BY <1>1, <2>1 DEF Members
    <3>2. {f, g} \in Pairs
      BY <3>1, TwoFactsArePair
    <3> QED
      BY <1>3, <2>1, <3>1, <3>2 DEF JudgedInv, Verdicts, ClustersAreJudged
  <2>2. /\ \A d \in Docs : event'[d] = "done" =>
            \A f \in Facts[d] : \E c \in Clusters : <<c, f>> \in member'
        /\ \A c \in {m[1] : m \in member'} : consensus'[c] = ComputeConsensus(Members(c))'
    BY <1>1 DEF JudgedInv, Verdicts, ClustersAreJudged, Members
  <2> QED
    BY <2>1, <2>2 DEF ClustersAreJudged
<1>5. Verdicts'
  BY <1>1, <1>4 DEF JudgedInv, Verdicts, HasDispute
<1> QED
  BY <1>2, <1>5 DEF JudgedInv

LEMMA GroupKeepsJudged ==
  ASSUME JudgedInv, NEW d \in Docs, Group(d)
  PROVE  JudgedInv'
<1>1. /\ event[d] = "pending" /\ hand' = d /\ step' = "grouped"
      /\ grouped' = {<<ClusterOf(f), f>> : f \in Facts[d]} \ member
      /\ UNCHANGED <<subject, event, judged>>
  BY DEF Group, Deliverable, base
<1>2. \A f \in Facts[d] : ClusterOf(f) \in Clusters
  BY <1>1, FactsHaveOneDoc, EpistemicAssumption DEF JudgedInv, Store, ClusterOf, Clusters
<1>3. \A m \in grouped' : m \in Clusters \X Facts[d]
  BY <1>1, <1>2
<1>4. \A f \in Facts[d] : Joined(f, member' \cup grouped')
  BY <1>1, <1>2 DEF Joined, judged
<1>5. Consumer'
  BY <1>1, <1>3, <1>4 DEF Consumer, Joined
<1>6. Store'
  BY <1>1 DEF JudgedInv, Store
<1>7. Verdicts'
  BY <1>1, SameVerdicts DEF JudgedInv
<1> QED
  BY <1>5, <1>6, <1>7 DEF JudgedInv

(* Steps that only move events on, from one that was sent to one that is     *)
(* done only with its facts in clusters.                                    *)
LEMMA EventsKeepJudged ==
  ASSUME JudgedInv, UNCHANGED <<subject, judged>>, event' = [d \in Docs |-> event'[d]],
         \A d \in Docs : /\ (event[d] = "none") = (event'[d] = "none")
                         /\ event'[d] = "done" /\ event[d] # "done" =>
                              step = "judged" /\ d = hand,
         step' = "idle"
  PROVE  JudgedInv'
<1>1. Store'
  BY DEF JudgedInv, Store
<1>2. Consumer'
  BY DEF Consumer
<1>3. ASSUME NEW d \in Docs, event'[d] = "done", NEW f \in Facts[d]
      PROVE  \E c \in Clusters : <<c, f>> \in member'
  <2>1. CASE event[d] = "done"
    BY <1>3, <2>1 DEF JudgedInv, Verdicts, ClustersAreJudged, judged
  <2>2. CASE event[d] # "done"
    BY <1>3, <2>2 DEF JudgedInv, Consumer, Joined, judged
  <2> QED
    BY <2>1, <2>2
<1>4. Verdicts'
  BY <1>3 DEF JudgedInv, Verdicts, HasDispute, ClustersAreJudged, Members, judged
<1> QED
  BY <1>1, <1>2, <1>4 DEF JudgedInv

LEMMA SettleKeepsJudged ==
  ASSUME JudgedInv, NEW acked, Settle(hand, acked), step # "idle", acked => step = "judged",
         UNCHANGED <<subject, judged>>
  PROVE  JudgedInv'
<1>1. PICK s \in {"done", "dead", "pending"} : 
        event' = [event EXCEPT ![hand] = s] /\ (s = "done" => acked)
  BY DEF Settle
<1>2. event' = [d \in Docs |-> IF d = hand THEN s ELSE event[d]] /\ event[hand] = "pending"
  BY <1>1 DEF JudgedInv, Store, Consumer
<1>3. step' = "idle"
  BY DEF Settle
<1> QED
  BY <1>1, <1>2, <1>3, EventsKeepJudged

LEMMA HandleKeepsJudged ==
  ASSUME JudgedInv, Handle \/ Replay
  PROVE  JudgedInv'
<1>1. ASSUME NEW d \in Docs, GroupRaises(d) PROVE JudgedInv'
  <2>1. PICK s \in {"dead", "pending"} : event' = [event EXCEPT ![d] = s]
    BY <1>1 DEF GroupRaises
  <2>2. event' = [e \in Docs |-> IF e = d THEN s ELSE event[e]] /\ event[d] = "pending"
    BY <1>1, <2>1 DEF GroupRaises, Deliverable, JudgedInv, Store
  <2>3. UNCHANGED <<subject, judged>> /\ step' = "idle"
    BY <1>1 DEF GroupRaises, base, handler
  <2> QED
    BY <2>2, <2>3, EventsKeepJudged
<1>2. CASE Abort
  BY <1>2, SettleKeepsJudged DEF Abort, base
<1>3. ASSUME NEW published, NEW acked, Announce(published, acked) PROVE JudgedInv'
  BY <1>3, SettleKeepsJudged DEF Announce, base
<1>4. CASE Replay
  <2>1. /\ event' = [d \in Docs |-> IF event[d] = "none" THEN "none" ELSE "pending"]
        /\ UNCHANGED <<subject, judged>> /\ step' = "idle"
    BY <1>4 DEF Replay, base, handler
  <2> QED
    BY <2>1, EventsKeepJudged
<1> QED
  BY <1>1, <1>2, <1>3, <1>4, GroupKeepsJudged, JudgeJudges DEF Handle

LEMMA StepKeepsJudged == JudgedInv /\ [Next]_vars => JudgedInv'
<1> SUFFICES ASSUME JudgedInv, [Next]_vars PROVE JudgedInv'
  OBVIOUS
<1> DEFINE same == UNCHANGED <<subject, event, handler, judged>>
<1>1. CASE same
  <2>1. Store' /\ Consumer'
    BY <1>1 DEF JudgedInv, Store, Consumer, Joined, handler, judged
  <2>2. Verdicts'
    BY <1>1, SameVerdicts DEF JudgedInv
  <2> QED
    BY <2>1, <2>2 DEF JudgedInv
<1>2. CASE UNCHANGED epistemicVars
  BY <1>1, <1>2 DEF epistemicVars, base
<1>3. CASE \E d \in Docs : Commit(d)
  BY <1>3, CommitKeepsJudged DEF Commit
<1>4. CASE \E x, y \in Slugs : MergeSubjects(x, y)
  BY <1>4, MergeKeepsJudged
<1>5. CASE \E f \in AllFacts, s \in FactStatuses : UpdateFactStatus(f, s)
  BY <1>1, <1>5 DEF UpdateFactStatus
<1>6. CASE \E p \in Pairs, s \in Statuses \ {"suspected"} : DecideContradiction(p, s)
  BY <1>6, DecisionKeepsJudged
<1>7. CASE Handle \/ Replay
  BY <1>7, HandleKeepsJudged
<1>8. CASE \E d \in Docs, deleted, acked \in BOOLEAN : Invalidate(d, deleted, acked)
  BY <1>2, <1>8 DEF Invalidate
<1>9. CASE \E k \in Keys : Expire(k)
  BY <1>2, <1>9 DEF Expire
<1>10. CASE \E a \in Askers, q \in Questions, l \in DOMAIN Levels : Lookup(a, q, l)
  BY <1>2, <1>10 DEF Lookup
<1>11. CASE \E a \in Askers : ExpandEntityIDs(a) \/ ReadFacts(a) \/ ReadConsensus(a)
  BY <1>2, <1>11 DEF ExpandEntityIDs, ReadFacts, ReadConsensus
<1>12. CASE \E a \in Askers : augmentFacts(a) \/ Put(a) \/ Drop(a)
  BY <1>2, <1>12 DEF augmentFacts, Put, Drop
<1> QED
  BY <1>2, <1>3, <1>4, <1>5, <1>6, <1>7, <1>8, <1>9, <1>10, <1>11, <1>12 DEF Next, vars

LEMMA JudgedInitially == Init => JudgedInv
<1> SUFFICES ASSUME Init PROVE JudgedInv
  OBVIOUS
<1>1. Store /\ Consumer
  BY FactsHaveOneDoc DEF Init, EpistemicInit, Store, Consumer
<1>2. Verdicts
  BY DEF Init, EpistemicInit, Verdicts, HasDispute, ClustersAreJudged, Members
<1> QED
  BY <1>1, <1>2 DEF JudgedInv

(* Whatever the order of events, redeliveries, replays and merges: handled   *)
(* facts are in clusters, a cluster's verdict is that on all its members,    *)
(* and disjoint members from different documents have a contradiction.       *)
THEOREM ClustersAreAlwaysJudged == Spec => []ClustersAreJudged
<1>1. JudgedInv => ClustersAreJudged
  BY DEF JudgedInv, Verdicts
<1> QED
  BY <1>1, JudgedInitially, StepKeepsJudged, PTL DEF Spec

-----------------------------------------------------------------------------
(* Coverage cells.                                                          *)
Owes(d, s) == event[d] \in {"pending", "dead"} /\ \E f \in Facts[d] : subject[f] = s

CellIsRight(s) == cell[s] = Cell(FactsOn(s)) \/ s \in unannounced

(* Once the open transaction has committed, the cells of its event's         *)
(* subjects no longer count on that event.                                  *)
CellInv ==
  /\ Store
  /\ Consumer
  /\ cell = [s \in Slugs |-> cell[s]]
  /\ \A s \in Slugs : CellIsRight(s) \/ \E d \in Docs : Owes(d, s)
  /\ step = "judged" =>
       \A s \in Slugs : CellIsRight(s) \/ ~Owes(hand, s) \/ \E d \in Docs \ {hand} : Owes(d, s)

LEMMA CommitKeepsCells ==
  ASSUME CellInv, Store', Consumer', NEW d \in Docs, CommitFacts(d)
  PROVE  CellInv'
<1>1. /\ event[d] = "none"
      /\ subject' = [f \in AllFacts |-> IF f \in Facts[d] THEN Home[f] ELSE subject[f]]
      /\ event' = [e \in Docs |-> IF e = d THEN "pending" ELSE event[e]]
      /\ UNCHANGED <<cell, unannounced, validated, step, hand>>
  BY DEF CommitFacts, CellInv, Store, handler, judged
<1>2. \A e \in Docs : \A f \in Facts[e] : f \in AllFacts /\ (f \in Facts[d] => e = d)
  BY FactsHaveOneDoc
<1>3. \A e \in Docs \ {d}, s \in Slugs : Owes(e, s) = Owes(e, s)'
  BY <1>1, <1>2 DEF Owes
<1>4. \A s \in Slugs : ~Owes(d, s)
  BY <1>1 DEF Owes
<1>5. ASSUME NEW s \in Slugs, ~Owes(d, s)' PROVE CellIsRight(s)' = CellIsRight(s)
  <2>1. \A f \in Facts[d] : subject'[f] # s /\ subject[f] # s
    <3>1. \A f \in Facts[d] : subject'[f] # s
      BY <1>1, <1>5 DEF Owes
    <3>2. None \notin Slugs
      BY EpistemicAssumption
    <3> QED
      BY <1>1, <3>1, <3>2 DEF CellInv, Store
  <2>2. FactsOn(s)' = FactsOn(s)
    BY <1>1, <2>1 DEF FactsOn
  <2> QED
    BY <1>1, <2>2 DEF CellIsRight, Cell
<1>6. \A s \in Slugs : CellIsRight(s)' \/ \E e \in Docs : Owes(e, s)'
  BY <1>3, <1>4, <1>5 DEF CellInv
<1>7. ASSUME step' = "judged", NEW s \in Slugs
      PROVE  CellIsRight(s)' \/ (\E e \in Docs \ {hand'} : Owes(e, s)') \/ ~Owes(hand, s)'
  <2>1. hand \in Docs /\ hand # d /\ hand' = hand
    BY <1>1, <1>7 DEF CellInv, Consumer
  <2>2. CellIsRight(s) \/ (\E e \in Docs \ {hand} : Owes(e, s)) \/ ~Owes(hand, s)
    BY <1>1, <1>7 DEF CellInv
  <2>3. Owes(hand, s)' = Owes(hand, s)
    BY <1>1, <1>2, <2>1 DEF Owes
  <2> QED
    BY <1>3, <1>4, <1>5, <2>1, <2>2, <2>3
<1> QED
  BY <1>1, <1>6, <1>7 DEF CellInv

(* Where the facts of a subject change, or their validation, it is noted.   *)
LEMMA NotedKeepsCells ==
  ASSUME CellInv, Store', Consumer', UNCHANGED <<event, step, hand, cell>>,
         NEW touched \in SUBSET Slugs, unannounced' = unannounced \cup touched,
         \A f \in AllFacts : \/ subject'[f] = subject[f]
                             \/ subject[f] \in touched /\ subject'[f] \in touched,
         \A f \in AllFacts : subject[f] \in touched \/ (f \in validated) = (f \in validated')
  PROVE  CellInv'
<1>1. ASSUME NEW s \in Slugs PROVE CellIsRight(s) => CellIsRight(s)'
  <2>1. CASE s \in touched
    BY <2>1 DEF CellIsRight
  <2>2. CASE s \notin touched
    <3>1. FactsOn(s)' = FactsOn(s) /\ FactsOn(s) \cap validated' = FactsOn(s) \cap validated
      BY <2>2 DEF FactsOn
    <3> QED
      BY <3>1 DEF CellIsRight, Cell
  <2> QED
    BY <2>1, <2>2
<1>2. ASSUME NEW s \in Slugs, s \notin touched, NEW d \in Docs PROVE Owes(d, s)' = Owes(d, s)
  BY <1>2, FactsHaveOneDoc DEF Owes
<1>3. \A s \in touched : CellIsRight(s)'
  BY DEF CellIsRight
<1>4. \A s \in Slugs : CellIsRight(s)' \/ \E d \in Docs : Owes(d, s)'
  BY <1>1, <1>2, <1>3 DEF CellInv
<1>5. ASSUME step' = "judged", NEW s \in Slugs
      PROVE  CellIsRight(s)' \/ ~Owes(hand, s)' \/ \E d \in Docs \ {hand'} : Owes(d, s)'
  <2>1. hand \in Docs
    BY <1>5 DEF CellInv, Consumer
  <2> QED
    BY <1>1, <1>2, <1>3, <1>5, <2>1 DEF CellInv
<1> QED
  BY <1>4, <1>5 DEF CellInv

LEMMA MergeKeepsCells ==
  ASSUME CellInv, Store', Consumer', NEW x \in Slugs, NEW y \in Slugs, MergeSubjects(x, y)
  PROVE  CellInv'
<1>1. PICK seen \in SUBSET {f \in AllFacts : subject[f] = x} :
        /\ subject' = [f \in AllFacts |-> IF f \in seen THEN y ELSE subject[f]]
        /\ unannounced' = IF seen = {} THEN unannounced ELSE unannounced \cup {x, y}
  BY DEF MergeSubjects
<1>2. UNCHANGED <<event, step, hand, cell, validated>>
  BY DEF MergeSubjects, handler, judged
<1> DEFINE touched == IF seen = {} THEN {} ELSE {x, y}
<1>3. touched \in SUBSET Slugs /\ unannounced' = unannounced \cup touched
  BY <1>1
<1>4. \A f \in AllFacts : \/ subject'[f] = subject[f]
                          \/ subject[f] \in touched /\ subject'[f] \in touched
  BY <1>1
<1> QED
  BY <1>2, <1>3, <1>4, NotedKeepsCells

LEMMA StatusKeepsCells ==
  ASSUME CellInv, Store', Consumer', NEW f \in AllFacts, NEW s \in FactStatuses,
         UpdateFactStatus(f, s)
  PROVE  CellInv'
<1> DEFINE touched == IF validated' = validated THEN {} ELSE {subject[f]}
<1>1. /\ subject[f] # None
      /\ validated' = IF s = "validated" THEN validated \cup {f} ELSE validated \ {f}
      /\ unannounced' = IF validated' = validated THEN unannounced
                                                 ELSE unannounced \cup {subject[f]}
      /\ UNCHANGED <<subject, event, step, hand, cell>>
  BY DEF UpdateFactStatus, Stored, handler, judged
<1>2. touched \in SUBSET Slugs /\ unannounced' = unannounced \cup touched
  BY <1>1, FactsHaveOneDoc DEF CellInv, Store
<1>3. \A g \in AllFacts : subject[g] \in touched \/ (g \in validated) = (g \in validated')
  BY <1>1
<1> QED
  BY <1>1, <1>2, <1>3, NotedKeepsCells

(* The cells of the event's subjects are counted from all the facts.        *)
LEMMA JudgeKeepsCells ==
  ASSUME CellInv, Store', Consumer', Judge
  PROVE  CellInv'
<1> DEFINE rebuilt == {subject[f] : f \in Facts[hand]}
<1>1. /\ step' = "judged"
      /\ cell' = [s \in Slugs |-> IF s \in rebuilt THEN Coverage(s) ELSE cell[s]]
      /\ unannounced' = unannounced \ rebuilt
      /\ UNCHANGED <<subject, validated, event, hand>>
  BY DEF Judge
<1>2. \A s \in Slugs : Cell(FactsOn(s))' = Cell(FactsOn(s))
  BY <1>1 DEF Cell, FactsOn
<1>3. \A s \in Slugs : s \in rebuilt => CellIsRight(s)'
  BY <1>1, <1>2 DEF CellIsRight, Coverage
<1>4. \A s \in Slugs : s \notin rebuilt => CellIsRight(s)' = CellIsRight(s)
  BY <1>1, <1>2 DEF CellIsRight
<1>5. \A d \in Docs, s \in Slugs : Owes(d, s)' = Owes(d, s)
  BY <1>1 DEF Owes
<1>6. \A s \in Slugs : CellIsRight(s)' \/ \E d \in Docs : Owes(d, s)'
  BY <1>3, <1>4, <1>5 DEF CellInv
<1>7. ASSUME NEW s \in Slugs
      PROVE  CellIsRight(s)' \/ ~Owes(hand, s)' \/ \E d \in Docs \ {hand'} : Owes(d, s)'
  <2>1. CASE s \in rebuilt
    BY <1>3, <2>1
  <2>2. CASE s \notin rebuilt
    BY <1>1, <2>2 DEF Owes
  <2> QED
    BY <2>1, <2>2
<1> QED
  BY <1>1, <1>6, <1>7 DEF CellInv

(* Steps that only move events on keep what is owed, but for an event that   *)
(* is done after its transaction.                                           *)
LEMMA EventsKeepCells ==
  ASSUME CellInv, Store', Consumer', UNCHANGED <<subject, validated, unannounced, cell>>,
         \A d \in Docs : /\ event[d] \in {"pending", "dead"} =>
                              event'[d] \in {"pending", "dead"} \/ (step = "judged" /\ d = hand),
         step' # "judged"
  PROVE  CellInv'
<1>1. \A s \in Slugs : CellIsRight(s)' = CellIsRight(s)
  BY DEF CellIsRight, Cell, FactsOn
<1>2. \A d \in Docs, s \in Slugs : 
        Owes(d, s) => Owes(d, s)' \/ (step = "judged" /\ d = hand)
  BY DEF Owes
<1>3. \A s \in Slugs : CellIsRight(s)' \/ \E d \in Docs : Owes(d, s)'
  <2>1. CASE step # "judged"
    BY <1>1, <1>2, <2>1 DEF CellInv
  <2>2. CASE step = "judged"
    BY <1>1, <1>2, <2>2 DEF CellInv
  <2> QED
    BY <2>1, <2>2
<1> QED
  BY <1>3 DEF CellInv

LEMMA SettleKeepsCells ==
  ASSUME CellInv, Store', Consumer', NEW acked, Settle(hand, acked), step # "idle",
         acked => step = "judged", UNCHANGED <<base, judged>>
  PROVE  CellInv'
<1>1. PICK s \in {"done", "dead", "pending"} :
        event' = [event EXCEPT ![hand] = s] /\ (s = "done" => acked)
  BY DEF Settle
<1>2. event' = [d \in Docs |-> IF d = hand THEN s ELSE event[d]] /\ step' = "idle"
  BY <1>1 DEF CellInv, Store, Settle
<1> QED
  BY <1>1, <1>2, EventsKeepCells DEF base, judged

LEMMA HandleKeepsCells ==
  ASSUME CellInv, Store', Consumer', Handle \/ Replay
  PROVE  CellInv'
<1>1. ASSUME NEW d \in Docs, Group(d) PROVE CellInv'
  <2>1. step' = "grouped" /\ UNCHANGED <<base, event, judged>> /\ step = "idle"
    BY <1>1 DEF Group
  <2> QED
    BY <2>1, EventsKeepCells DEF base, judged
<1>2. ASSUME NEW d \in Docs, GroupRaises(d) PROVE CellInv'
  <2>1. PICK s \in {"dead", "pending"} : event' = [event EXCEPT ![d] = s]
    BY <1>2 DEF GroupRaises
  <2>2. event' = [e \in Docs |-> IF e = d THEN s ELSE event[e]]
    BY <2>1 DEF CellInv, Store
  <2>3. UNCHANGED <<base, judged>> /\ step' # "judged"
    BY <1>2 DEF GroupRaises, handler
  <2> QED
    BY <2>2, <2>3, EventsKeepCells DEF base, judged
<1>3. CASE Abort
  BY <1>3, SettleKeepsCells DEF Abort
<1>4. ASSUME NEW published, NEW acked, Announce(published, acked) PROVE CellInv'
  BY <1>4, SettleKeepsCells DEF Announce
<1>5. CASE Replay
  <2>1. /\ event' = [d \in Docs |-> IF event[d] = "none" THEN "none" ELSE "pending"]
        /\ UNCHANGED <<base, judged>> /\ step' # "judged"
    BY <1>5 DEF Replay, handler
  <2> QED
    BY <2>1, EventsKeepCells DEF base, judged
<1> QED
  BY <1>1, <1>2, <1>3, <1>4, <1>5, JudgeKeepsCells DEF Handle

LEMMA StepKeepsCells == JudgedInv /\ JudgedInv' /\ CellInv /\ [Next]_vars => CellInv'
<1> SUFFICES ASSUME CellInv, Store', Consumer', [Next]_vars PROVE CellInv'
  BY DEF JudgedInv
<1>1. CASE UNCHANGED <<event, step, hand, cell, subject, validated, unannounced>>
  <2>1. {} \in SUBSET Slugs /\ unannounced' = unannounced \cup {}
    BY <1>1
  <2>2. \A f \in AllFacts : subject'[f] = subject[f] /\ (f \in validated) = (f \in validated')
    BY <1>1
  <2> QED
    BY <1>1, <2>1, <2>2, NotedKeepsCells
<1>2. CASE UNCHANGED epistemicVars
  BY <1>1, <1>2 DEF epistemicVars, base, handler, judged
<1>3. CASE \E d \in Docs : Commit(d)
  BY <1>3, CommitKeepsCells DEF Commit
<1>4. CASE \E x, y \in Slugs : MergeSubjects(x, y)
  BY <1>4, MergeKeepsCells
<1>5. CASE \E f \in AllFacts, s \in FactStatuses : UpdateFactStatus(f, s)
  BY <1>5, StatusKeepsCells
<1>6. CASE \E p \in Pairs, s \in Statuses \ {"suspected"} : DecideContradiction(p, s)
  BY <1>1, <1>6 DEF DecideContradiction, handler
<1>7. CASE Handle \/ Replay
  BY <1>7, HandleKeepsCells
<1>8. CASE \E d \in Docs, deleted, acked \in BOOLEAN : Invalidate(d, deleted, acked)
  BY <1>2, <1>8 DEF Invalidate
<1>9. CASE \E k \in Keys : Expire(k)
  BY <1>2, <1>9 DEF Expire
<1>10. CASE \E a \in Askers, q \in Questions, l \in DOMAIN Levels : Lookup(a, q, l)
  BY <1>2, <1>10 DEF Lookup
<1>11. CASE \E a \in Askers : ExpandEntityIDs(a) \/ ReadFacts(a) \/ ReadConsensus(a)
  BY <1>2, <1>11 DEF ExpandEntityIDs, ReadFacts, ReadConsensus
<1>12. CASE \E a \in Askers : augmentFacts(a) \/ Put(a) \/ Drop(a)
  BY <1>2, <1>12 DEF augmentFacts, Put, Drop
<1> QED
  BY <1>2, <1>3, <1>4, <1>5, <1>6, <1>7, <1>8, <1>9, <1>10, <1>11, <1>12 DEF Next, vars

(* A coverage cell is out of date only while an event that will rebuild it   *)
(* is outstanding or dead, or where a merge or a verdict touched the subject. *)
THEOREM StaleCellsAreExplained == Spec => []StaleCellIsExplained
<1>1. Init => JudgedInv /\ CellInv
  <2> SUFFICES ASSUME Init PROVE JudgedInv /\ CellInv
    OBVIOUS
  <2>1. JudgedInv
    BY JudgedInitially
  <2>2. \A s \in Slugs : FactsOn(s) = {}
    BY EpistemicAssumption DEF Init, EpistemicInit, FactsOn
  <2>3. \A s \in Slugs : cell[s] = Cell(FactsOn(s))
    BY <2>2 DEF Init, EpistemicInit, Cell
  <2> QED
    BY <2>1, <2>3 DEF Init, EpistemicInit, JudgedInv, CellInv, CellIsRight
<1>2. CellInv => StaleCellIsExplained
  BY DEF CellInv, StaleCellIsExplained, CellIsRight, Owes
<1> QED
  BY <1>1, <1>2, StepKeepsJudged, StepKeepsCells, PTL DEF Spec

-----------------------------------------------------------------------------
(* The access of cached answers.                                            *)
VisibleAt(S, l) == \A f \in S : Access[Sample[f].doc] \in Levels[l]

CallFields == {"pc", "level", "question", "ids", "before", "found", "withheld", "crowded", "source"}

(* A reading x that found these facts met f: it took it or passed it over.  *)
Taken(f, found, x) ==
  \/ f \in found \cup x.withheld
  \/ f \in x.crowded /\ Cardinality(found) = FinalTop

(* What a call has read of the graph so far its asker may see.              *)
CallIsClean(r) ==
  /\ r.pc # "idle" => CallFields \subseteq DOMAIN r
  /\ r.pc \in {"evidence", "augment"} => VisibleAt(r.found, r.level)
  /\ (r.pc = "write" /\ r.source = "graph") => VisibleAt(r.found, r.level)

CacheInv ==
  /\ cache = [k \in Keys |-> cache[k]]
  /\ ask = [a \in Askers |-> ask[a]]
  /\ \A a \in Askers : CallIsClean(ask[a])
  /\ CachedForItsLevel

(* A step of one call that leaves the cache alone.                          *)
LEMMA CallSteps ==
  ASSUME CacheInv, NEW a \in Askers, NEW r, CallIsClean(r),
         ask' = [ask EXCEPT ![a] = r], UNCHANGED cache
  PROVE  CacheInv'
<1>1. ask' = [b \in Askers |-> IF b = a THEN r ELSE ask[b]]
  BY DEF CacheInv
<1>2. \A b \in Askers : CallIsClean(ask'[b])
  BY <1>1 DEF CacheInv
<1>3. CachedForItsLevel'
  BY DEF CacheInv, CachedForItsLevel
<1> QED
  BY <1>1, <1>2, <1>3 DEF CacheInv

(* A step that leaves the calls alone and at most deletes entries.          *)
LEMMA Deletions ==
  ASSUME CacheInv, UNCHANGED ask, cache' = [k \in Keys |-> cache'[k]],
         \A k \in Keys : cache'[k] \in {None, cache[k]}
  PROVE  CacheInv'
<1>1. CachedForItsLevel'
  BY DEF CacheInv, CachedForItsLevel
<1> QED
  BY <1>1 DEF CacheInv

LEMMA LookupStep ==
  ASSUME CacheInv, NEW a \in Askers, NEW q, NEW l, Lookup(a, q, l)
  PROVE  CacheInv'
<1>1. CallIsClean(Idle) /\ CallIsClean(Started(q, l))
  BY DEF CallIsClean, Idle, Started, CallFields
<1> QED
  BY <1>1, CallSteps DEF Lookup

LEMMA ExpandStep ==
  ASSUME CacheInv, NEW a \in Askers, ExpandEntityIDs(a)
  PROVE  CacheInv'
<1> DEFINE r == [ask[a] EXCEPT !.pc = "facts", !.ids = Expand(ask[a].question.plan.entities),
                               !.before = Handled]
<1>1. DOMAIN r = DOMAIN ask[a] /\ CallFields \subseteq DOMAIN ask[a]
  BY DEF CacheInv, CallIsClean, ExpandEntityIDs
<1>2. CallIsClean(r)
  BY <1>1 DEF CallIsClean, CallFields
<1> QED
  BY <1>2, CallSteps DEF ExpandEntityIDs, CacheInv

(* What ReadFacts makes of a call.                                          *)
LEMMA ReadFactsTakes ==
  ASSUME NEW a \in Askers, ReadFacts(a), ask = [b \in Askers |-> ask[b]],
         {"pc", "level", "question", "found", "source", "withheld", "crowded"} \subseteq DOMAIN ask[a]
  PROVE  \E r : /\ ask' = [ask EXCEPT ![a] = r]
                /\ DOMAIN r = DOMAIN ask[a]
                /\ r.pc = "evidence"
                /\ \A field \in DOMAIN r \ {"pc", "found", "withheld", "crowded"} :
                      r[field] = ask[a][field]
                /\ LET plan == ask[a].question.plan
                       match == Matching(ask[a].level, ask[a].ids, plan)
                   IN  /\ r.found \subseteq match
                       /\ \A f \in match : Taken(f, r.found, r)
<1> DEFINE plan == ask[a].question.plan
           match == Matching(ask[a].level, ask[a].ids, plan)
           facts == VisibleFacts(ask[a].level, ask[a].ids, plan)
<1>1. PICK top \in Cut(facts) :
        ask' = [ask EXCEPT ![a].pc = "evidence", ![a].found = top,
                           ![a].withheld = match \ facts, ![a].crowded = facts \ top]
  BY DEF ReadFacts
<1> DEFINE r == [ask[a] EXCEPT !.pc = "evidence", !.found = top,
                               !.withheld = match \ facts, !.crowded = facts \ top]
<1>2. ask' = [ask EXCEPT ![a] = r]
  BY <1>1
<1>3. /\ DOMAIN r = DOMAIN ask[a] /\ r.pc = "evidence" /\ r.found = top
      /\ r.withheld = match \ facts /\ r.crowded = facts \ top
      /\ \A field \in DOMAIN r \ {"pc", "found", "withheld", "crowded"} :
            r[field] = ask[a][field]
  OBVIOUS
<1>4. facts \subseteq match
  BY DEF VisibleFacts
<1>5. top \subseteq facts /\ (top = facts \/ Cardinality(top) = FinalTop)
  BY <1>1 DEF Cut
<1> HIDE DEF r
<1>6. \A f \in match : Taken(f, r.found, r)
  BY <1>3, <1>5 DEF Taken
<1> QED
  BY <1>2, <1>3, <1>4, <1>5, <1>6

LEMMA ReadFactsStep ==
  ASSUME CacheInv, NEW a \in Askers, ReadFacts(a)
  PROVE  CacheInv'
<1>1. CallFields \subseteq DOMAIN ask[a] /\ ask = [b \in Askers |-> ask[b]]
  BY DEF CacheInv, CallIsClean, ReadFacts
<1>2. PICK r : /\ ask' = [ask EXCEPT ![a] = r] 
               /\ DOMAIN r = DOMAIN ask[a] /\ r.pc = "evidence" /\ r.level = ask[a].level
               /\ r.found \subseteq Matching(ask[a].level, ask[a].ids, ask[a].question.plan)
  BY <1>1, ReadFactsTakes DEF CallFields
<1>3. VisibleAt(r.found, r.level)
  BY <1>2 DEF Matching, VisibleAt
<1>4. CallIsClean(r)
  BY <1>1, <1>2, <1>3 DEF CallIsClean
<1> QED
  BY <1>2, <1>4, CallSteps DEF ReadFacts

LEMMA ReadConsensusStep ==
  ASSUME CacheInv, NEW a \in Askers, ReadConsensus(a)
  PROVE  CacheInv'
<1> DEFINE v == [c \in ConsensusAbout(ask[a].ids) |-> consensus[c]]
           r == [ask[a] EXCEPT !.pc = "augment", !.verdicts = v]
<1>1. /\ CallFields \subseteq DOMAIN ask[a]
      /\ VisibleAt(ask[a].found, ask[a].level)
  BY DEF CacheInv, CallIsClean, ReadConsensus
<1>2. /\ DOMAIN r = DOMAIN ask[a] /\ r.pc = "augment"
      /\ r.found = ask[a].found /\ r.level = ask[a].level
  BY <1>1 DEF CallFields
<1>3. CallIsClean(r)
  BY <1>1, <1>2 DEF CallIsClean
<1> QED
  BY <1>3, CallSteps DEF ReadConsensus, CacheInv

(* Facts that come from the text are not said to come from the graph.       *)
LEMMA AugmentStep ==
  ASSUME CacheInv, NEW a \in Askers, augmentFacts(a)
  PROVE  CacheInv'
<1> DEFINE S == {f \in Stored : /\ Sample[f].doc \in ask[a].question.text
                                /\ Access[Sample[f].doc] \in Levels["internal"]}
           few == Cardinality(ask[a].found) < MinFacts /\ S # {}
           r == [ask[a] EXCEPT !.pc = "write", !.found = IF few THEN S ELSE @,
                               !.source = IF few THEN "text" ELSE "graph"]
<1>1. ask' = [ask EXCEPT ![a].pc = "write", ![a].found = IF few THEN S ELSE @,
                         ![a].source = IF few THEN "text" ELSE "graph"]
  BY DEF augmentFacts
<1>2. /\ CallFields \subseteq DOMAIN ask[a]
      /\ VisibleAt(ask[a].found, ask[a].level)
  BY DEF CacheInv, CallIsClean, augmentFacts
<1>3. /\ DOMAIN r = DOMAIN ask[a] /\ r.pc = "write" /\ r.level = ask[a].level
      /\ r.source = "graph" => r.found = ask[a].found
  BY <1>2 DEF CallFields
<1>4. CallIsClean(r)
  BY <1>2, <1>3 DEF CallIsClean
<1>5. ask' = [ask EXCEPT ![a] = r] /\ UNCHANGED cache
  BY <1>1 DEF CacheInv, augmentFacts
<1> QED
  BY <1>4, <1>5, CallSteps

(* An answer is stored under the access of the call that computed it.       *)
LEMMA PutStep ==
  ASSUME CacheInv, NEW a \in Askers, Put(a)
  PROVE  CacheInv'
<1> DEFINE key == planCacheKey(ask[a].question, ask[a].level)
<1>1. /\ ask' = [ask EXCEPT ![a] = Idle]
      /\ cache' = [cache EXCEPT ![key] = Entry(a)]
      /\ ask[a].pc = "write"
  BY DEF Put
<1>2. ask[a].source = "graph" => VisibleAt(ask[a].found, ask[a].level)
  BY <1>1 DEF CacheInv, CallIsClean
<1>3. ask' = [b \in Askers |-> IF b = a THEN Idle ELSE ask[b]]
  BY <1>1 DEF CacheInv
<1>4. \A b \in Askers : CallIsClean(ask'[b])
  BY <1>3 DEF CacheInv, CallIsClean, Idle
<1>5. cache' = [k \in Keys |-> IF k = key THEN Entry(a) ELSE cache[k]]
  BY <1>1 DEF CacheInv
<1>6. key[2] = ask[a].level /\ Entry(a).facts = ask[a].found /\ Entry(a).source = ask[a].source
  BY DEF planCacheKey, Entry
<1>7. CachedForItsLevel'
  BY <1>2, <1>5, <1>6 DEF CachedForItsLevel, VisibleAt, CacheInv
<1> QED
  BY <1>3, <1>4, <1>5, <1>7 DEF CacheInv

LEMMA DropStep ==
  ASSUME CacheInv, NEW a \in Askers, Drop(a)
  PROVE  CacheInv'
<1>1. CallIsClean(Idle)
  BY DEF CallIsClean, Idle
<1> QED
  BY <1>1, CallSteps DEF Drop

LEMMA StepKeepsCacheClean == CacheInv /\ [Next]_vars => CacheInv'
<1> SUFFICES ASSUME CacheInv, [Next]_vars PROVE CacheInv'
  OBVIOUS
<1>1. CASE UNCHANGED <<ask, cache>>
  BY <1>1 DEF CacheInv, CachedForItsLevel
<1>2. CASE \E d \in Docs, deleted, acked \in BOOLEAN : Invalidate(d, deleted, acked)
  BY <1>2, Deletions DEF Invalidate
<1>3. CASE \E k \in Keys : Expire(k)
  BY <1>3, Deletions DEF Expire, CacheInv
<1>4. CASE \E a \in Askers, q \in Questions, l \in DOMAIN Levels : Lookup(a, q, l)
  BY <1>4, LookupStep
<1>5. CASE \E a \in Askers : \/ ExpandEntityIDs(a) \/ ReadFacts(a) \/ ReadConsensus(a)
                             \/ augmentFacts(a) \/ Put(a) \/ Drop(a)
  BY <1>5, ExpandStep, ReadFactsStep, ReadConsensusStep, AugmentStep, PutStep, DropStep
<1>6. CASE \E d \in Docs : Commit(d)
  BY <1>6, <1>1 DEF Commit
<1> QED
  BY <1>1, <1>2, <1>3, <1>4, <1>5, <1>6 DEF Next, vars, answerVars

(* Whoever asks, in whatever order the reads of the answers, the commits    *)
(* and the deletions come: an entry the graph gave holds only facts that    *)
(* everybody may see to whom it can be served.                              *)
THEOREM CacheKeepsAccess == Spec => []CachedForItsLevel
<1>1. Init => CacheInv
  BY DEF Init, CacheInv, CallIsClean, Idle, CachedForItsLevel
<1>2. CacheInv => CachedForItsLevel
  BY DEF CacheInv
<1> QED
  BY <1>1, <1>2, StepKeepsCacheClean, PTL DEF Spec

-----------------------------------------------------------------------------
(* Stale answers.                                                           *)
DocOf(f) == Sample[f].doc
Outstanding(d) == inval[d] \in {"pending", "dead"}

(* Why an answer need not have f: over are the events that overtook it.     *)
Excused(f, plan, over) ==
  \/ Outstanding(DocOf(f))
  \/ DocOf(f) \in over
  \/ plan.entities \cap {Home[f], Parameter[f]} \cap carried[DocOf(f)] = {}
  \/ f \in moved

(* A fact has a document whose event was sent, and its names are entities.  *)
World ==
  /\ subject = [f \in AllFacts |-> subject[f]]
  /\ event = [d \in Docs |-> event[d]]
  /\ inval = [d \in Docs |-> inval[d]]
  /\ carried = [d \in Docs |-> carried[d]]
  /\ \A d \in Docs : event[d] = "none" => inval[d] = "none"
  /\ \A f \in Stored : {Home[f], Parameter[f]} \subseteq entities
  /\ \A f \in Stored \ moved : subject[f] = Home[f]

(* What a call has read so far lacks nothing without an excuse.  One that   *)
(* knows its entities will find the facts about them.                       *)
CallIsExplained(r) ==
  /\ r.pc # "idle" => CallFields \subseteq DOMAIN r
  /\ r.pc \notin {"idle", "search"} => r.before \subseteq Handled
  /\ r.pc = "facts" =>
       \A f \in Stored : About(f, r.question.plan.entities) =>
          About(f, r.ids) \/ Excused(f, r.question.plan, Handled \ r.before)
  /\ (r.pc \in {"evidence", "augment"} \/ (r.pc = "write" /\ r.source = "graph")) =>
       \A f \in Matching(r.level, r.question.plan.entities, r.question.plan) :
          Taken(f, r.found, r) \/ Excused(f, r.question.plan, Handled \ r.before)

AnswersAreExplained ==
  \A k \in Keys : cache[k] # None /\ cache[k].source = "graph" =>
    \A f \in Matching(k[2], k[1].entities, k[1]) :
      Taken(f, cache[k].facts, cache[k]) \/ Excused(f, k[1], cache[k].overtaken)

StaleInv ==
  /\ World
  /\ ask = [a \in Askers |-> ask[a]]
  /\ cache = [k \in Keys |-> cache[k]]
  /\ \A a \in Askers : CallIsExplained(ask[a])
  /\ AnswersAreExplained

LEMMA FactsHaveDocs ==
  /\ \A f \in AllFacts : DocOf(f) \in Docs /\ f \in Facts[DocOf(f)]
  /\ \A d \in Docs : \A f \in Facts[d] : f \in AllFacts /\ DocOf(f) = d
BY EpistemicAssumption DEF AllFacts, DocOf

(* How commits and merges change what answers depend on: a fact that is new, *)
(* or is about another entity now, is excused.                               *)
Grows ==
  /\ moved \subseteq moved'
  /\ Handled' = Handled
  /\ \A d \in Docs : /\ Outstanding(d) => Outstanding(d)'
                     /\ carried'[d] = carried[d] \/ Outstanding(d)'
  /\ \A f \in Stored' : \/ f \in Stored /\ subject'[f] = subject[f]
                        \/ Outstanding(DocOf(f))'
                        \/ f \in moved'

LEMMA CommitGrows ==
  ASSUME World, NEW d \in Docs, Commit(d)
  PROVE  World' /\ Grows
<1>1. /\ subject' = [f \in AllFacts |-> IF f \in Facts[d] THEN Home[f] ELSE subject[f]]
      /\ event[d] = "none"
      /\ event' = [event EXCEPT ![d] = "pending"]
      /\ inval' = [inval EXCEPT ![d] = "pending"]
      /\ entities' = entities \cup Named(d)
      /\ UNCHANGED moved
  BY DEF Commit, CommitFacts
<1>2. PICK new : carried' = [carried EXCEPT ![d] = new]
  BY DEF Commit
<1>3. inval[d] = "none"
  BY <1>1 DEF World
<1>4. /\ event' = [e \in Docs |-> IF e = d THEN "pending" ELSE event[e]]
      /\ inval' = [e \in Docs |-> IF e = d THEN "pending" ELSE inval[e]]
      /\ carried' = [e \in Docs |-> IF e = d THEN new ELSE carried[e]]
  BY <1>1, <1>2 DEF World
<1>5. \A f \in Stored' : f \in AllFacts /\ (f \in Stored \/ f \in Facts[d])
  BY <1>1 DEF Stored
<1>6. World'
  <2>1. \A f \in Facts[d] : {Home[f], Parameter[f]} \subseteq entities'
    BY <1>1 DEF Named
  <2>2. \A f \in Stored' : {Home[f], Parameter[f]} \subseteq entities'
    BY <1>1, <1>5, <2>1 DEF World
  <2>3. \A f \in Stored' \ moved' : subject'[f] = Home[f]
    BY <1>1, <1>5 DEF World
  <2>4. /\ subject' = [f \in AllFacts |-> subject'[f]]
        /\ event' = [e \in Docs |-> event'[e]]
        /\ inval' = [e \in Docs |-> inval'[e]]
        /\ carried' = [e \in Docs |-> carried'[e]]
    BY <1>1, <1>4
  <2>5. \A e \in Docs : event'[e] = "none" => inval'[e] = "none"
    BY <1>4 DEF World
  <2> QED
    BY <2>2, <2>3, <2>4, <2>5 DEF World
<1>7. Handled' = Handled
  BY <1>3, <1>4 DEF Handled
<1>8. \A e \in Docs : /\ Outstanding(e) => Outstanding(e)'
                      /\ carried'[e] = carried[e] \/ Outstanding(e)'
  BY <1>4 DEF Outstanding
<1>9. \A f \in Stored' : \/ f \in Stored /\ subject'[f] = subject[f]
                         \/ Outstanding(DocOf(f))'
  <2> SUFFICES ASSUME NEW f \in Stored' 
               PROVE  \/ f \in Stored /\ subject'[f] = subject[f]
                      \/ Outstanding(DocOf(f))'
    OBVIOUS
  <2>1. CASE f \in Facts[d]
    <3>1. DocOf(f) = d
      BY <2>1, FactsHaveDocs
    <3> QED
      BY <1>4, <3>1 DEF Outstanding, DocOf
  <2>2. CASE f \notin Facts[d]
    BY <1>1, <1>5, <2>2
  <2> QED
    BY <2>1, <2>2
<1> QED
  BY <1>1, <1>6, <1>7, <1>8, <1>9 DEF Grows

LEMMA MergeGrows ==
  ASSUME World, NEW x \in Slugs, NEW y \in Slugs, MergeSubjects(x, y),
         UNCHANGED <<catalogVars, answerVars>>
  PROVE  World' /\ Grows
<1>1. PICK seen \in SUBSET {f \in AllFacts : subject[f] = x} :
        /\ subject' = [f \in AllFacts |-> IF f \in seen THEN y ELSE subject[f]]
        /\ moved' = moved \cup seen
  BY DEF MergeSubjects
<1>2. UNCHANGED <<event, inval, carried, entities>>
  BY DEF MergeSubjects, catalogVars, answerVars
<1>3. Stored' = Stored
  <2>1. None \notin Slugs
    BY EpistemicAssumption
  <2> QED
    BY <1>1, <2>1 DEF Stored
<1>4. World'
  <2>1. \A f \in Stored' \ moved' : subject'[f] = Home[f]
    BY <1>1, <1>3 DEF World, Stored
  <2> QED
    BY <1>1, <1>2, <1>3, <2>1 DEF World
<1>5. \A f \in Stored' : f \in Stored /\ (subject'[f] = subject[f] \/ f \in moved')
  BY <1>1, <1>3 DEF Stored
<1> QED
  BY <1>1, <1>2, <1>4, <1>5 DEF Grows, Outstanding, Handled

(* Steps that grow the world keep answers and calls explained.              *)
LEMMA GrowsKeepsExcuses ==
  ASSUME Grows, NEW f \in AllFacts, NEW plan, NEW over, Excused(f, plan, over)
  PROVE  Excused(f, plan, over)'
BY FactsHaveDocs DEF Grows, Excused, DocOf

LEMMA GrowsKeepsCalls ==
  ASSUME Grows, NEW r, CallIsExplained(r)
  PROVE  CallIsExplained(r)'
<1>1. \A plan : \A f \in Stored' : About(f, plan.entities)' =>
        \/ f \in Stored /\ About(f, plan.entities)
        \/ \A over : Excused(f, plan, over)'
  BY DEF Grows, About, Excused, DocOf
<1>2. \A f \in Stored : f \in AllFacts
  BY DEF Stored
<1>3. Handled' = Handled
  BY DEF Grows
<1>4. ASSUME r.pc = "facts", NEW f \in Stored', About(f, r.question.plan.entities)'
      PROVE  About(f, r.ids)' \/ Excused(f, r.question.plan, Handled \ r.before)'
  <2>1. CASE \A over : Excused(f, r.question.plan, over)'
    BY <2>1, <1>3
  <2>2. CASE f \in Stored /\ subject'[f] = subject[f] 
    <3>1. About(f, r.ids) \/ Excused(f, r.question.plan, Handled \ r.before)
      BY <1>4, <2>2 DEF CallIsExplained, About
    <3>2. CASE About(f, r.ids)
      BY <2>2, <3>2 DEF About
    <3>3. CASE Excused(f, r.question.plan, Handled \ r.before)
      BY <1>2, <1>3, <2>2, <3>3, GrowsKeepsExcuses
    <3> QED
      BY <3>1, <3>2, <3>3
  <2> QED
    BY <2>1, <2>2 DEF Grows, Excused, DocOf
<1>5. ASSUME NEW f \in Matching(r.level, r.question.plan.entities, r.question.plan)',
             r.pc \in {"evidence", "augment"} \/ (r.pc = "write" /\ r.source = "graph")
      PROVE  Taken(f, r.found, r) \/ Excused(f, r.question.plan, Handled \ r.before)'
  <2>1. f \in Stored' /\ About(f, r.question.plan.entities)'
    BY <1>5 DEF Matching
  <2>2. CASE \A over : Excused(f, r.question.plan, over)'
    BY <2>2, <1>3
  <2>3. CASE f \in Stored /\ About(f, r.question.plan.entities)
    <3>1. f \in Matching(r.level, r.question.plan.entities, r.question.plan)
      BY <1>5, <2>3 DEF Matching
    <3>2. Taken(f, r.found, r) \/ Excused(f, r.question.plan, Handled \ r.before)
      BY <1>5, <3>1 DEF CallIsExplained
    <3> QED
      BY <1>2, <1>3, <2>3, <3>2, GrowsKeepsExcuses DEF Taken
  <2> QED
    BY <1>1, <2>1, <2>2, <2>3
<1> QED
  BY <1>3, <1>4, <1>5 DEF CallIsExplained

LEMMA GrowsKeepsAnswers ==
  ASSUME Grows, UNCHANGED cache, AnswersAreExplained
  PROVE  AnswersAreExplained'
<1> SUFFICES ASSUME NEW k \in Keys, cache[k] # None, cache[k].source = "graph",
                    NEW f \in Matching(k[2], k[1].entities, k[1])'
             PROVE  Taken(f, cache[k].facts, cache[k]) \/ Excused(f, k[1], cache[k].overtaken)'
  BY DEF AnswersAreExplained, Excused, Outstanding, DocOf
<1>1. /\ f \in Stored' /\ f \in AllFacts
      /\ f \in Stored /\ subject'[f] = subject[f] => f \in Matching(k[2], k[1].entities, k[1])
  BY DEF Matching, Stored, About
<1>2. CASE f \in Stored /\ subject'[f] = subject[f]
  <2>1. Taken(f, cache[k].facts, cache[k]) \/ Excused(f, k[1], cache[k].overtaken)
    BY <1>1, <1>2 DEF AnswersAreExplained, Excused, Outstanding, DocOf
  <2> QED
    BY <1>1, <2>1, GrowsKeepsExcuses
<1> QED
  BY <1>1, <1>2 DEF Grows, Excused

LEMMA GrowsKeeps ==
  ASSUME StaleInv, Grows, World', UNCHANGED <<ask, cache>>
  PROVE  StaleInv'
<1>1. \A a \in Askers : CallIsExplained(ask[a])'
  BY GrowsKeepsCalls DEF StaleInv
<1>2. AnswersAreExplained'
  BY GrowsKeepsAnswers DEF StaleInv
<1> QED
  BY <1>1, <1>2 DEF StaleInv

(* Steps of Epistemic write neither subjects nor what answer handles, and   *)
(* no event becomes unsent.                                                 *)
OnlyEvents ==
  /\ UNCHANGED <<subject, moved, catalogVars, answerVars>>
  /\ \/ UNCHANGED event
     \/ \E d \in Docs \cup {hand}, s \in {"pending", "done", "dead"} :
          event' = [event EXCEPT ![d] = s]
     \/ event' = [d \in Docs |-> IF event[d] = "none" THEN "none" ELSE "pending"]

LEMMA OnlyEventsKeeps ==
  ASSUME StaleInv, OnlyEvents
  PROVE  StaleInv'
<1>1. event' = [d \in Docs |-> event'[d]] /\ \A d \in Docs : event'[d] = "none" => event[d] = "none"
  <2>1. CASE UNCHANGED event
    BY <2>1 DEF StaleInv, World
  <2>2. CASE event' = [d \in Docs |-> IF event[d] = "none" THEN "none" ELSE "pending"]
    BY <2>2
  <2>3. ASSUME NEW d, NEW s \in {"pending", "done", "dead"}, event' = [event EXCEPT ![d] = s]
        PROVE  /\ event' = [e \in Docs |-> event'[e]]
               /\ \A e \in Docs : event'[e] = "none" => event[e] = "none"
    <3>1. event' = [e \in Docs |-> IF e = d THEN s ELSE event[e]]
      BY <2>3 DEF StaleInv, World
    <3> QED
      BY <3>1
  <2> QED
    BY <2>1, <2>2, <2>3 DEF OnlyEvents
<1>2. World'
  BY <1>1 DEF OnlyEvents, StaleInv, World, Stored, catalogVars, answerVars
<1>3. Grows
  BY DEF OnlyEvents, Grows, Handled, Outstanding, Stored, catalogVars, answerVars
<1>4. UNCHANGED <<ask, cache>>
  BY DEF OnlyEvents, answerVars
<1> QED
  BY <1>2, <1>3, <1>4, GrowsKeeps

LEMMA EpistemicStepsOnlyEvents ==
  ASSUME UNCHANGED <<catalogVars, answerVars>>,
         \/ Handle \/ Replay
         \/ \E f \in AllFacts, s \in FactStatuses : UpdateFactStatus(f, s)
         \/ \E p \in Pairs, s \in Statuses \ {"suspected"} : DecideContradiction(p, s)
  PROVE  OnlyEvents
<1>1. CASE \E d \in Docs : Group(d)
  BY <1>1 DEF OnlyEvents, Group, base
<1>2. ASSUME NEW d \in Docs, GroupRaises(d) PROVE OnlyEvents
  BY <1>2 DEF OnlyEvents, GroupRaises, base
<1>3. CASE Judge
  BY <1>3 DEF OnlyEvents, Judge
<1>4. CASE Abort
  BY <1>4 DEF OnlyEvents, Abort, Settle, base
<1>5. ASSUME NEW published, NEW acked, Announce(published, acked) PROVE OnlyEvents
  BY <1>5 DEF OnlyEvents, Announce, Settle, base
<1>6. CASE Replay
  BY <1>6 DEF OnlyEvents, Replay, base
<1>7. CASE \E f \in AllFacts, s \in FactStatuses : UpdateFactStatus(f, s)
  BY <1>7 DEF OnlyEvents, UpdateFactStatus
<1>8. CASE \E p \in Pairs, s \in Statuses \ {"suspected"} : DecideContradiction(p, s)
  BY <1>8 DEF OnlyEvents, DecideContradiction
<1> QED
  BY <1>1, <1>2, <1>3, <1>4, <1>5, <1>6, <1>7, <1>8 DEF Handle

(* A step of one call.                                                      *)
LEMMA CallStepKeeps ==
  ASSUME StaleInv, NEW a \in Askers, NEW r, CallIsExplained(r),
         ask' = [ask EXCEPT ![a] = r], UNCHANGED cache,
         UNCHANGED <<epistemicVars, catalogVars, inval>>
  PROVE  StaleInv'
<1>1. UNCHANGED <<subject, moved, event, inval, carried, entities>>
  BY DEF epistemicVars, base, catalogVars
<1>2. World'
  BY <1>1 DEF StaleInv, World, Stored
<1>3. \A q : CallIsExplained(q) => CallIsExplained(q)'
  BY <1>1 DEF CallIsExplained, Handled, Matching, Stored, About, Excused, Outstanding
<1>4. ask' = [b \in Askers |-> IF b = a THEN r ELSE ask[b]]
  BY DEF StaleInv
<1>5. ASSUME NEW b \in Askers PROVE CallIsExplained(ask[b])'
  <2>1. PICK q : q = ask'[b]
    OBVIOUS
  <2>2. CallIsExplained(q)
    BY <1>4, <2>1 DEF StaleInv
  <2>3. CallIsExplained(q)'
    BY <1>3, <2>2
  <2> QED
    BY <2>1, <2>3 DEF CallIsExplained
<1>6. AnswersAreExplained'
  BY <1>1 DEF StaleInv, AnswersAreExplained, Matching, Stored, About, Taken, Excused, Outstanding, DocOf
<1> QED
  BY <1>2, <1>4, <1>5, <1>6 DEF StaleInv

LEMMA LookupStaysExplained ==
  ASSUME StaleInv, NEW a \in Askers, NEW q, NEW l, Lookup(a, q, l)
  PROVE  StaleInv'
<1>1. CallIsExplained(Idle) /\ CallIsExplained(Started(q, l))
  BY DEF CallIsExplained, Idle, Started, CallFields
<1> QED
  BY <1>1, CallStepKeeps DEF Lookup

(* Whatever commits later is of an event not yet handled.                   *)
LEMMA ExpandStaysExplained ==
  ASSUME StaleInv, NEW a \in Askers, ExpandEntityIDs(a)
  PROVE  StaleInv'
<1> DEFINE ids == Expand(ask[a].question.plan.entities)
           r == [ask[a] EXCEPT !.pc = "facts", !.ids = ids, !.before = Handled]
<1>1. CallFields \subseteq DOMAIN ask[a]
  BY DEF StaleInv, CallIsExplained, ExpandEntityIDs, CallFields
<1>2. /\ DOMAIN r = DOMAIN ask[a] /\ r.pc = "facts" /\ r.ids = ids /\ r.before = Handled
      /\ r.question = ask[a].question
  BY <1>1 DEF CallFields
<1>3. ASSUME NEW f \in Stored, About(f, ask[a].question.plan.entities)
      PROVE  About(f, ids) \/ f \in moved
  BY <1>3 DEF About, Expand, StaleInv, World
<1>4. CallIsExplained(r)
  BY <1>1, <1>2, <1>3 DEF CallIsExplained, Excused, CallFields
<1> QED
  BY <1>4, CallStepKeeps DEF ExpandEntityIDs, StaleInv

LEMMA ReadFactsStaysExplained ==
  ASSUME StaleInv, NEW a \in Askers, ReadFacts(a)
  PROVE  StaleInv'
<1> DEFINE plan == ask[a].question.plan
<1>1. /\ CallFields \subseteq DOMAIN ask[a] /\ ask[a].before \subseteq Handled
      /\ ask = [b \in Askers |-> ask[b]]
      /\ \A f \in Stored : About(f, plan.entities) =>
           About(f, ask[a].ids) \/ Excused(f, plan, Handled \ ask[a].before)
  BY DEF StaleInv, CallIsExplained, ReadFacts
<1>2. PICK r : /\ ask' = [ask EXCEPT ![a] = r]
               /\ DOMAIN r = DOMAIN ask[a] /\ r.pc = "evidence"
               /\ r.question = ask[a].question /\ r.level = ask[a].level
               /\ r.before = ask[a].before
               /\ \A f \in Matching(ask[a].level, ask[a].ids, plan) : Taken(f, r.found, r)
  BY <1>1, ReadFactsTakes DEF CallFields
<1>3. \A f \in Matching(r.level, r.question.plan.entities, r.question.plan) :
        Taken(f, r.found, r) \/ Excused(f, r.question.plan, Handled \ r.before)
  BY <1>1, <1>2 DEF Matching
<1>4. CallIsExplained(r)
  BY <1>1, <1>2, <1>3 DEF CallIsExplained
<1> QED
  BY <1>2, <1>4, CallStepKeeps DEF ReadFacts

LEMMA ReadConsensusStaysExplained ==
  ASSUME StaleInv, NEW a \in Askers, ReadConsensus(a)
  PROVE  StaleInv'
<1> DEFINE v == [c \in ConsensusAbout(ask[a].ids) |-> consensus[c]]
           r == [ask[a] EXCEPT !.pc = "augment", !.verdicts = v]
<1>1. CallFields \subseteq DOMAIN ask[a] /\ ask[a].pc = "evidence" /\ CallIsExplained(ask[a])
  BY DEF StaleInv, CallIsExplained, ReadConsensus, CallFields
<1>2. /\ DOMAIN r = DOMAIN ask[a] /\ r.pc = "augment" /\ r.found = ask[a].found
      /\ r.question = ask[a].question /\ r.level = ask[a].level /\ r.before = ask[a].before
      /\ r.withheld = ask[a].withheld /\ r.crowded = ask[a].crowded
  BY <1>1 DEF CallFields
<1>3. CallIsExplained(r)
  BY <1>1, <1>2 DEF CallIsExplained, CallFields, Taken
<1> QED
  BY <1>3, CallStepKeeps DEF ReadConsensus, StaleInv

LEMMA AugmentStaysExplained ==
  ASSUME StaleInv, NEW a \in Askers, augmentFacts(a)
  PROVE  StaleInv'
<1> DEFINE S == {f \in Stored : /\ Sample[f].doc \in ask[a].question.text
                                /\ Access[Sample[f].doc] \in Levels["internal"]}
           few == Cardinality(ask[a].found) < MinFacts /\ S # {}
           r == [ask[a] EXCEPT !.pc = "write", !.found = IF few THEN S ELSE @,
                               !.source = IF few THEN "text" ELSE "graph"]
<1>1. ask' = [ask EXCEPT ![a].pc = "write", ![a].found = IF few THEN S ELSE @,
                         ![a].source = IF few THEN "text" ELSE "graph"]
  BY DEF augmentFacts
<1>2. CallFields \subseteq DOMAIN ask[a] /\ ask[a].pc = "augment" /\ CallIsExplained(ask[a])
  BY DEF StaleInv, CallIsExplained, augmentFacts, CallFields
<1>3. /\ DOMAIN r = DOMAIN ask[a] /\ r.pc = "write" /\ r.question = ask[a].question
      /\ r.level = ask[a].level /\ r.before = ask[a].before
      /\ r.withheld = ask[a].withheld /\ r.crowded = ask[a].crowded
      /\ r.source = "graph" => r.found = ask[a].found
  BY <1>2 DEF CallFields
<1>4. CallIsExplained(r)
  BY <1>2, <1>3 DEF CallIsExplained, CallFields, Taken
<1>5. ask' = [ask EXCEPT ![a] = r]
  BY <1>1 DEF StaleInv
<1>6. UNCHANGED cache /\ UNCHANGED <<epistemicVars, catalogVars, inval>>
  BY DEF augmentFacts
<1> QED
  BY <1>4, <1>5, <1>6, CallStepKeeps

LEMMA DropStaysExplained ==
  ASSUME StaleInv, NEW a \in Askers, Drop(a)
  PROVE  StaleInv'
<1>1. CallIsExplained(Idle)
  BY DEF CallIsExplained, Idle
<1> QED
  BY <1>1, CallStepKeeps DEF Drop

(* Where nothing but the cache changes, the calls stay explained.           *)
LEMMA CacheStepKeeps ==
  ASSUME StaleInv, UNCHANGED <<epistemicVars, catalogVars, inval>>,
         ask' = [a \in Askers |-> ask'[a]], \A a \in Askers : ask'[a] \in {Idle, ask[a]},
         cache' = [k \in Keys |-> cache'[k]],
         \A k \in Keys : cache'[k] # None /\ cache'[k].source = "graph" =>
           \/ cache'[k] = cache[k]
           \/ \A f \in Matching(k[2], k[1].entities, k[1]) :
                Taken(f, cache'[k].facts, cache'[k]) \/ Excused(f, k[1], cache'[k].overtaken)
  PROVE  StaleInv'
<1>1. UNCHANGED <<subject, moved, event, inval, carried, entities>>
  BY DEF epistemicVars, base, catalogVars
<1>2. World'
  BY <1>1 DEF StaleInv, World, Stored
<1>3. \A a \in Askers : CallIsExplained(ask[a])'
  <2> SUFFICES ASSUME NEW a \in Askers PROVE CallIsExplained(ask[a])'
    OBVIOUS
  <2>1. CASE ask'[a] = Idle
    BY <2>1 DEF CallIsExplained, Idle
  <2>2. CASE ask'[a] = ask[a]
    BY <1>1, <2>2 DEF StaleInv, CallIsExplained, Handled, Matching, Stored, About, Excused, Outstanding
  <2> QED
    BY <2>1, <2>2
<1>4. AnswersAreExplained'
  BY <1>1 DEF StaleInv, AnswersAreExplained, Matching, Stored, About, Excused, Outstanding, DocOf
<1> QED
  BY <1>2, <1>3, <1>4 DEF StaleInv

LEMMA PutStaysExplained ==
  ASSUME StaleInv, NEW a \in Askers, Put(a)
  PROVE  StaleInv'
<1> DEFINE key == planCacheKey(ask[a].question, ask[a].level)
<1>1. /\ cache' = [k \in Keys |-> IF k = key THEN Entry(a) ELSE cache[k]]
      /\ ask' = [b \in Askers |-> IF b = a THEN Idle ELSE ask[b]]
      /\ ask[a].pc = "write"
      /\ UNCHANGED <<epistemicVars, catalogVars, inval>>
  BY DEF Put, StaleInv
<1>2. /\ key[1] = ask[a].question.plan /\ key[2] = ask[a].level
      /\ Entry(a).facts = ask[a].found /\ Entry(a).source = ask[a].source
      /\ Entry(a).withheld = ask[a].withheld /\ Entry(a).crowded = ask[a].crowded
      /\ Entry(a).overtaken = Handled \ ask[a].before
  BY DEF planCacheKey, Entry
<1>3. Entry(a).source = "graph" =>
        \A f \in Matching(key[2], key[1].entities, key[1]) :
          Taken(f, Entry(a).facts, Entry(a)) \/ Excused(f, key[1], Entry(a).overtaken)
  BY <1>1, <1>2 DEF StaleInv, CallIsExplained, Taken
<1> HIDE DEF key
<1>4. \A k \in Keys : cache'[k] # None /\ cache'[k].source = "graph" =>
           \/ cache'[k] = cache[k]
           \/ \A f \in Matching(k[2], k[1].entities, k[1]) :
                Taken(f, cache'[k].facts, cache'[k]) \/ Excused(f, k[1], cache'[k].overtaken)
  BY <1>1, <1>3
<1> QED
  BY <1>1, <1>4, CacheStepKeeps

LEMMA ExpireStaysExplained ==
  ASSUME StaleInv, NEW k \in Keys, Expire(k)
  PROVE  StaleInv'
<1>1. cache' = [j \in Keys |-> IF j = k THEN None ELSE cache[j]]
  BY DEF Expire, StaleInv
<1>2. UNCHANGED <<epistemicVars, catalogVars, inval, ask>>
  BY DEF Expire
<1> QED
  BY <1>1, <1>2, CacheStepKeeps DEF StaleInv

(* An event that the worker has handled overtakes the calls under way, and  *)
(* no entry is left whose plan names what it carried.                       *)
LEMMA InvalidateStaysExplained ==
  ASSUME StaleInv, NEW d \in Docs, NEW deleted \in BOOLEAN, NEW acked \in BOOLEAN,
         Invalidate(d, deleted, acked)
  PROVE  StaleInv'
<1>1. PICK s \in {"done", "dead", "pending"} :
        inval' = [inval EXCEPT ![d] = s] /\ (s = "done" => deleted)
  BY DEF Invalidate
<1>2. /\ inval' = [e \in Docs |-> IF e = d THEN s ELSE inval[e]]
      /\ inval[d] = "pending"
      /\ UNCHANGED <<subject, moved, event, carried, entities, ask>>
      /\ cache' = [k \in Keys |-> IF deleted /\ k[1].entities \cap carried[d] # {}
                                 THEN None ELSE cache[k]]
  BY <1>1 DEF Invalidate, StaleInv, World, epistemicVars, base, catalogVars
<1>3. World'
  BY <1>2 DEF StaleInv, World, Stored
<1>4. /\ Handled \subseteq Handled' /\ d \notin Handled
      /\ \A e \in Docs : Outstanding(e) => Outstanding(e)' \/ (e = d /\ s = "done" /\ d \in Handled')
  BY <1>2 DEF Handled, Outstanding
<1>5. \A f \in Stored : f \in AllFacts /\ DocOf(f) \in Docs
  BY FactsHaveDocs DEF Stored
<1>6. \A a \in Askers : CallIsExplained(ask[a])'
  <2> SUFFICES ASSUME NEW a \in Askers, NEW r, r = ask[a] PROVE CallIsExplained(r)'
    BY <1>2 DEF CallIsExplained
  <2>1. CallIsExplained(r)
    BY DEF StaleInv
  <2>2. ASSUME r.pc \notin {"idle", "search"}, NEW f \in Stored, NEW plan,
               Excused(f, plan, Handled \ r.before)
        PROVE  Excused(f, plan, Handled \ r.before)'
    <3>1. r.before \subseteq Handled
      BY <2>1, <2>2 DEF CallIsExplained
    <3> QED
      BY <1>2, <1>4, <1>5, <2>2, <3>1 DEF Excused
  <2>3. r.pc = "facts" =>
          \A f \in Stored' : About(f, r.question.plan.entities)' =>
            About(f, r.ids)' \/ Excused(f, r.question.plan, Handled \ r.before)'
    BY <1>2, <2>1, <2>2 DEF CallIsExplained, About, Stored
  <2>4. (r.pc \in {"evidence", "augment"} \/ (r.pc = "write" /\ r.source = "graph")) =>
          \A f \in Matching(r.level, r.question.plan.entities, r.question.plan)' :
            Taken(f, r.found, r) \/ Excused(f, r.question.plan, Handled \ r.before)'
    <3>1. Matching(r.level, r.question.plan.entities, r.question.plan)' = Matching(r.level, r.question.plan.entities, r.question.plan)
      BY <1>2 DEF Matching, Stored, About
    <3>2. \A f \in Matching(r.level, r.question.plan.entities, r.question.plan) : f \in Stored
      BY DEF Matching
    <3> QED
      BY <2>1, <2>2, <3>1, <3>2 DEF CallIsExplained
  <2> QED
    BY <1>4, <2>1, <2>3, <2>4 DEF CallIsExplained
<1>7. AnswersAreExplained'
  <2> SUFFICES ASSUME NEW k \in Keys, cache'[k] # None, cache'[k].source = "graph",
                      NEW f \in Matching(k[2], k[1].entities, k[1])'
               PROVE  Taken(f, cache'[k].facts, cache'[k]) \/ Excused(f, k[1], cache[k].overtaken)'
    BY DEF AnswersAreExplained, Excused, Outstanding, DocOf
  <2>1. /\ cache'[k] = cache[k]
        /\ ~(deleted /\ k[1].entities \cap carried[d] # {})
    BY <1>2
  <2>2. f \in Matching(k[2], k[1].entities, k[1]) /\ f \in Stored
    BY <1>2 DEF Matching, Stored, About
  <2>3. Taken(f, cache[k].facts, cache[k]) \/ Excused(f, k[1], cache[k].overtaken)
    BY <2>1, <2>2 DEF StaleInv, AnswersAreExplained, Excused, Outstanding, DocOf
  <2>4. CASE Taken(f, cache[k].facts, cache[k])
    BY <2>1, <2>4 DEF Taken
  <2>5. CASE Excused(f, k[1], cache[k].overtaken)
    BY <1>1, <1>2, <1>4, <1>5, <2>1, <2>2, <2>5 DEF Excused
  <2> QED
    BY <2>3, <2>4, <2>5
<1> QED
  BY <1>2, <1>3, <1>6, <1>7 DEF StaleInv

LEMMA StepKeepsExplained == StaleInv /\ [Next]_vars => StaleInv'
<1> SUFFICES ASSUME StaleInv, [Next]_vars PROVE StaleInv'
  OBVIOUS
<1>1. CASE UNCHANGED vars
  BY <1>1, OnlyEventsKeeps DEF OnlyEvents, vars, epistemicVars, base
<1>2. ASSUME NEW d \in Docs, Commit(d) PROVE StaleInv'
  <2>1. World
    BY DEF StaleInv
  <2>2. UNCHANGED <<ask, cache>>
    BY <1>2 DEF Commit
  <2> QED
    BY <1>2, <2>1, <2>2, CommitGrows, GrowsKeeps
<1>3. ASSUME NEW x \in Slugs, NEW y \in Slugs, MergeSubjects(x, y),
             UNCHANGED <<catalogVars, answerVars>>
      PROVE StaleInv'
  <2>1. World
    BY DEF StaleInv
  <2>2. UNCHANGED <<ask, cache>>
    BY <1>3 DEF answerVars
  <2> QED
    BY <1>3, <2>1, <2>2, MergeGrows, GrowsKeeps
<1>4. ASSUME UNCHANGED <<catalogVars, answerVars>>,
             \/ Handle \/ Replay
             \/ \E f \in AllFacts, s \in FactStatuses : UpdateFactStatus(f, s)
             \/ \E p \in Pairs, s \in Statuses \ {"suspected"} : DecideContradiction(p, s)
      PROVE StaleInv'
  BY <1>4, EpistemicStepsOnlyEvents, OnlyEventsKeeps
<1>5. CASE \E d \in Docs, deleted, acked \in BOOLEAN : Invalidate(d, deleted, acked)
  BY <1>5, InvalidateStaysExplained
<1>6. CASE \E k \in Keys : Expire(k)
  BY <1>6, ExpireStaysExplained
<1>7. CASE \E a \in Askers, q \in Questions, l \in DOMAIN Levels : Lookup(a, q, l)
  BY <1>7, LookupStaysExplained
<1>8. CASE \E a \in Askers : \/ ExpandEntityIDs(a) \/ ReadFacts(a) \/ ReadConsensus(a)
                             \/ augmentFacts(a) \/ Put(a) \/ Drop(a)
  BY <1>8, ExpandStaysExplained, ReadFactsStaysExplained, ReadConsensusStaysExplained,
     AugmentStaysExplained, PutStaysExplained, DropStaysExplained
<1> QED
  BY <1>1, <1>2, <1>3, <1>4, <1>5, <1>6, <1>7, <1>8 DEF Next

(* Whatever commits, merges, changes of status and deletions fall between   *)
(* the reads of an answer: a stored answer lacks a fact that search would   *)
(* show only for one of the stated reasons.                                 *)
THEOREM StaleAnswersAreExplained == Spec => []StaleAnswerIsExplained
<1>1. Init => StaleInv
  BY DEF Init, EpistemicInit, StaleInv, World, Stored, CallIsExplained, Idle,
     AnswersAreExplained
<1>2. StaleInv => StaleAnswerIsExplained
  BY DEF StaleInv, AnswersAreExplained, StaleAnswerIsExplained, VisibleFacts, Taken, Excused,
         Outstanding, DocOf
<1> QED
  BY <1>1, <1>2, StepKeepsExplained, PTL DEF Spec

-----------------------------------------------------------------------------
(* Types.                                                                   *)
LEMMA BoundsAreNumbers ==
  ASSUME bound \in Scenarios
  PROVE  /\ bound.docs \subseteq Docs
         /\ {bound.deliver, bound.merges, bound.verdicts, bound.replays} \subseteq Nat
         /\ {bound.invalidate, bound.asks} \subseteq Nat
  BY EpistemicAssumption, AnswerCacheAssumption

LEMMA FactsAreNamed ==
  /\ \A d \in Docs : Facts[d] \subseteq AllFacts
  /\ \A f \in AllFacts : Home[f] \in Slugs /\ Parameter[f] \in Slugs
  /\ None \notin Docs \cup Slugs
  BY EpistemicAssumption DEF AllFacts

LEMMA CommitKeepsTypes ==
  ASSUME EpistemicTypeOK, NEW d \in Docs, CommitFacts(d)
  PROVE  EpistemicTypeOK'
<1>1. subject' \in [AllFacts -> Slugs \cup {None}]
  BY FactsAreNamed DEF CommitFacts, EpistemicTypeOK
<1>2. event' \in [Docs -> {"none", "pending", "done", "dead"}]
  BY DEF CommitFacts, EpistemicTypeOK
<1>3. hidden' \subseteq AllFacts
  BY FactsAreNamed DEF CommitFacts, EpistemicTypeOK
<1> QED
  BY <1>1, <1>2, <1>3 DEF CommitFacts, EpistemicTypeOK, handler, judged

LEMMA MergeKeepsTypes ==
  ASSUME EpistemicTypeOK, NEW x \in Slugs, NEW y \in Slugs, MergeSubjects(x, y)
  PROVE  EpistemicTypeOK'
<1>1. PICK seen \in SUBSET {f \in AllFacts : subject[f] = x} :
        /\ subject' = [f \in AllFacts |-> IF f \in seen THEN y ELSE subject[f]]
        /\ moved' = moved \cup seen
        /\ unannounced' = IF seen = {} THEN unannounced ELSE unannounced \cup {x, y}
  BY DEF MergeSubjects
<1>2. subject' \in [AllFacts -> Slugs \cup {None}]
  BY <1>1 DEF EpistemicTypeOK
<1>3. moved' \subseteq AllFacts /\ unannounced' \subseteq Slugs
  BY <1>1 DEF EpistemicTypeOK
<1>4. merges' \in 0..bound.merges
  BY BoundsAreNumbers DEF MergeSubjects, EpistemicTypeOK
<1> QED
  BY <1>2, <1>3, <1>4 DEF MergeSubjects, EpistemicTypeOK, handler, judged

LEMMA VerdictsKeepTypes ==
  ASSUME EpistemicTypeOK,
         \/ \E f \in AllFacts, s \in FactStatuses : UpdateFactStatus(f, s)
         \/ \E p \in Pairs, s \in Statuses \ {"suspected"} : DecideContradiction(p, s)
  PROVE  EpistemicTypeOK'
<1>1. ASSUME NEW f \in AllFacts, NEW s \in FactStatuses, UpdateFactStatus(f, s) PROVE EpistemicTypeOK'
  <2>1. subject[f] \in Slugs
    BY <1>1 DEF UpdateFactStatus, Stored, EpistemicTypeOK
  <2>2. verdicts' \in 0..bound.verdicts
    BY <1>1, BoundsAreNumbers DEF UpdateFactStatus, EpistemicTypeOK
  <2> QED
    BY <1>1, <2>1, <2>2 DEF UpdateFactStatus, EpistemicTypeOK, handler, judged
<1>2. ASSUME NEW p \in Pairs, NEW s \in Statuses \ {"suspected"}, DecideContradiction(p, s)
      PROVE  EpistemicTypeOK'
  <2>1. verdicts' \in 0..bound.verdicts
    BY <1>2, BoundsAreNumbers DEF DecideContradiction, EpistemicTypeOK
  <2>2. dispute' \in [Pairs -> Statuses \cup {"none"}]
    BY <1>2 DEF DecideContradiction, EpistemicTypeOK
  <2> QED
    BY <1>2, <2>1, <2>2 DEF DecideContradiction, EpistemicTypeOK, handler
<1> QED
  BY <1>1, <1>2

LEMMA GroupKeepsTypes ==
  ASSUME Store, EpistemicTypeOK, NEW d \in Docs, Group(d) \/ GroupRaises(d)
  PROVE  EpistemicTypeOK'
<1>1. tries' \in [Docs -> 0..bound.deliver]
  BY BoundsAreNumbers DEF Group, GroupRaises, Deliverable, EpistemicTypeOK
<1>2. CASE Group(d)
  <2>1. event[d] # "none"
    BY <1>2 DEF Group, Deliverable
  <2>2. \A f \in Facts[d] : f \in AllFacts /\ subject[f] \in Slugs /\ Parameter[f] \in Slugs
    BY <2>1, FactsAreNamed DEF Store
  <2>3. grouped' \subseteq Clusters \X AllFacts
    BY <1>2, <2>2 DEF Group, ClusterOf, Clusters
  <2>4. hand' \in Docs /\ step' = "grouped"
    BY <1>2 DEF Group
  <2>5. UNCHANGED <<bound, base, event, judged, replays>>
    BY <1>2 DEF Group
  <2> QED
    BY <1>1, <2>3, <2>4, <2>5 DEF EpistemicTypeOK, base, judged
<1>3. CASE GroupRaises(d)
  <2>1. event' \in [Docs -> {"none", "pending", "done", "dead"}]
    BY <1>3 DEF GroupRaises, EpistemicTypeOK
  <2> QED
    BY <1>1, <1>3, <2>1 DEF GroupRaises, EpistemicTypeOK, base, handler, judged
<1> QED
  BY <1>2, <1>3

LEMMA JudgeKeepsTypes ==
  ASSUME EpistemicTypeOK, Judge
  PROVE  EpistemicTypeOK'
<1>1. dispute' \in [Pairs -> Statuses \cup {"none"}]
  BY DEF Judge, Suspect, EpistemicTypeOK, Statuses
<1>2. DOMAIN cell' = Slugs /\ DOMAIN consensus' = Clusters /\ unannounced' \subseteq Slugs
  BY DEF Judge, EpistemicTypeOK
<1>3. member' \subseteq Clusters \X AllFacts
  BY DEF Judge, EpistemicTypeOK
<1> QED
  BY <1>1, <1>2, <1>3 DEF Judge, EpistemicTypeOK

LEMMA SettleKeepsTypes ==
  ASSUME EpistemicTypeOK, Abort \/ \E published, acked \in BOOLEAN : Announce(published, acked)
  PROVE  EpistemicTypeOK'
<1>1. PICK acked : Settle(hand, acked)
  BY DEF Abort, Announce
<1>2. UNCHANGED <<bound, base, tries, judged, replays>>
  BY DEF Abort, Announce
<1>3. event' \in [Docs -> {"none", "pending", "done", "dead"}]
  BY <1>1 DEF Settle, EpistemicTypeOK
<1>4. hand' = None /\ step' = "idle" /\ grouped' = {}
  BY <1>1 DEF Settle
<1> QED
  BY <1>2, <1>3, <1>4 DEF EpistemicTypeOK, base, judged

LEMMA ReplayKeepsTypes ==
  ASSUME EpistemicTypeOK, Replay
  PROVE  EpistemicTypeOK'
<1>1. replays' \in 0..bound.replays /\ tries' \in [Docs -> 0..bound.deliver]
  BY BoundsAreNumbers DEF Replay, EpistemicTypeOK
<1>2. event' \in [Docs -> {"none", "pending", "done", "dead"}]
  BY DEF Replay, EpistemicTypeOK
<1> QED
  BY <1>1, <1>2 DEF Replay, EpistemicTypeOK, base, handler, judged

(* The variables of the catalog and of the answer worker.                   *)
AnswerTypeOK ==
  /\ entities \subseteq Slugs
  /\ carried \in [Docs -> SUBSET Slugs]
  /\ inval \in [Docs -> {"none", "pending", "done", "dead"}]
  /\ invalTries \in [Docs -> 0..bound.invalidate]
  /\ DOMAIN cache = Keys
  /\ asks \in 0..bound.asks

AtStage(r) == r.pc \in {"idle", "search", "facts", "evidence", "augment", "write"}
CallStages == \A a \in Askers : AtStage(ask[a])

LEMMA TypeParts == TypeOK <=> EpistemicTypeOK /\ AnswerTypeOK /\ CallStages
  BY DEF TypeOK, AnswerTypeOK, CallStages, AtStage

LEMMA CatalogKeepsAnswerTypes ==
  ASSUME EpistemicTypeOK, AnswerTypeOK, NEW d \in Docs, Commit(d)
  PROVE  AnswerTypeOK'
<1>1. Named(d) \subseteq Slugs /\ bound' = bound
  BY FactsAreNamed DEF Named, Commit, CommitFacts
<1>2. carried' \in [Docs -> SUBSET Slugs]
  BY <1>1 DEF Commit, AnswerTypeOK
<1>3. inval' \in [Docs -> {"none", "pending", "done", "dead"}]
  BY DEF Commit, AnswerTypeOK
<1> QED
  BY <1>1, <1>2, <1>3 DEF Commit, AnswerTypeOK

LEMMA WorkerKeepsAnswerTypes ==
  ASSUME EpistemicTypeOK, AnswerTypeOK,
         \/ \E d \in Docs, deleted, acked \in BOOLEAN : Invalidate(d, deleted, acked)
         \/ \E k \in Keys : Expire(k)
  PROVE  AnswerTypeOK'
<1>1. ASSUME NEW d \in Docs, NEW deleted, NEW acked, Invalidate(d, deleted, acked)
      PROVE  AnswerTypeOK'
  <2>1. invalTries' \in [Docs -> 0..bound.invalidate]
    BY <1>1, BoundsAreNumbers DEF Invalidate, AnswerTypeOK, EpistemicTypeOK
  <2>2. inval' \in [Docs -> {"none", "pending", "done", "dead"}]
    BY <1>1 DEF Invalidate, AnswerTypeOK
  <2>3. DOMAIN cache' = Keys
    BY <1>1 DEF Invalidate
  <2>4. UNCHANGED <<bound, entities, carried, asks>>
    BY <1>1 DEF Invalidate, epistemicVars, catalogVars
  <2> QED
    BY <2>1, <2>2, <2>3, <2>4 DEF AnswerTypeOK
<1>2. ASSUME NEW k \in Keys, Expire(k) PROVE AnswerTypeOK'
  BY <1>2 DEF Expire, AnswerTypeOK, epistemicVars, catalogVars
<1> QED
  BY <1>1, <1>2

(* What an Ask changes besides the state of its own call.                   *)
LEMMA CallsKeepAnswerTypes ==
  ASSUME EpistemicTypeOK, AnswerTypeOK, NEW a \in Askers,
         \/ \E q \in Questions, l \in DOMAIN Levels : Lookup(a, q, l)
         \/ ExpandEntityIDs(a) \/ ReadFacts(a) \/ ReadConsensus(a)
         \/ augmentFacts(a) \/ Put(a) \/ Drop(a)
  PROVE  AnswerTypeOK'
<1>1. UNCHANGED <<bound, catalogVars, inval, invalTries>>
  BY DEF Lookup, ExpandEntityIDs, ReadFacts, ReadConsensus, augmentFacts, Put, Drop, epistemicVars
<1>2. DOMAIN cache' = Keys
  BY DEF Lookup, ExpandEntityIDs, ReadFacts, ReadConsensus, augmentFacts, Put, Drop, AnswerTypeOK
<1>3. asks' \in 0..bound.asks
  <2>1. CASE UNCHANGED asks
    BY <2>1 DEF AnswerTypeOK
  <2>2. CASE asks < bound.asks /\ asks' = asks + 1
    BY <2>2, BoundsAreNumbers DEF AnswerTypeOK, EpistemicTypeOK
  <2> QED
    BY <2>1, <2>2
       DEF Lookup, ExpandEntityIDs, ReadFacts, ReadConsensus, augmentFacts, Put, Drop
<1> QED
  BY <1>1, <1>2, <1>3 DEF AnswerTypeOK, catalogVars

LEMMA StageStep ==
  ASSUME CacheInv, CallStages, NEW a \in Askers, NEW r, AtStage(r),
         ask' = [ask EXCEPT ![a] = r]
  PROVE  CallStages'
<1>1. ask' = [b \in Askers |-> IF b = a THEN r ELSE ask[b]]
  BY DEF CacheInv
<1> QED
  BY <1>1 DEF CallStages

LEMMA CallsKeepStages ==
  ASSUME CacheInv, CallStages, NEW a \in Askers,
         \/ \E q \in Questions, l \in DOMAIN Levels : Lookup(a, q, l)
         \/ ExpandEntityIDs(a) \/ ReadFacts(a) \/ ReadConsensus(a)
         \/ augmentFacts(a) \/ Put(a) \/ Drop(a)
  PROVE  CallStages'
<1>1. AtStage(Idle) /\ \A q, l : AtStage(Started(q, l))
  BY DEF AtStage, Idle, Started
<1>2. CASE \E q \in Questions, l \in DOMAIN Levels : Lookup(a, q, l)
  <2>1. PICK q, l : ask' = [ask EXCEPT ![a] = IF cache[planCacheKey(q, l)] # None
                                             THEN Idle ELSE Started(q, l)]
    BY <1>2 DEF Lookup
  <2>2. ask' = [ask EXCEPT ![a] = Idle] \/ ask' = [ask EXCEPT ![a] = Started(q, l)]
    BY <2>1
  <2> QED
    BY <1>1, <2>2, StageStep
<1>3. CASE Put(a) \/ Drop(a)
  BY <1>1, <1>3, StageStep DEF Put, Drop
<1>4. ASSUME ask[a].pc # "idle" PROVE "pc" \in DOMAIN ask[a]
  BY <1>4 DEF CacheInv, CallIsClean, CallFields
<1>5. CASE ExpandEntityIDs(a)
  <2> DEFINE r == [ask[a] EXCEPT !.pc = "facts", !.ids = Expand(ask[a].question.plan.entities),
                                 !.before = Handled]
  <2>1. ask' = [ask EXCEPT ![a] = r]
    BY <1>5 DEF ExpandEntityIDs, CacheInv
  <2>2. r.pc = "facts"
    BY <1>4, <1>5 DEF ExpandEntityIDs
  <2>3. AtStage(r)
    BY <2>2 DEF AtStage
  <2> HIDE DEF r
  <2> QED
    BY <2>1, <2>3, StageStep
<1>6. CASE ReadFacts(a)
  <2>0. CallFields \subseteq DOMAIN ask[a] /\ ask = [b \in Askers |-> ask[b]]
    BY <1>6 DEF ReadFacts, CacheInv, CallIsClean
  <2>1. PICK r : ask' = [ask EXCEPT ![a] = r] /\ r.pc = "evidence"
    BY <1>6, <2>0, ReadFactsTakes DEF CallFields
  <2>3. AtStage(r)
    BY <2>1 DEF AtStage
  <2> QED
    BY <2>1, <2>3, StageStep
<1>7. CASE ReadConsensus(a)
  <2> DEFINE v == [c \in ConsensusAbout(ask[a].ids) |-> consensus[c]]
             r == [ask[a] EXCEPT !.pc = "augment", !.verdicts = v]
  <2>1. ask' = [ask EXCEPT ![a] = r]
    BY <1>7 DEF ReadConsensus, CacheInv
  <2>2. r.pc = "augment"
    BY <1>4, <1>7 DEF ReadConsensus
  <2>3. AtStage(r)
    BY <2>2 DEF AtStage
  <2> HIDE DEF r
  <2> QED
    BY <2>1, <2>3, StageStep
<1>8. CASE augmentFacts(a)
  <2> DEFINE S == {f \in Stored : /\ Sample[f].doc \in ask[a].question.text
                                  /\ Access[Sample[f].doc] \in Levels["internal"]}
             few == Cardinality(ask[a].found) < MinFacts /\ S # {}
             r == [ask[a] EXCEPT !.pc = "write", !.found = IF few THEN S ELSE @,
                                 !.source = IF few THEN "text" ELSE "graph"]
  <2>1. ask' = [ask EXCEPT ![a].pc = "write", ![a].found = IF few THEN S ELSE @,
                           ![a].source = IF few THEN "text" ELSE "graph"]
    BY <1>8 DEF augmentFacts
  <2>2. ask' = [ask EXCEPT ![a] = r]
    BY <2>1 DEF CacheInv
  <2>3. r.pc = "write"
    BY <1>4, <1>8 DEF augmentFacts
  <2>4. AtStage(r)
    BY <2>3 DEF AtStage
  <2> HIDE DEF r
  <2> QED
    BY <2>2, <2>4, StageStep
<1> QED
  BY <1>2, <1>3, <1>5, <1>6, <1>7, <1>8

LEMMA StepKeepsTypes == JudgedInv /\ CacheInv /\ TypeOK /\ [Next]_vars => TypeOK'
<1> SUFFICES ASSUME Store, CacheInv, EpistemicTypeOK, AnswerTypeOK, CallStages, [Next]_vars
             PROVE  EpistemicTypeOK' /\ AnswerTypeOK' /\ CallStages'
  BY TypeParts DEF JudgedInv, TypeOK, AnswerTypeOK, CallStages, AtStage
<1>1. UNCHANGED epistemicVars => EpistemicTypeOK'
  BY DEF epistemicVars, base, handler, judged, EpistemicTypeOK
<1>2. UNCHANGED <<bound, catalogVars, answerVars>> => AnswerTypeOK'
  BY DEF catalogVars, answerVars, AnswerTypeOK
<1>3. UNCHANGED ask => CallStages'
  BY DEF CallStages
<1>4. CASE UNCHANGED vars
  BY <1>1, <1>2, <1>3, <1>4 DEF vars, answerVars, epistemicVars
<1>5. ASSUME NEW d \in Docs, Commit(d)
      PROVE  EpistemicTypeOK' /\ AnswerTypeOK' /\ CallStages'
  BY <1>3, <1>5, CommitKeepsTypes, CatalogKeepsAnswerTypes DEF Commit
<1>6. CASE (Handle \/ Replay) /\ UNCHANGED <<catalogVars, answerVars>>
  <2>1. bound' = bound
    BY <1>6 DEF Handle, Group, GroupRaises, Judge, Abort, Announce, Replay
  <2>2. EpistemicTypeOK'
    BY <1>6, GroupKeepsTypes, JudgeKeepsTypes, SettleKeepsTypes, ReplayKeepsTypes DEF Handle
  <2> QED
    BY <1>2, <1>3, <1>6, <2>1, <2>2 DEF answerVars
<1>7. ASSUME NEW x \in Slugs, NEW y \in Slugs, MergeSubjects(x, y),
             UNCHANGED <<catalogVars, answerVars>>
      PROVE  EpistemicTypeOK' /\ AnswerTypeOK' /\ CallStages'
  BY <1>2, <1>3, <1>7, MergeKeepsTypes DEF MergeSubjects, answerVars
<1>8. CASE /\ \/ \E f \in AllFacts, s \in FactStatuses : UpdateFactStatus(f, s)
              \/ \E p \in Pairs, s \in Statuses \ {"suspected"} : DecideContradiction(p, s)
           /\ UNCHANGED <<catalogVars, answerVars>>
  <2>1. bound' = bound
    BY <1>8 DEF UpdateFactStatus, DecideContradiction
  <2> QED
    BY <1>2, <1>3, <1>8, <2>1, VerdictsKeepTypes DEF answerVars
<1>9. CASE \/ \E d \in Docs, deleted, acked \in BOOLEAN : Invalidate(d, deleted, acked)
           \/ \E k \in Keys : Expire(k)
  <2>1. UNCHANGED <<epistemicVars, ask>>
    BY <1>9 DEF Invalidate, Expire
  <2> QED
    BY <1>1, <1>3, <1>9, <2>1, WorkerKeepsAnswerTypes
<1>10. ASSUME NEW a \in Askers,
              \/ \E q \in Questions, l \in DOMAIN Levels : Lookup(a, q, l)
              \/ ExpandEntityIDs(a) \/ ReadFacts(a) \/ ReadConsensus(a)
              \/ augmentFacts(a) \/ Put(a) \/ Drop(a)
       PROVE  EpistemicTypeOK' /\ AnswerTypeOK' /\ CallStages'
  <2>1. UNCHANGED epistemicVars
    BY <1>10 DEF Lookup, ExpandEntityIDs, ReadFacts, ReadConsensus, augmentFacts, Put, Drop
  <2> QED
    BY <1>1, <1>10, <2>1, CallsKeepAnswerTypes, CallsKeepStages
<1> QED
  BY <1>4, <1>5, <1>6, <1>7, <1>8, <1>9, <1>10 DEF Next

(* Every variable keeps its type: no delivery, merge, verdict, replay or    *)
(* call is counted beyond its bound, and every call is at a stage of Ask.   *)
THEOREM TypesAreKept == Spec => []TypeOK
<1>1. Init => TypeOK /\ CacheInv
  <2> SUFFICES ASSUME Init PROVE TypeOK /\ CacheInv
    OBVIOUS
  <2>1. CacheInv
    BY DEF Init, CacheInv, CallIsClean, Idle, CachedForItsLevel
  <2>2. EpistemicTypeOK
    BY BoundsAreNumbers DEF Init, EpistemicInit, EpistemicTypeOK
  <2>3. AnswerTypeOK /\ CallStages
    BY BoundsAreNumbers DEF Init, EpistemicInit, AnswerTypeOK, CallStages, AtStage, Idle
  <2> QED
    BY <2>1, <2>2, <2>3, TypeParts
<1> QED
  BY <1>1, JudgedInitially, StepKeepsJudged, StepKeepsTypes, StepKeepsCacheClean, PTL DEF Spec

-----------------------------------------------------------------------------
(* What agreement means.  A finite set of numbers has a greatest and a      *)
(* least one: of the finite sets of the numbers not below, or not above,    *)
(* one of its members, one contains no other.                               *)
LEMMA FiniteSetHasMax ==
  ASSUME NEW S, S \subseteq Int, IsFiniteSet(S), S # {}
  PROVE  Max(S) \in S /\ \A x \in S : x <= Max(S)
<1> DEFINE Above(x) == {y \in S : y >= x}
           T == {Above(x) : x \in S}
<1>1. T \subseteq FiniteSubsetsOf(S) /\ T # {}
  <2>1. \A x \in S : IsFiniteSet(Above(x)) /\ Above(x) \subseteq S
    BY FS_Subset
  <2> QED
    BY <2>1 DEF FiniteSubsetsOf
<1>2. PICK U \in T : \A V \in T : ~ (<<V, U>> \in StrictSubsetOrdering(S))
  <2> HIDE DEF T
  <2> QED
    BY <1>1, FS_StrictSubsetOrderingWellFounded, WFMin
<1>3. PICK m \in S : U = Above(m)
  BY <1>2
<1>4. ASSUME NEW y \in S, y > m PROVE FALSE
  <2>1. Above(y) \subseteq Above(m) /\ m \in Above(m) /\ m \notin Above(y)
    <3>1. m \in Int /\ y \in Int /\ y > m
      BY <1>4
    <3>2. ASSUME NEW z \in Above(y) PROVE z \in Above(m)
      <4>1. z \in S /\ z \in Int /\ z >= y
        OBVIOUS
      <4>2. z >= m
        BY <3>1, <4>1
      <4> QED
        BY <4>1, <4>2
    <3>3. m \in Above(m) /\ m \notin Above(y)
      BY <3>1
    <3> QED
      BY <3>2, <3>3
  <2>2. Above(y) \in T /\ Above(y) \subseteq S /\ Above(m) \subseteq S
    OBVIOUS
  <2> HIDE DEF Above, T
  <2>3. <<Above(y), U>> \in StrictSubsetOrdering(S)
    BY <1>3, <2>1, <2>2 DEF StrictSubsetOrdering
  <2> QED
    BY <1>2, <2>2, <2>3
<1> HIDE DEF Above, T
<1>5. \A y \in S : m >= y
  BY <1>4
<1>6. Max(S) \in S /\ \A y \in S : Max(S) >= y
  BY <1>5 DEF Max
<1> QED
  BY <1>6

LEMMA FiniteSetHasMin ==
  ASSUME NEW S, S \subseteq Int, IsFiniteSet(S), S # {}
  PROVE  Min(S) \in S /\ \A x \in S : Min(S) <= x
<1> DEFINE Below(x) == {y \in S : y <= x}
           T == {Below(x) : x \in S}
<1>1. T \subseteq FiniteSubsetsOf(S) /\ T # {}
  <2>1. \A x \in S : IsFiniteSet(Below(x)) /\ Below(x) \subseteq S
    BY FS_Subset
  <2> QED
    BY <2>1 DEF FiniteSubsetsOf
<1>2. PICK U \in T : \A V \in T : ~ (<<V, U>> \in StrictSubsetOrdering(S))
  <2> HIDE DEF T
  <2> QED
    BY <1>1, FS_StrictSubsetOrderingWellFounded, WFMin
<1>3. PICK m \in S : U = Below(m)
  BY <1>2
<1>4. ASSUME NEW y \in S, y < m PROVE FALSE
  <2>1. Below(y) \subseteq Below(m) /\ m \in Below(m) /\ m \notin Below(y)
    <3>1. m \in Int /\ y \in Int /\ y < m
      BY <1>4
    <3>2. ASSUME NEW z \in Below(y) PROVE z \in Below(m)
      <4>1. z \in S /\ z \in Int /\ z <= y
        OBVIOUS
      <4>2. z <= m
        BY <3>1, <4>1
      <4> QED
        BY <4>1, <4>2
    <3>3. m \in Below(m) /\ m \notin Below(y)
      BY <3>1
    <3> QED
      BY <3>2, <3>3
  <2>2. Below(y) \in T /\ Below(y) \subseteq S /\ Below(m) \subseteq S
    OBVIOUS
  <2> HIDE DEF Below, T
  <2>3. <<Below(y), U>> \in StrictSubsetOrdering(S)
    BY <1>3, <2>1, <2>2 DEF StrictSubsetOrdering
  <2> QED
    BY <1>2, <2>2, <2>3
<1> HIDE DEF Below, T
<1>5. \A y \in S : m <= y
  BY <1>4
<1> QED
  BY <1>5 DEF Min

LEMMA PairIsFinite ==
  ASSUME NEW x, NEW y
  PROVE  IsFiniteSet({x, y})
<1>1. IsFiniteSet({x} \cup {y})
  BY FS_Singleton, FS_AddElement
<1>2. {x} \cup {y} = {x, y}
  OBVIOUS
<1> QED
  BY <1>1, <1>2

(* The ends of a fact are numbers, in order.                                *)
LEMMA EndsAreInOrder ==
  ASSUME NEW f \in AllFacts
  PROVE  Lo(f) \in Int /\ Hi(f) \in Int /\ Lo(f) <= Hi(f)
<1> DEFINE lo == Sample[f].lo
           hi == Sample[f].hi
<1>1. lo \in Int /\ hi \in Int
  BY EpistemicAssumption
<1> HIDE DEF lo, hi
<1>2. CASE lo = hi
  <2>1. Lo(f) = 50 * lo - Magnitude(lo) /\ Hi(f) = 50 * hi + Magnitude(hi)
    BY <1>2 DEF Lo, Hi, lo, hi, Scale
  <2>2. Magnitude(lo) \in Nat
    BY <1>1 DEF Magnitude
  <2> QED
    BY <1>1, <1>2, <2>1, <2>2
<1>3. CASE lo # hi
  <2>1. Lo(f) = Scale * Min({lo, hi}) /\ Hi(f) = Scale * Max({lo, hi})
    BY <1>3, Zenon DEF Lo, Hi, lo, hi
  <2>2. IsFiniteSet({lo, hi})
    BY PairIsFinite
  <2>3. /\ Min({lo, hi}) \in {lo, hi} /\ Min({lo, hi}) <= lo
        /\ Max({lo, hi}) \in {lo, hi} /\ lo <= Max({lo, hi})
    BY <1>1, <2>2, FiniteSetHasMax, FiniteSetHasMin
  <2> QED
    BY <1>1, <2>1, <2>3 DEF Scale
<1> QED
  BY <1>2, <1>3

LEMMA ImageIsFinite ==
  ASSUME NEW S, IsFiniteSet(S), NEW g
  PROVE  IsFiniteSet({g[f] : f \in S})
<1> DEFINE T == {g[f] : f \in S}
           h == [f \in S |-> g[f]]
<1>1. h \in Surjection(S, T)
  BY DEF Surjection
<1> QED
  BY <1>1, FS_Surjection

(* The common part of ranges at least half as long as their hull is one     *)
(* every two of them share; a hull of no length is one value.               *)
LEMMA HalfIsShared ==
  ASSUME NEW S, S \subseteq AllFacts, IsFiniteSet(S), OverlapsByHalf(S),
         NEW f \in S, NEW g \in S
  PROVE  Lo(f) <= Hi(g)
<1> DEFINE los == {Lo(x) : x \in S}
           his == {Hi(x) : x \in S}
<1>1. los \subseteq Int /\ his \subseteq Int /\ los # {} /\ his # {}
  BY EndsAreInOrder
<1>2. IsFiniteSet(los) /\ IsFiniteSet(his)
  <2> DEFINE low == [x \in S |-> Lo(x)]
             high == [x \in S |-> Hi(x)]
  <2>1. los = {low[x] : x \in S} /\ his = {high[x] : x \in S}
    OBVIOUS
  <2> HIDE DEF low, high, los, his
  <2>2. IsFiniteSet({low[x] : x \in S}) /\ IsFiniteSet({high[x] : x \in S})
    BY ImageIsFinite
  <2> QED
    BY <2>1, <2>2
<1>3. /\ Lo(f) \in los /\ Lo(g) \in los /\ Hi(f) \in his /\ Hi(g) \in his
      /\ Lo(f) <= Hi(f) /\ Lo(g) <= Hi(g)
  BY EndsAreInOrder
<1>4. Span(S) = Max(his) - Min(los) /\ Shared(S) = Max({0, Min(his) - Max(los)})
  BY DEF Span, Shared
<1> HIDE DEF los, his
<1>5. /\ Max(his) \in Int /\ Min(his) \in Int /\ Max(los) \in Int /\ Min(los) \in Int
      /\ Hi(f) <= Max(his) /\ Min(his) <= Hi(g)
      /\ Lo(f) <= Max(los) /\ Min(los) <= Lo(f) /\ Min(los) <= Lo(g)
  BY <1>1, <1>2, <1>3, FiniteSetHasMax, FiniteSetHasMin
<1>6. Lo(f) \in Int /\ Hi(f) \in Int /\ Lo(g) \in Int /\ Hi(g) \in Int
  BY EndsAreInOrder
<1>7. CASE Span(S) <= 0
  BY <1>3, <1>4, <1>5, <1>6, <1>7
<1>8. CASE Span(S) > 0 /\ 2 * Shared(S) >= Span(S)
  <2> DEFINE gap == Min(his) - Max(los)
  <2>1. gap \in Int
    BY <1>5
  <2>2. Shared(S) = Max({0, gap})
    BY <1>4
  <2> HIDE DEF gap
  <2>3. IsFiniteSet({0, gap})
    BY PairIsFinite
  <2>4. Max({0, gap}) \in {0, gap}
    BY <2>1, <2>3, FiniteSetHasMax
  <2>5. Span(S) \in Int
    BY <1>4, <1>5
  <2>6. gap > 0
    BY <1>8, <2>1, <2>2, <2>4, <2>5
  <2>7. Max(los) < Min(his)
    BY <1>5, <2>6 DEF gap
  <2> QED
    BY <1>5, <1>6, <2>7
<1> QED
  BY <1>4, <1>5, <1>7, <1>8 DEF OverlapsByHalf

(* Only an event's own facts join the clusters with it: they stay finite.   *)
FiniteClusters == \A c \in Clusters : IsFiniteSet(Members(c))

LEMMA ClustersFiniteInitially == Init => FiniteClusters
<1>1. ASSUME Init, NEW c \in Clusters PROVE Members(c) = {}
  BY <1>1 DEF Init, EpistemicInit, Members
<1> QED
  BY <1>1, FS_EmptySet DEF FiniteClusters

LEMMA StepKeepsFinite == JudgedInv /\ FiniteClusters /\ [Next]_vars => FiniteClusters'
<1> SUFFICES ASSUME JudgedInv, FiniteClusters, [Next]_vars PROVE FiniteClusters'
  OBVIOUS
<1>1. CASE UNCHANGED member
  BY <1>1 DEF FiniteClusters, Members
<1>2. CASE Judge
  <2>1. /\ hand \in Docs /\ member' = member \cup grouped
        /\ \A m \in grouped : m \in Clusters \X Facts[hand]
    BY <1>2 DEF Judge, JudgedInv, Consumer
  <2>2. IsFiniteSet(Facts[hand])
    BY <2>1, EpistemicAssumption
  <2>3. ASSUME NEW c \in Clusters
        PROVE  Members(c)' \subseteq Members(c) \cup Facts[hand]
    BY <2>1 DEF Members
  <2>4. ASSUME NEW c \in Clusters PROVE IsFiniteSet(Members(c)')
    <3>1. IsFiniteSet(Members(c) \cup Facts[hand])
      BY <2>2, FS_Union DEF FiniteClusters
    <3> QED
      BY <2>3, <3>1, FS_Subset
  <2> QED
    BY <2>4 DEF FiniteClusters
<1>3. CASE Handle \/ Replay
  BY <1>1, <1>2, <1>3 DEF Handle, Group, GroupRaises, Abort, Announce, Replay, judged
<1> QED
  BY <1>1, <1>3 DEF Next, vars, epistemicVars, judged, Commit, CommitFacts, MergeSubjects,
     UpdateFactStatus, DecideContradiction, Invalidate, Expire, Lookup, ExpandEntityIDs, ReadFacts,
     ReadConsensus, augmentFacts, Put, Drop

LEMMA ConsensusOverlaps ==
  ASSUME JudgedInv, FiniteClusters
  PROVE  ConsensusMeansOverlap
<1> SUFFICES ASSUME NEW c \in {m[1] : m \in member}, consensus[c].verdict = "consensus",
                    NEW f \in Ranged(Members(c)), NEW g \in Ranged(Members(c))
             PROVE  Lo(f) <= Hi(g) /\ Lo(g) <= Hi(f)
  BY DEF ConsensusMeansOverlap
<1> DEFINE S == Ranged(Members(c))
<1>1. c \in Clusters /\ consensus[c] = ComputeConsensus(Members(c))
  BY DEF JudgedInv, Verdicts, ClustersAreJudged
<1>2. S \subseteq AllFacts /\ IsFiniteSet(S)
  <2>1. S \subseteq Members(c) /\ Members(c) \subseteq AllFacts
    BY DEF Ranged, Members
  <2> QED
    BY <1>1, <2>1, FS_Subset DEF FiniteClusters
<1>3. consensus[c].verdict = Verdict(S)
  BY <1>1 DEF ComputeConsensus
<1> HIDE DEF S
<1>4. OverlapsByHalf(S)
  BY <1>3 DEF Verdict
<1>5. f \in S /\ g \in S
  BY DEF S
<1> QED
  BY <1>2, <1>4, <1>5, HalfIsShared

(* Where sources are said to agree every two of their ranges overlap,       *)
(* however many there are and whatever events and merges brought them.      *)
THEOREM AgreementMeansOverlap == Spec => []ConsensusMeansOverlap
<1> QED
  BY ClustersFiniteInitially, JudgedInitially, StepKeepsJudged, StepKeepsFinite,
     ConsensusOverlaps, PTL DEF Spec

-----------------------------------------------------------------------------
(* Sums of weights.  A sum is a recursive function on the subsets of a set; *)
(* what holds of it is shown of the smallest set it might not hold of.      *)
LEMMA SmallestSet ==
  ASSUME NEW S, IsFiniteSet(S), NEW C, C \subseteq SUBSET S, C # {}
  PROVE  \E U \in C : \A V \in C : V \subseteq U => V = U
<1>1. C \subseteq FiniteSubsetsOf(S)
  BY FS_Subset DEF FiniteSubsetsOf
<1>2. PICK U \in C : \A V \in C : ~ (<<V, U>> \in StrictSubsetOrdering(S))
  BY <1>1, FS_StrictSubsetOrderingWellFounded, WFMin
<1>3. \A V \in C : V \subseteq U => V = U
  BY <1>2 DEF StrictSubsetOrdering
<1> QED
  BY <1>3

Pick(s) == CHOOSE x \in s : TRUE

SumOn(h, S) ==
  h = [s \in SUBSET S |-> IF s = {} THEN 0 ELSE Weight(Pick(s)) + h[s \ {Pick(s)}]]

LEMMA PickIsMember == ASSUME NEW S, S # {} PROVE Pick(S) \in S
  BY DEF Pick

LEMMA WeightOfIsSum ==
  ASSUME NEW S
  PROVE  WeightOf(S) = (CHOOSE h : SumOn(h, S))[S]
  BY Zenon DEF WeightOf, MapThenSumSet, MapThenFoldSet, SumOn, Pick

LEMMA SumStep ==
  ASSUME NEW S, NEW h, SumOn(h, S), NEW s, s \subseteq S
  PROVE  /\ s = {} => h[s] = 0
         /\ s # {} => h[s] = Weight(Pick(s)) + h[s \ {Pick(s)}]
  BY Zenon DEF SumOn

LEMMA SumsAgree ==
  ASSUME NEW U, NEW V, IsFiniteSet(V), V \subseteq U,
         NEW h, SumOn(h, V), NEW g, SumOn(g, U)
  PROVE  h[V] = g[V]
<1> DEFINE C == {W \in SUBSET V : h[W] # g[W]}
<1>1. CASE C = {}
  BY <1>1
<1>2. CASE C # {}
  <2>1. PICK W \in C : \A X \in C : X \subseteq W => X = W
    <3>1. C \subseteq SUBSET V
      OBVIOUS
    <3> HIDE DEF C
    <3> QED
      BY <1>2, <3>1, SmallestSet
  <2>2. W \subseteq V /\ W \subseteq U /\ h[W] # g[W]
    OBVIOUS
  <2>3. W # {}
    BY <2>2, SumStep
  <2> DEFINE R == W \ {Pick(W)}
  <2>4. R \subseteq W /\ R # W /\ R \subseteq V
    BY <2>2, <2>3, PickIsMember
  <2>5. h[R] = g[R]
    BY <2>1, <2>4
  <2>6. h[W] = Weight(Pick(W)) + h[R] /\ g[W] = Weight(Pick(W)) + g[R]
    BY <2>2, <2>3, SumStep
  <2> QED
    BY <2>2, <2>5, <2>6
<1> QED
  BY <1>1, <1>2

TheSum(S) == CHOOSE h : SumOn(h, S)
Summable(S) == \E h : SumOn(h, S)

LEMMA TheSumIsOne == ASSUME NEW S, Summable(S) PROVE SumOn(TheSum(S), S)
  BY Zenon DEF Summable, TheSum

(* The sums over the subsets of U that lack a member make up the one over U. *)
LEMMA SumExtends ==
  ASSUME NEW U, IsFiniteSet(U), \A V \in SUBSET U : V # U => Summable(V)
  PROVE  Summable(U)
<1> DEFINE Rest(s) == s \ {Pick(s)}
           h == [s \in SUBSET U |-> IF s = {} THEN 0
                                    ELSE Weight(Pick(s)) + TheSum(Rest(s))[Rest(s)]]
<1>1. ASSUME NEW s \in SUBSET U, s # {}
      PROVE  /\ Rest(s) \in SUBSET U /\ IsFiniteSet(Rest(s))
             /\ SumOn(TheSum(Rest(s)), Rest(s))
  <2>1. Pick(s) \in s /\ Pick(s) \in U
    BY <1>1, PickIsMember
  <2>2. Rest(s) \subseteq U /\ Rest(s) # U
    BY <2>1
  <2> QED
    BY <2>2, TheSumIsOne, FS_Subset
<1>2. ASSUME NEW s \in SUBSET U, s # {} PROVE TheSum(Rest(s))[Rest(s)] = h[Rest(s)]
  <2> DEFINE t == Rest(s)
  <2>1. t \in SUBSET U /\ IsFiniteSet(t) /\ SumOn(TheSum(t), t)
    BY <1>1, <1>2
  <2>2. CASE t = {}
    <3>1. TheSum(t)[t] = 0
      <4> HIDE DEF t
      <4> QED
        BY <2>1, <2>2, SumStep
    <3> QED
      BY <2>1, <2>2, <3>1
  <2>3. CASE t # {}
    <3>1. IsFiniteSet(Rest(t)) /\ SumOn(TheSum(Rest(t)), Rest(t)) /\ Rest(t) \subseteq t
      BY <1>1, <2>1, <2>3
    <3>2. SumOn(TheSum(t), t) /\ t \in SUBSET U
      BY <2>1
    <3> HIDE DEF t
    <3>3. TheSum(t)[t] = Weight(Pick(t)) + TheSum(t)[Rest(t)]
      BY <2>3, <3>2, SumStep
    <3>4. TheSum(Rest(t))[Rest(t)] = TheSum(t)[Rest(t)]
      <4> DEFINE u == Rest(t)
      <4>1. IsFiniteSet(u) /\ SumOn(TheSum(u), u) /\ u \subseteq t
        BY <3>1
      <4> HIDE DEF u
      <4>2. TheSum(u)[u] = TheSum(t)[u]
        BY <3>2, <4>1, SumsAgree
      <4> QED
        BY <4>2 DEF u
    <3>5. h[t] = Weight(Pick(t)) + TheSum(Rest(t))[Rest(t)]
      BY <2>3, <3>2
    <3> HIDE DEF h, Rest
    <3>6. TheSum(t)[t] = h[t]
      BY <3>3, <3>4, <3>5
    <3> QED
      BY <3>6 DEF t
  <2> QED
    BY <2>2, <2>3
<1>3. \A s \in SUBSET U : h[s] = IF s = {} THEN 0 ELSE Weight(Pick(s)) + h[Rest(s)]
  BY <1>2
<1>4. h = [s \in SUBSET U |-> h[s]]
  OBVIOUS
<1>5. SumOn(h, U)
  <2> HIDE DEF h
  <2> QED
    BY <1>3, <1>4, Zenon DEF SumOn
<1> QED
  BY <1>5 DEF Summable

LEMMA SumExists == ASSUME NEW S, IsFiniteSet(S) PROVE Summable(S)
<1> DEFINE C == {V \in SUBSET S : ~ Summable(V)}
<1>1. CASE C = {}
  BY <1>1
<1>2. CASE C # {}
  <2>1. PICK U \in C : \A V \in C : V \subseteq U => V = U
    <3>1. C \subseteq SUBSET S
      OBVIOUS
    <3> HIDE DEF C
    <3> QED
      BY <1>2, <3>1, SmallestSet
  <2>2. U \subseteq S /\ ~ Summable(U)
    OBVIOUS
  <2>3. IsFiniteSet(U)
    BY <2>2, FS_Subset
  <2>4. \A V \in SUBSET U : V # U => Summable(V)
    BY <2>1, <2>2
  <2> QED
    BY <2>2, <2>3, <2>4, SumExtends
<1> QED
  BY <1>1, <1>2

LEMMA WeightOfRest ==
  ASSUME NEW S, IsFiniteSet(S)
  PROVE  /\ S = {} => WeightOf(S) = 0
         /\ S # {} => WeightOf(S) = Weight(Pick(S)) + WeightOf(S \ {Pick(S)})
<1>1. ASSUME NEW V, IsFiniteSet(V)
      PROVE  SumOn(TheSum(V), V) /\ WeightOf(V) = TheSum(V)[V]
  <2>1. Summable(V)
    BY <1>1, SumExists
  <2>2. WeightOf(V) = TheSum(V)[V]
    BY WeightOfIsSum DEF TheSum
  <2> QED
    BY <2>1, <2>2, TheSumIsOne
<1>2. CASE S = {}
  <2>1. SumOn(TheSum(S), S) /\ WeightOf(S) = TheSum(S)[S]
    BY <1>1
  <2>2. TheSum(S)[S] = 0
    BY <1>2, <2>1, SumStep
  <2> QED
    BY <1>2, <2>1, <2>2
<1>3. CASE S # {}
  <2> DEFINE R == S \ {Pick(S)}
  <2>1. R \subseteq S /\ IsFiniteSet(R)
    BY FS_Subset
  <2>2. TheSum(S)[S] = Weight(Pick(S)) + TheSum(S)[R]
    BY <1>1, <1>3, SumStep
  <2> HIDE DEF R
  <2>3. TheSum(R)[R] = TheSum(S)[R]
    BY <1>1, <2>1, SumsAgree
  <2>4. WeightOf(S) = Weight(Pick(S)) + WeightOf(R)
    BY <1>1, <2>1, <2>2, <2>3
  <2> QED
    BY <1>3, <2>4 DEF R
<1> QED
  BY <1>2, <1>3

(* Weights of facts are positive; a sum does not depend on the order.       *)
LEMMA WeightsArePositive ==
  ASSUME NEW f \in AllFacts
  PROVE  Weight(f) \in Nat /\ Weight(f) >= 1
<1> DEFINE raw == 1000 * Sample[f].confidence * Reliability(Sample[f].docType)
                  * Freshness(Sample[f].year)
<1>1. Sample[f].confidence \in Int /\ Freshness(Sample[f].year) \in Int
  BY EpistemicAssumption
<1>2. Reliability(Sample[f].docType) \in Int
  BY DEF Reliability
<1>3. raw \in Int
  BY <1>1, <1>2
<1>4. Weight(f) = Max({1, raw})
  BY DEF Weight
<1> HIDE DEF raw
<1>5. Max({1, raw}) \in {1, raw} /\ 1 <= Max({1, raw})
  <2>1. {1, raw} \subseteq Int /\ {1, raw} # {}
    BY <1>3
  <2>2. IsFiniteSet({1, raw})
    BY PairIsFinite
  <2> QED
    BY <2>1, <2>2, FiniteSetHasMax
<1> QED
  BY <1>3, <1>4, <1>5

LEMMA WeightOfNat ==
  ASSUME NEW S, S \subseteq AllFacts, IsFiniteSet(S)
  PROVE  WeightOf(S) \in Nat
<1> DEFINE IsNat(V) == WeightOf(V) \in Nat
           C == {V \in SUBSET S : ~ IsNat(V)}
<1>1. CASE C = {}
  BY <1>1
<1>2. CASE C # {}
  <2>1. PICK U \in C : \A V \in C : V \subseteq U => V = U
    <3>1. C \subseteq SUBSET S
      OBVIOUS
    <3> HIDE DEF C
    <3> QED
      BY <1>2, <3>1, SmallestSet
  <2>2. U \subseteq S /\ IsFiniteSet(U) /\ ~ IsNat(U)
    <3>1. U \subseteq S /\ ~ IsNat(U)
      BY Zenon
    <3> QED
      BY <3>1, FS_Subset
  <2>3. U # {}
    <3>1. WeightOf({}) = 0
      BY FS_EmptySet, WeightOfRest
    <3> QED
      BY <2>2, <3>1
  <2> DEFINE R == U \ {Pick(U)}
  <2>4. Pick(U) \in AllFacts /\ R \subseteq U /\ R # U /\ R \subseteq S
    BY <2>2, <2>3, PickIsMember
  <2>5. WeightOf(R) \in Nat
    BY <2>1, <2>4
  <2>6. WeightOf(U) = Weight(Pick(U)) + WeightOf(R)
    BY <2>2, <2>3, WeightOfRest
  <2> QED
    BY <2>2, <2>4, <2>5, <2>6, WeightsArePositive
<1> QED
  BY <1>1, <1>2

LEMMA WeightOfRemoved ==
  ASSUME NEW S, S \subseteq AllFacts, IsFiniteSet(S), NEW x \in S
  PROVE  WeightOf(S) = Weight(x) + WeightOf(S \ {x})
<1> DEFINE Adds(V) == \A y \in V : WeightOf(V) = Weight(y) + WeightOf(V \ {y})
           C == {V \in SUBSET S : ~ Adds(V)}
<1>1. CASE C = {}
  BY <1>1
<1>2. CASE C # {}
  <2>1. PICK U \in C : \A V \in C : V \subseteq U => V = U
    <3>1. C \subseteq SUBSET S
      OBVIOUS
    <3> HIDE DEF C
    <3> QED
      BY <1>2, <3>1, SmallestSet
  <2>2. U \subseteq S /\ IsFiniteSet(U) /\ ~ Adds(U)
    BY FS_Subset
  <2>3. \A V : V \subseteq U /\ V # U => Adds(V)
    BY <2>1, <2>2
  <2>4. PICK y \in U : WeightOf(U) # Weight(y) + WeightOf(U \ {y})
    BY <2>2
  <2> DEFINE p == Pick(U)
  <2>5. p \in U /\ WeightOf(U) = Weight(p) + WeightOf(U \ {p})
    BY <2>2, <2>4, PickIsMember, WeightOfRest
  <2>6. p # y
    BY <2>4, <2>5
  <2> HIDE DEF p, C
  <2>7. WeightOf(U \ {p}) = Weight(y) + WeightOf((U \ {p}) \ {y})
    <3>1. Adds(U \ {p}) /\ y \in U \ {p}
      BY <2>3, <2>4, <2>5, <2>6
    <3> QED
      BY <3>1
  <2>8. WeightOf(U \ {y}) = Weight(p) + WeightOf((U \ {y}) \ {p})
    <3>1. Adds(U \ {y}) /\ p \in U \ {y}
      BY <2>3, <2>4, <2>5, <2>6
    <3> QED
      BY <3>1
  <2>9. (U \ {p}) \ {y} = (U \ {y}) \ {p}
    OBVIOUS
  <2>10. /\ Weight(p) \in Nat /\ Weight(y) \in Nat
         /\ WeightOf((U \ {p}) \ {y}) \in Nat
    <3>1. (U \ {p}) \ {y} \subseteq U
      OBVIOUS
    <3> QED
      BY <2>2, <2>4, <2>5, <3>1, FS_Subset, WeightOfNat, WeightsArePositive
  <2> QED
    BY <2>4, <2>5, <2>7, <2>8, <2>9, <2>10
<1> QED
  BY <1>1, <1>2

LEMMA WeightOfUnion ==
  ASSUME NEW A, NEW B, A \subseteq AllFacts, B \subseteq AllFacts,
         IsFiniteSet(A), IsFiniteSet(B), A \cap B = {}
  PROVE  WeightOf(A \cup B) = WeightOf(A) + WeightOf(B)
<1> DEFINE Adds(V) == WeightOf(V \cup B) = WeightOf(V) + WeightOf(B)
           C == {V \in SUBSET A : ~ Adds(V)}
<1>1. CASE C = {}
  BY <1>1
<1>2. CASE C # {}
  <2>1. PICK U \in C : \A V \in C : V \subseteq U => V = U
    <3>1. C \subseteq SUBSET A
      OBVIOUS
    <3> HIDE DEF C
    <3> QED
      BY <1>2, <3>1, SmallestSet
  <2>2. U \subseteq A /\ IsFiniteSet(U) /\ ~ Adds(U)
    BY FS_Subset
  <2>3. \A V : V \subseteq U /\ V # U => Adds(V)
    BY <2>1, <2>2
  <2> HIDE DEF C
  <2>4. CASE U = {}
    <3>1. WeightOf(U) = 0
      BY <2>2, <2>4, WeightOfRest
    <3>2. U \cup B = B
      BY <2>4
    <3> QED
      <4>1. WeightOf(B) \in Nat
        BY WeightOfNat
      <4>2. WeightOf(U \cup B) = WeightOf(U) + WeightOf(B)
        BY <3>1, <3>2, <4>1
      <4> QED
        BY <2>2, <4>2
  <2>5. CASE U # {}
    <3>1. PICK x \in U : TRUE
      BY <2>5
    <3> DEFINE R == U \ {x}
    <3>2. WeightOf(U) = Weight(x) + WeightOf(R)
      BY <2>2, WeightOfRemoved
    <3>3. WeightOf(U \cup B) = Weight(x) + WeightOf(R \cup B)
      <4>1. /\ U \cup B \subseteq AllFacts /\ IsFiniteSet(U \cup B) /\ x \in U \cup B
            /\ (U \cup B) \ {x} = R \cup B
        BY <2>2, FS_Union
      <4> HIDE DEF R
      <4>2. WeightOf(U \cup B) = Weight(x) + WeightOf((U \cup B) \ {x})
        BY <4>1, WeightOfRemoved
      <4> QED
        BY <4>1, <4>2
    <3>4. Adds(R)
      BY <2>3
    <3>5. R \subseteq AllFacts /\ IsFiniteSet(R)
      BY <2>2, FS_Subset
    <3>6. Weight(x) \in Nat /\ WeightOf(R) \in Nat /\ WeightOf(B) \in Nat
      <4> HIDE DEF R
      <4> QED
        BY <2>2, <3>5, WeightOfNat, WeightsArePositive
    <3> HIDE DEF R
    <3> QED
      BY <2>2, <3>2, <3>3, <3>4, <3>6
  <2> QED
    BY <2>4, <2>5
<1> QED
  BY <1>1, <1>2

LEMMA WeightOfMore ==
  ASSUME NEW A, NEW B, B \subseteq AllFacts, IsFiniteSet(B), A \subseteq B
  PROVE  WeightOf(A) <= WeightOf(B) /\ WeightOf(A) \in Nat /\ WeightOf(B) \in Nat
<1> DEFINE R == B \ A
<1>1. IsFiniteSet(A) /\ IsFiniteSet(R) /\ A \cap R = {} /\ B = A \cup R
  BY FS_Subset
<1>2. A \subseteq AllFacts /\ R \subseteq AllFacts
  OBVIOUS
<1> HIDE DEF R
<1>3. WeightOf(B) = WeightOf(A) + WeightOf(R)
  BY <1>1, <1>2, WeightOfUnion
<1> QED
  BY <1>1, <1>2, <1>3, WeightOfNat

(* The median is the least number up to which half of the weight lies, and  *)
(* on neither side of it lies more than half.                               *)
EndsUpTo(S, e, v) == {f \in S : e[f] <= v}
EndsBelow(S, e, v) == {f \in S : e[f] < v}
EndsAbove(S, e, v) == {f \in S : e[f] > v}
Half(S, T) == 2 * WeightOf(T) >= WeightOf(S)

LEMMA MedianIsLeast ==
  ASSUME NEW S, S \subseteq AllFacts, IsFiniteSet(S), S # {},
         NEW e, \A f \in S : e[f] \in Int
  PROVE  /\ WeightedMedian(S, e) \in Int
         /\ Half(S, EndsUpTo(S, e, WeightedMedian(S, e)))
         /\ \A v \in Int : Half(S, EndsUpTo(S, e, v)) => WeightedMedian(S, e) <= v
<1> DEFINE ends == {e[f] : f \in S}
           C == {v \in ends : Half(S, EndsUpTo(S, e, v))}
           m == Min(C)
<1>1. WeightedMedian(S, e) = m
  BY DEF WeightedMedian, Half, EndsUpTo
<1>2. ends \subseteq Int /\ IsFiniteSet(ends) /\ ends # {}
  BY ImageIsFinite
<1>3. WeightOf(S) \in Nat /\ WeightOf(S) >= 1
  <2>1. PICK x \in S : TRUE
    OBVIOUS
  <2>2. IsFiniteSet(S \ {x}) /\ S \ {x} \subseteq AllFacts
    BY FS_Subset
  <2>3. WeightOf(S) = Weight(x) + WeightOf(S \ {x}) /\ WeightOf(S \ {x}) \in Nat
    BY <2>2, WeightOfRemoved, WeightOfNat
  <2> QED
    BY <2>3, WeightsArePositive
<1>4. ASSUME NEW v \in Int, Half(S, EndsUpTo(S, e, v)) PROVE \E u \in C : u <= v
  <2> DEFINE low == {x \in ends : x <= v}
  <2>1. low # {}
    <3> SUFFICES ASSUME low = {} PROVE FALSE
      OBVIOUS
    <3>1. EndsUpTo(S, e, v) = {}
      BY DEF EndsUpTo
    <3>2. WeightOf(EndsUpTo(S, e, v)) = 0
      BY <3>1, FS_EmptySet, WeightOfRest
    <3> QED
      BY <1>3, <1>4, <3>2 DEF Half
  <2>2. low \subseteq Int /\ IsFiniteSet(low)
    BY <1>2, FS_Subset
  <2>3. Max(low) \in low /\ \A x \in low : x <= Max(low)
    <3> HIDE DEF low
    <3> QED
      BY <2>1, <2>2, FiniteSetHasMax
  <2>4. PICK u \in ends : u <= v /\ \A x \in ends : x <= v => x <= u
    BY <2>3
  <2>5. EndsUpTo(S, e, u) = EndsUpTo(S, e, v)
    <3>1. u \in Int
      BY <1>2
    <3>2. ASSUME NEW f \in S PROVE e[f] <= u <=> e[f] <= v
      <4>1. e[f] \in ends /\ e[f] \in Int
        OBVIOUS
      <4> HIDE DEF ends
      <4> QED
        BY <2>4, <3>1, <4>1
    <3> QED
      BY <3>2 DEF EndsUpTo
  <2>6. u \in C
    BY <1>4, <2>5
  <2> QED
    BY <2>4, <2>6
<1>5. C \subseteq Int /\ IsFiniteSet(C)
  BY <1>2, FS_Subset
<1>6. C # {}
  <2>1. Max(ends) \in ends /\ \A x \in ends : x <= Max(ends)
    <3> HIDE DEF ends
    <3> QED
      BY <1>2, FiniteSetHasMax
  <2>2. EndsUpTo(S, e, Max(ends)) = S
    BY <2>1 DEF EndsUpTo
  <2>3. Half(S, S)
    BY <1>3 DEF Half
  <2>4. Max(ends) \in Int /\ Half(S, EndsUpTo(S, e, Max(ends)))
    BY <1>2, <2>1, <2>2, <2>3
  <2> HIDE DEF C, ends
  <2> QED
    BY <1>4, <2>4
<1>7. m \in C /\ \A u \in C : m <= u
  <2> HIDE DEF C
  <2> QED
    BY <1>5, <1>6, FiniteSetHasMin
<1>8. Half(S, EndsUpTo(S, e, m)) /\ m \in Int
  BY <1>5, <1>7
<1>9. ASSUME NEW v \in Int, Half(S, EndsUpTo(S, e, v)) PROVE m <= v
  <2>1. PICK u \in C : u <= v
    BY <1>4, <1>9
  <2>2. m <= u /\ u \in Int /\ m \in Int
    BY <1>5, <1>7
  <2> HIDE DEF m
  <2> QED
    BY <2>1, <2>2
<1> HIDE DEF m
<1> QED
  BY <1>1, <1>8, <1>9

LEMMA MedianDivides ==
  ASSUME NEW S, S \subseteq AllFacts, IsFiniteSet(S), S # {},
         NEW e, \A f \in S : e[f] \in Int
  PROVE  /\ 2 * WeightOf(EndsBelow(S, e, WeightedMedian(S, e))) <= WeightOf(S)
         /\ 2 * WeightOf(EndsAbove(S, e, WeightedMedian(S, e))) <= WeightOf(S)
<1> DEFINE m == WeightedMedian(S, e)
<1>1. /\ m \in Int /\ Half(S, EndsUpTo(S, e, m))
      /\ \A v \in Int : Half(S, EndsUpTo(S, e, v)) => m <= v
  BY MedianIsLeast
<1> HIDE DEF m
<1>2. /\ EndsBelow(S, e, m) \subseteq S /\ EndsAbove(S, e, m) \subseteq S /\ EndsUpTo(S, e, m) \subseteq S
      /\ IsFiniteSet(S)
  BY DEF EndsBelow, EndsAbove, EndsUpTo
<1>3. /\ WeightOf(S) \in Nat /\ WeightOf(EndsBelow(S, e, m)) \in Nat
      /\ WeightOf(EndsAbove(S, e, m)) \in Nat /\ WeightOf(EndsUpTo(S, e, m)) \in Nat
  BY <1>2, WeightOfMore
<1>4. 2 * WeightOf(EndsBelow(S, e, m)) <= WeightOf(S)
  <2>1. m - 1 \in Int /\ ~ (m <= m - 1)
    BY <1>1
  <2>2. EndsUpTo(S, e, m - 1) = EndsBelow(S, e, m)
    BY <1>1 DEF EndsUpTo, EndsBelow
  <2>3. ~ Half(S, EndsBelow(S, e, m))
    BY <1>1, <2>1, <2>2
  <2> QED
    BY <1>3, <2>3 DEF Half
<1>5. 2 * WeightOf(EndsAbove(S, e, m)) <= WeightOf(S)
  <2>1. S = EndsUpTo(S, e, m) \cup EndsAbove(S, e, m) /\ EndsUpTo(S, e, m) \cap EndsAbove(S, e, m) = {}
    BY <1>1 DEF EndsUpTo, EndsAbove
  <2>2. IsFiniteSet(EndsUpTo(S, e, m)) /\ IsFiniteSet(EndsAbove(S, e, m))
    BY <1>2, FS_Subset
  <2>3. WeightOf(S) = WeightOf(EndsUpTo(S, e, m)) + WeightOf(EndsAbove(S, e, m))
    BY <1>2, <2>1, <2>2, WeightOfUnion
  <2> QED
    BY <1>1, <1>3, <2>3 DEF Half
<1> QED
  BY <1>4, <1>5 DEF m

(* The lower ends weigh as much up to a number as the upper ends or more:   *)
(* their median is not above the median of the upper ends.                  *)
LEMMA MediansAreInOrder ==
  ASSUME NEW S, S \subseteq AllFacts, IsFiniteSet(S), S # {}
  PROVE  MiddleLo(S) \in Int /\ MiddleHi(S) \in Int /\ MiddleLo(S) <= MiddleHi(S)
<1> DEFINE low == [f \in S |-> Lo(f)]
           high == [f \in S |-> Hi(f)]
<1>1. \A f \in S : low[f] \in Int /\ high[f] \in Int /\ low[f] <= high[f]
  BY EndsAreInOrder
<1>2. MiddleLo(S) = WeightedMedian(S, low) /\ MiddleHi(S) = WeightedMedian(S, high)
  BY DEF MiddleLo, MiddleHi
<1> HIDE DEF low, high
<1>3. /\ WeightedMedian(S, low) \in Int
      /\ \A v \in Int : Half(S, EndsUpTo(S, low, v)) => WeightedMedian(S, low) <= v
  BY <1>1, MedianIsLeast
<1> DEFINE m == WeightedMedian(S, high)
<1>4. m \in Int /\ Half(S, EndsUpTo(S, high, m))
  BY <1>1, MedianIsLeast
<1> HIDE DEF m
<1>5. EndsUpTo(S, high, m) \subseteq EndsUpTo(S, low, m)
  BY <1>1, <1>4 DEF EndsUpTo
<1>6. EndsUpTo(S, low, m) \subseteq AllFacts /\ IsFiniteSet(EndsUpTo(S, low, m))
  <2>1. EndsUpTo(S, low, m) \subseteq S
    BY DEF EndsUpTo
  <2> QED
    BY <2>1, FS_Subset
<1>7. /\ WeightOf(EndsUpTo(S, high, m)) <= WeightOf(EndsUpTo(S, low, m))
      /\ WeightOf(EndsUpTo(S, high, m)) \in Nat /\ WeightOf(EndsUpTo(S, low, m)) \in Nat
  BY <1>5, <1>6, WeightOfMore
<1>8. WeightOf(S) \in Nat
  BY WeightOfNat
<1>9. Half(S, EndsUpTo(S, low, m))
  BY <1>4, <1>7, <1>8 DEF Half
<1> QED
  BY <1>2, <1>3, <1>4, <1>9 DEF m

LEMMA AgreedIsMedian ==
  ASSUME NEW S, S \subseteq AllFacts, IsFiniteSet(S), S # {}
  PROVE  AgreedLo(S) = MiddleLo(S) /\ AgreedHi(S) = MiddleHi(S)
<1> DEFINE a == MiddleLo(S)
           b == MiddleHi(S)
<1>1. a \in Int /\ b \in Int /\ a <= b
  BY MediansAreInOrder
<1>2. AgreedLo(S) = Min({a, b}) /\ AgreedHi(S) = Max({a, b})
  BY DEF AgreedLo, AgreedHi
<1> HIDE DEF a, b
<1>3. IsFiniteSet({a, b})
  BY PairIsFinite
<1>4. {a, b} \subseteq Int /\ {a, b} # {}
  BY <1>1
<1>5. /\ Min({a, b}) \in {a, b} /\ Min({a, b}) <= a /\ Min({a, b}) <= b
      /\ Max({a, b}) \in {a, b} /\ a <= Max({a, b}) /\ b <= Max({a, b})
  BY <1>3, <1>4, FiniteSetHasMin, FiniteSetHasMax
<1> QED
  BY <1>1, <1>2, <1>5 DEF a, b

LEMMA AgreedDivides ==
  ASSUME JudgedInv, FiniteClusters
  PROVE  AgreedRangeDividesWeight
<1> SUFFICES ASSUME NEW c \in {x[1] : x \in member}, Ranged(Members(c)) # {}
             PROVE  LET S == Ranged(Members(c))
                        lo == consensus[c].agreed[1]
                        hi == consensus[c].agreed[2]
                    IN  /\ 2 * WeightOf({f \in S : Lo(f) < lo}) <= WeightOf(S)
                        /\ 2 * WeightOf({f \in S : Lo(f) > lo}) <= WeightOf(S)
                        /\ 2 * WeightOf({f \in S : Hi(f) < hi}) <= WeightOf(S)
                        /\ 2 * WeightOf({f \in S : Hi(f) > hi}) <= WeightOf(S)
  BY DEF AgreedRangeDividesWeight
<1> DEFINE S == Ranged(Members(c))
           low == [f \in S |-> Lo(f)]
           high == [f \in S |-> Hi(f)]
<1>1. c \in Clusters /\ consensus[c] = ComputeConsensus(Members(c))
  BY DEF JudgedInv, Verdicts, ClustersAreJudged
<1>2. S \subseteq AllFacts /\ IsFiniteSet(S) /\ S # {}
  <2>1. S \subseteq Members(c) /\ Members(c) \subseteq AllFacts
    BY DEF Ranged, Members
  <2> QED
    BY <1>1, <2>1, FS_Subset DEF FiniteClusters
<1>3. consensus[c].agreed = <<AgreedLo(S), AgreedHi(S)>>
  BY <1>1 DEF ComputeConsensus
<1> HIDE DEF S
<1>4. /\ consensus[c].agreed[1] = WeightedMedian(S, low)
      /\ consensus[c].agreed[2] = WeightedMedian(S, high)
  <2>1. AgreedLo(S) = MiddleLo(S) /\ AgreedHi(S) = MiddleHi(S)
    BY <1>2, AgreedIsMedian
  <2> QED
    BY <1>3, <2>1 DEF MiddleLo, MiddleHi
<1> DEFINE lo == WeightedMedian(S, low)
           hi == WeightedMedian(S, high)
<1>5. \A f \in S : low[f] = Lo(f) /\ low[f] \in Int /\ high[f] = Hi(f) /\ high[f] \in Int
  BY <1>2, EndsAreInOrder
<1> HIDE DEF low, high
<1>6. /\ 2 * WeightOf(EndsBelow(S, low, lo)) <= WeightOf(S)
      /\ 2 * WeightOf(EndsAbove(S, low, lo)) <= WeightOf(S)
      /\ 2 * WeightOf(EndsBelow(S, high, hi)) <= WeightOf(S)
      /\ 2 * WeightOf(EndsAbove(S, high, hi)) <= WeightOf(S)
  BY <1>2, <1>5, MedianDivides
<1> HIDE DEF lo, hi
<1>7. /\ EndsBelow(S, low, lo) = {f \in S : Lo(f) < lo}
      /\ EndsAbove(S, low, lo) = {f \in S : Lo(f) > lo}
      /\ EndsBelow(S, high, hi) = {f \in S : Hi(f) < hi}
      /\ EndsAbove(S, high, hi) = {f \in S : Hi(f) > hi}
  BY <1>5 DEF EndsBelow, EndsAbove
<1> QED
  BY <1>4, <1>6, <1>7 DEF S, lo, hi

(* The range sources are said to agree on starts and ends where their       *)
(* weight divides, for any weights, ranges and order of events.             *)
THEOREM AgreedRangeIsMedian == Spec => []AgreedRangeDividesWeight
<1> QED
  BY ClustersFiniteInitially, JudgedInitially, StepKeepsJudged, StepKeepsFinite,
     AgreedDivides, PTL DEF Spec

(* The two together: an agreement is of sources that overlap, on a range that *)
(* divides their weight, in whatever order events and merges come.            *)
THEOREM AgreementsAreSound == Spec => []AgreementIsSound
<1>1. ConsensusMeansOverlap /\ AgreedRangeDividesWeight => AgreementIsSound
  BY DEF AgreementIsSound
<1> QED
  BY <1>1, AgreementMeansOverlap, AgreedRangeIsMedian, PTL
=============================================================================
