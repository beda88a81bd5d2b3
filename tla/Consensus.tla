----------------------------- MODULE Consensus ------------------------------
(***************************************************************************)
(* internal/epistemic/app/consensus.go: the verdict on the numeric facts   *)
(* of one cluster.  A cluster is a set S of fact names; Sample[f] holds    *)
(* what the verdict reads of fact f.  Numbers are whole multiples of       *)
(* 1/Scale, so that the 2% by which a point is widened is a whole number;  *)
(* shares are compared by cross multiplication.                            *)
(***************************************************************************)
EXTENDS Integers, FiniteSets, FiniteSetsExt

CONSTANTS
  Sample,         \* Sample[f]: the columns clusterFacts reads of fact f
  CurrentYear,    \* consensusYear
  Decay           \* Decay[n]: 1000 * exp(-n/10) for a document n years old

Scale == 50
Infinity == 1000000      \* the end of a range whose bound is NULL

Reliability(docType) ==
  CASE docType \in {"protocol", "report", "dataset"} -> 10
    [] docType \in {"article", "handbook", "normative"} -> 9
    [] docType = "patent" -> 8
    [] docType = "web" -> 5
    [] OTHER -> 7

Freshness(year) == IF year = 0 THEN 500 ELSE Decay[CurrentYear - year]

(* The weight of a fact no one is confident of is not zero but negligible.  *)
Weight(f) ==
  Max({1, 1000 * Sample[f].confidence * Reliability(Sample[f].docType)
          * Freshness(Sample[f].year)})

Ranged(S) == {f \in S : Sample[f].lo > -Infinity /\ Sample[f].hi < Infinity}

Magnitude(n) == IF n < 0 THEN -n ELSE n

(* A point is widened by 2%; a range is put in order.                       *)
Lo(f) == LET s == Sample[f] IN
  IF s.lo = s.hi THEN Scale * s.lo - Magnitude(s.lo)
                 ELSE Scale * Min({s.lo, s.hi})
Hi(f) == LET s == Sample[f] IN
  IF s.lo = s.hi THEN Scale * s.hi + Magnitude(s.hi)
                 ELSE Scale * Max({s.lo, s.hi})

WeightOf(S) == MapThenSumSet(Weight, S)

MedianUnweighted(S, end) ==     \* mutant: the weights do not count
  Min({v \in {end[f] : f \in S} :
         2 * Cardinality({f \in S : end[f] <= v}) >= Cardinality(S)})

(* The least value up to which at least half of the weight lies.            *)
WeightedMedian(S, end) ==
  Min({v \in {end[f] : f \in S} :
         2 * WeightOf({f \in S : end[f] <= v}) >= WeightOf(S)})

(* overlapIndex is Shared(S) / Span(S), and 1 if Span(S) is 0.              *)
Span(S) == Max({Hi(f) : f \in S}) - Min({Lo(f) : f \in S})
Shared(S) == Max({0, Min({Hi(f) : f \in S}) - Max({Lo(f) : f \in S})})

OverlapByHull(S) ==       \* mutant: the hull over the longest, not the common part
  Span(S) <= 0 \/ 2 * Max({Hi(f) - Lo(f) : f \in S}) >= Span(S)

OverlapsByHalf(S) == Span(S) <= 0 \/ 2 * Shared(S) >= Span(S)

DocumentsOf(S) == {Sample[f].doc : f \in S}

MiddleLo(S) == WeightedMedian(S, [f \in S |-> Lo(f)])
MiddleHi(S) == WeightedMedian(S, [f \in S |-> Hi(f)])

AgreedLo(S) == Min({MiddleLo(S), MiddleHi(S)})
AgreedHi(S) == Max({MiddleLo(S), MiddleHi(S)})

Touching(S) == {f \in S : Hi(f) >= AgreedLo(S) /\ Lo(f) <= AgreedHi(S)}

Verdict(S) ==
  CASE Cardinality(DocumentsOf(S)) < 2 -> "insufficient"
    [] OverlapsByHalf(S) /\ Cardinality(DocumentsOf(S)) >= 3 -> "consensus"
    [] 5 * Cardinality(Touching(S)) >= 3 * Cardinality(S) -> "majority"
    [] OTHER -> "split"

(* countStats counts facts, though its fields are named for sources.        *)
From(S, geography) == Cardinality({f \in S : Sample[f].geography = geography})
Years(S) == {Sample[f].year : f \in S} \ {0}

Nothing == [verdict |-> "insufficient", agreed |-> <<>>, sources |-> 0,
            ru |-> 0, foreign |-> 0, years |-> <<0, 0>>]

ComputeConsensus(cluster) ==
  LET S == Ranged(cluster) IN
  IF S = {} THEN Nothing
  ELSE [verdict |-> Verdict(S),
        agreed |-> <<AgreedLo(S), AgreedHi(S)>>,
        sources |-> Cardinality(DocumentsOf(S)),
        ru |-> From(S, "ru"),
        foreign |-> From(S, "foreign"),
        years |-> IF Years(S) = {} THEN <<0, 0>> ELSE <<Min(Years(S)), Max(Years(S))>>]

(* si_range, by which contradictions are found, is the stored range: points *)
(* are not widened and NULL bounds are infinite.                            *)
RangesDisjoint(f, g) ==
  Sample[f].hi < Sample[g].lo \/ Sample[g].hi < Sample[f].lo
=============================================================================
