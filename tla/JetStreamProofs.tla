-------------------------- MODULE JetStreamProofs ---------------------------
(* The broker's operators keep a record a record, and mark it settled, or   *)
(* ready, only when they should.                                            *)
EXTENDS JetStream, TLAPS

(* A message waits for delivery only while a delivery is left.              *)
HasTries(d, max) == d.state = "ready" => d.n < max

LEMMA FreshType ==
  ASSUME NEW max \in Nat \ {0}
  PROVE  /\ Fresh \in Deliveries(max)
         /\ Fresh.state = "ready"
         /\ HasTries(Fresh, max)
BY DEF Fresh, Deliveries, HasTries

LEMMA DeliveredType ==
  ASSUME NEW max \in Nat \ {0}, NEW d \in Deliveries(max), d.n < max
  PROVE  /\ Delivered(d) \in Deliveries(max)
         /\ Delivered(d).state = "out"
         /\ HasTries(Delivered(d), max)
         /\ d.n + 1 \in 1..max
BY DEF Delivered, Deliveries, HasTries

LEMMA SettledType ==
  ASSUME NEW max \in Nat \ {0}, NEW d \in Deliveries(max)
  PROVE  /\ Settled(d) \in Deliveries(max)
         /\ HasTries(Settled(d), max)
         /\ Settled(d).state \in {"settled", "exhausted"}
BY DEF Settled, Deliveries, HasTries

LEMMA RequeuedType ==
  ASSUME NEW max \in Nat \ {0}, NEW d \in Deliveries(max), HasTries(d, max)
  PROVE  /\ Requeued(d, max) \in Deliveries(max)
         /\ HasTries(Requeued(d, max), max)
         /\ Requeued(d, max).state # "out"
         /\ Requeued(d, max).state = "settled" => d.state = "settled"
BY DEF Requeued, Deliveries, HasTries
=============================================================================
