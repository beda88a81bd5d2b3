----------------------------- MODULE JetStream ------------------------------
(***************************************************************************)
(* The broker's side of a durable consumer with explicit acknowledgement,  *)
(* as the subscriptions in src configure it (DeliverAll, AckWait,          *)
(* MaxDeliver).  NATS itself is not part of the repository: these          *)
(* operators say what one message of one durable goes through.             *)
(***************************************************************************)
EXTENDS Naturals

(* n counts deliveries.  ready: to be delivered (again); out: delivered and *)
(* unsettled; settled: acknowledged or terminated; exhausted: not settled   *)
(* and never delivered again, because it was delivered MaxDeliver times.    *)
Deliveries(max) ==
  [state : {"ready", "out", "settled", "exhausted"}, n : 0..max]

Fresh == [state |-> "ready", n |-> 0]

Delivered(d) == [state |-> "out", n |-> d.n + 1]

(* Ack or Term.  A late one still settles a message that timed out.         *)
Settled(d) == IF d.state = "exhausted" THEN d ELSE [d EXCEPT !.state = "settled"]

(* Nak, or AckWait running out: another delivery if one is left.            *)
Requeued(d, max) ==
  IF d.state # "out" THEN d
  ELSE [d EXCEPT !.state = IF d.n < max THEN "ready" ELSE "exhausted"]
=============================================================================
