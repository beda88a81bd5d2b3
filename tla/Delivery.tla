------------------------------ MODULE Delivery ------------------------------
(***************************************************************************)
(* The consuming half of internal/platform/nats: Bus.Subscribe and         *)
(* Bus.handle, for one durable.  The subscription buffers what the broker  *)
(* pushes and calls the handler on one message at a time, so a copy may    *)
(* wait in the buffer past AckWait while the broker delivers the message   *)
(* again.                                                                  *)
(***************************************************************************)
EXTENDS JetStream, Sequences, FiniteSets

CONSTANTS
  Messages,       \* the messages of the stream the durable reads
  Malformed,      \* those events.Unmarshal rejects
  MaxDeliver,     \* Config.MaxDeliver (defaultMaxDeliver)
  MaxStops,       \* bound: crashes and graceful stops of the process
  MaxLost,        \* bound: acknowledgements and dead letters lost on the way
  None            \* no message is being handled

ASSUME DeliveryAssumption ==
  /\ Malformed \subseteq Messages
  /\ MaxDeliver \in Nat \ {0}
  /\ MaxStops \in Nat
  /\ MaxLost \in Nat
  /\ None \notin [msg : Messages, n : 1..MaxDeliver]

VARIABLES
  broker,         \* broker[m]: the durable's record of m
  inbox,          \* copies pushed to the subscription, not yet handled
  current,        \* the copy bus.handle is on, or None
  verdict,        \* the handler's events.Result on it, or "undecided"
  created,        \* this process created the durable (not found it)
  applied,        \* messages a handler took effect for
  dlq,            \* messages copied to kmap.dlq.*
  dlqLost,        \* messages whose dead letter did not reach the stream
  starts,         \* starts[m]: handler calls under the present durable
  stops, lost     \* counters of the bounds

process == <<inbox, current, verdict, created>>
outcome == <<applied, dlq, dlqLost, starts>>
bounds  == <<stops, lost>>
vars    == <<broker, process, outcome, bounds>>

Copies == [msg : Messages, n : 1..MaxDeliver]
Verdicts == {"ack", "nack", "term"}

TypeOK ==
  /\ broker \in [Messages -> Deliveries(MaxDeliver)]
  /\ inbox \in Seq(Copies)
  /\ current \in Copies \cup {None}
  /\ verdict \in Verdicts \cup {"undecided"}
  /\ created \in BOOLEAN
  /\ applied \subseteq Messages
  /\ dlq \subseteq Messages
  /\ dlqLost \subseteq Messages
  /\ starts \in [Messages -> Nat]
  /\ stops \in 0..MaxStops
  /\ lost \in 0..MaxLost

Init ==
  /\ broker = [m \in Messages |-> Fresh]
  /\ inbox = <<>>
  /\ current = None
  /\ verdict = "undecided"
  /\ created = TRUE
  /\ applied = {}
  /\ dlq = {}
  /\ dlqLost = {}
  /\ starts = [m \in Messages |-> 0]
  /\ stops = 0
  /\ lost = 0

-----------------------------------------------------------------------------
PushUncounted(m) ==       \* mutant: the broker is given no limit to count to
  /\ broker[m].state = "ready"
  /\ broker' = [broker EXCEPT ![m].state = "out"]
  /\ inbox' = Append(inbox, [msg |-> m, n |-> 1])
  /\ UNCHANGED <<current, verdict, created, outcome, bounds>>

Push(m) ==
  /\ broker[m].state = "ready"
  /\ broker' = [broker EXCEPT ![m] = Delivered(@)]
  /\ inbox' = Append(inbox, [msg |-> m, n |-> broker[m].n + 1])
  /\ UNCHANGED <<current, verdict, created, outcome, bounds>>

AckWaitForever(m) ==      \* mutant: a delivery past the last one
  /\ broker[m].state = "out"
  /\ broker' = [broker EXCEPT ![m].state = "ready"]
  /\ UNCHANGED <<process, outcome, bounds>>

AckWait(m) ==             \* 15 minutes without a settlement
  /\ broker[m].state = "out"
  /\ broker' = [broker EXCEPT ![m] = Requeued(@, MaxDeliver)]
  /\ UNCHANGED <<process, outcome, bounds>>

(* The subscription's goroutine takes the next copy; a copy that does not   *)
(* decode never reaches the handler and is treated as terminated.           *)
Begin ==
  /\ current = None
  /\ inbox # <<>>
  /\ current' = Head(inbox)
  /\ inbox' = Tail(inbox)
  /\ IF Head(inbox).msg \in Malformed
     THEN verdict' = "term" /\ UNCHANGED starts
     ELSE /\ verdict' = "undecided"
          /\ starts' = [starts EXCEPT ![Head(inbox).msg] = @ + 1]
  /\ UNCHANGED <<broker, created, applied, dlq, dlqLost, bounds>>

(* The handler returns.  Ack means its transaction committed; after Nack it *)
(* may have committed all the same (a commit whose answer was lost).        *)
DecideEarlyAck ==         \* mutant: an error is reported as Ack
  /\ current # None /\ verdict = "undecided"
  /\ verdict' \in Verdicts
  /\ \E done \in BOOLEAN :
        applied' = IF done THEN applied \cup {current.msg} ELSE applied
  /\ UNCHANGED <<broker, inbox, current, created, dlq, dlqLost, starts, bounds>>

Decide ==
  /\ current # None /\ verdict = "undecided"
  /\ verdict' \in Verdicts
  /\ \E done \in BOOLEAN :
        /\ verdict' = "ack" => done
        /\ verdict' = "term" => ~done
        /\ applied' = IF done THEN applied \cup {current.msg} ELSE applied
  /\ UNCHANGED <<broker, inbox, current, created, dlq, dlqLost, starts, bounds>>

(* The end of bus.handle.  Every error of Ack, Nak, Term and of the dead    *)
(* letter's PublishMsg is dropped (_ =), so each of them may be lost.       *)
Finish ==
  /\ current' = None
  /\ verdict' = "undecided"
  /\ UNCHANGED <<inbox, created, applied, starts, stops>>

Answer(record) ==         \* record: what the broker's record of current becomes
  \/ /\ broker' = [broker EXCEPT ![current.msg] = record]
     /\ UNCHANGED lost
  \/ /\ lost < MaxLost
     /\ lost' = lost + 1
     /\ UNCHANGED broker

GiveUp == verdict = "term" \/ (verdict = "nack" /\ current.n >= MaxDeliver)

SettleAck ==
  /\ current # None /\ verdict = "ack"
  /\ Answer(Settled(broker[current.msg]))
  /\ UNCHANGED <<dlq, dlqLost>>
  /\ Finish

SettleNack ==
  /\ current # None /\ verdict = "nack" /\ ~GiveUp
  /\ Answer(Requeued(broker[current.msg], MaxDeliver))
  /\ UNCHANGED <<dlq, dlqLost>>
  /\ Finish

SettleDeadLetter ==       \* deadLetter, then Term
  /\ current # None /\ GiveUp
  /\ \/ /\ dlq' = dlq \cup {current.msg}
        /\ UNCHANGED dlqLost
        /\ Answer(Settled(broker[current.msg]))
     \/ /\ lost < MaxLost
        /\ lost' = lost + 1
        /\ dlqLost' = dlqLost \cup {current.msg}
        /\ broker' = [broker EXCEPT ![current.msg] = Settled(@)]
        /\ UNCHANGED dlq
  /\ Finish

-----------------------------------------------------------------------------
(* The process goes away and comes back with an empty buffer.  After a      *)
(* crash it finds its durable again.  A graceful stop unsubscribes, which   *)
(* deletes the durable if this process created it; the next one creates it  *)
(* anew and, with DeliverAll, is sent the whole stream again.               *)
Restart ==
  /\ stops < MaxStops
  /\ stops' = stops + 1
  /\ inbox' = <<>>
  /\ current' = None
  /\ verdict' = "undecided"
  /\ UNCHANGED <<applied, dlq, dlqLost, lost>>

Crash ==
  /\ Restart
  /\ created' = FALSE
  /\ UNCHANGED <<broker, starts>>

GracefulStop ==
  /\ created
  /\ Restart
  /\ broker' = [m \in Messages |-> Fresh]
  /\ starts' = [m \in Messages |-> 0]
  /\ UNCHANGED created

Next ==
  \/ \E m \in Messages : Push(m) \/ AckWait(m)
  \/ Begin \/ Decide
  \/ SettleAck \/ SettleNack \/ SettleDeadLetter
  \/ Crash
  \/ GracefulStop

Spec == Init /\ [][Next]_vars

-----------------------------------------------------------------------------
(* A message the broker was told to forget was acted upon, or copied to the *)
(* dead-letter stream, or lost there because deadLetter ignores its error.  *)
SettledIsAccounted ==
  \A m \in Messages :
    broker[m].state = "settled" => m \in applied \cup dlq \cup dlqLost

(* Buffered copies and late answers included, the handler is called for a   *)
(* message at most MaxDeliver times in the life of the durable.             *)
AttemptsBounded == \A m \in Messages : starts[m] <= MaxDeliver

(* .agents/05-ingestion.md says that a message whose deliveries are used up *)
(* is moved to kmap.dlq.<stage>.  The code copies it only when the handler  *)
(* itself returns Nack on the last delivery; no copy of it is then left in  *)
(* the process to do so.                                                    *)
Held(m) == \/ current # None /\ current.msg = m
           \/ \E i \in DOMAIN inbox : inbox[i].msg = m

ExhaustedIsDeadLettered ==
  \A m \in Messages :
    broker[m].state = "exhausted" /\ ~Held(m) => m \in dlq \cup dlqLost \cup applied
=============================================================================
