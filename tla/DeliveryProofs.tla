--------------------------- MODULE DeliveryProofs ---------------------------
(* Type correctness of Delivery, and that a message is settled only when it *)
(* is accounted for.                                                        *)
EXTENDS Delivery, JetStreamProofs, SequenceTheorems, TLAPS

ReadyHasTries == \A m \in Messages : HasTries(broker[m], MaxDeliver)

(* Ack is reported only of a message whose handler took effect.             *)
AckIsApplied == current # None /\ verdict = "ack" => current.msg \in applied

IInv == TypeOK /\ ReadyHasTries /\ AckIsApplied /\ SettledIsAccounted

LEMMA InitEstablishes == Init => IInv
<1> SUFFICES ASSUME Init PROVE IInv
  OBVIOUS
<1>1. TypeOK
  <2>1. broker \in [Messages -> Deliveries(MaxDeliver)]
    BY FreshType, DeliveryAssumption DEF Init
  <2>2. inbox \in Seq(Copies)
    BY EmptySeq DEF Init
  <2> QED
    BY <2>1, <2>2, DeliveryAssumption DEF Init, TypeOK, Verdicts
<1>2. ReadyHasTries /\ AckIsApplied /\ SettledIsAccounted
  BY FreshType, DeliveryAssumption DEF Init, ReadyHasTries, AckIsApplied, SettledIsAccounted
<1> QED
  BY <1>1, <1>2 DEF IInv

(* What a copy being handled is.                                            *)
LEMMA CurrentIsCopy ==
  ASSUME TypeOK, current # None
  PROVE  /\ current \in Copies
         /\ current.msg \in Messages
BY DEF TypeOK, Copies

(* However the broker's answer goes, only the record of the copy being      *)
(* handled changes, and only to the record the answer carries.              *)
LEMMA AnswerKeeps ==
  ASSUME TypeOK, ReadyHasTries, current.msg \in Messages,
         NEW record \in Deliveries(MaxDeliver), HasTries(record, MaxDeliver),
         broker' = [broker EXCEPT ![current.msg] = record] \/ broker' = broker
  PROVE  /\ broker' \in [Messages -> Deliveries(MaxDeliver)]
         /\ ReadyHasTries'
         /\ \A m \in Messages : \/ broker'[m] = broker[m]
                                \/ m = current.msg /\ broker'[m] = record
BY DEF TypeOK, ReadyHasTries

LEMMA StepPreserves == IInv /\ [Next]_vars => IInv'
<1> SUFFICES ASSUME IInv, [Next]_vars PROVE IInv'
  OBVIOUS
<1> USE DEF IInv
<1>1. ASSUME NEW m \in Messages, Push(m) PROVE IInv'
  <2>1. broker[m].n < MaxDeliver /\ broker[m] \in Deliveries(MaxDeliver)
    BY <1>1 DEF Push, ReadyHasTries, HasTries, TypeOK
  <2>2. [msg |-> m, n |-> broker[m].n + 1] \in Copies
    BY <2>1, DeliveryAssumption DEF Copies, Deliveries
  <2>3. inbox' \in Seq(Copies)
    BY <1>1, <2>2, AppendProperties DEF Push, TypeOK
  <2>4. broker' \in [Messages -> Deliveries(MaxDeliver)]
    BY <1>1, <2>1, DeliveredType, DeliveryAssumption DEF Push, TypeOK
  <2>5. TypeOK'
    BY <1>1, <2>3, <2>4 DEF Push, TypeOK, outcome, bounds
  <2>6. \A k \in Messages : \/ broker'[k] = broker[k]
                            \/ broker'[k] = Delivered(broker[m]) /\ k = m
    BY <1>1 DEF Push, TypeOK
  <2>7. ReadyHasTries' /\ SettledIsAccounted'
    <3>1. Delivered(broker[m]).state = "out" /\ HasTries(Delivered(broker[m]), MaxDeliver)
      BY <2>1, DeliveredType, DeliveryAssumption
    <3>2. ReadyHasTries'
      BY <2>6, <3>1 DEF ReadyHasTries
    <3>3. SettledIsAccounted'
      BY <1>1, <2>6, <3>1 DEF Push, SettledIsAccounted, outcome
    <3> QED
      BY <3>2, <3>3
  <2>8. AckIsApplied'
    BY <1>1 DEF Push, AckIsApplied, outcome
  <2> QED
    BY <2>5, <2>7, <2>8
<1>2. ASSUME NEW m \in Messages, AckWait(m) PROVE IInv'
  <2> DEFINE r == Requeued(broker[m], MaxDeliver)
  <2>1. broker[m] \in Deliveries(MaxDeliver) /\ HasTries(broker[m], MaxDeliver)
    BY DEF TypeOK, ReadyHasTries
  <2>2. /\ r \in Deliveries(MaxDeliver)
        /\ HasTries(r, MaxDeliver)
        /\ r.state = "settled" => broker[m].state = "settled"
    BY <2>1, RequeuedType, DeliveryAssumption
  <2> HIDE DEF r
  <2>3. broker' = [broker EXCEPT ![m] = r]
    BY <1>2 DEF AckWait, r
  <2>4. TypeOK'
    BY <1>2, <2>2, <2>3 DEF AckWait, TypeOK, process, outcome, bounds
  <2>5. ReadyHasTries' /\ SettledIsAccounted'
    BY <1>2, <2>2, <2>3 DEF AckWait, TypeOK, ReadyHasTries, SettledIsAccounted, outcome
  <2>6. AckIsApplied'
    BY <1>2 DEF AckWait, AckIsApplied, process, outcome
  <2> QED
    BY <2>4, <2>5, <2>6
<1>3. CASE Begin
  <2>1. Head(inbox) \in Copies /\ Tail(inbox) \in Seq(Copies)
    BY <1>3, HeadTailProperties DEF Begin, TypeOK
  <2>2. Head(inbox).msg \in Messages
    BY <2>1 DEF Copies
  <2>3. starts' \in [Messages -> Nat] /\ verdict' \in {"term", "undecided"}
    BY <1>3, <2>2 DEF Begin, TypeOK
  <2>4. TypeOK'
    BY <1>3, <2>1, <2>3 DEF Begin, TypeOK, Verdicts, bounds
  <2>5. ReadyHasTries' /\ SettledIsAccounted' /\ AckIsApplied'
    BY <1>3, <2>3 DEF Begin, ReadyHasTries, SettledIsAccounted, AckIsApplied
  <2> QED
    BY <2>4, <2>5
<1>4. CASE Decide
  <2>1. current.msg \in Messages
    BY <1>4, CurrentIsCopy DEF Decide
  <2>2. applied \subseteq applied' /\ applied' \subseteq Messages
    BY <1>4, <2>1 DEF Decide, TypeOK
  <2>3. TypeOK'
    BY <1>4, <2>2 DEF Decide, TypeOK, Verdicts, bounds
  <2>4. ReadyHasTries' /\ SettledIsAccounted'
    BY <1>4, <2>2 DEF Decide, ReadyHasTries, SettledIsAccounted
  <2>5. AckIsApplied'
    BY <1>4 DEF Decide, AckIsApplied
  <2> QED
    BY <2>3, <2>4, <2>5
<1>5. CASE SettleAck
  <2>1. current.msg \in Messages /\ current.msg \in applied
    BY <1>5, CurrentIsCopy DEF SettleAck, AckIsApplied
  <2>2. broker[current.msg] \in Deliveries(MaxDeliver) /\ HasTries(broker[current.msg], MaxDeliver)
    BY <2>1 DEF TypeOK, ReadyHasTries
  <2>3. /\ Settled(broker[current.msg]) \in Deliveries(MaxDeliver)
        /\ HasTries(Settled(broker[current.msg]), MaxDeliver)
    BY <2>2, SettledType, DeliveryAssumption
  <2>4. /\ broker' \in [Messages -> Deliveries(MaxDeliver)]
        /\ ReadyHasTries'
        /\ \A m \in Messages : \/ broker'[m] = broker[m]
                               \/ m = current.msg /\ broker'[m] = Settled(broker[current.msg])
    BY <1>5, <2>1, <2>3, AnswerKeeps DEF SettleAck, Answer
  <2>5. TypeOK'
    BY <1>5, <2>1, <2>4, DeliveryAssumption DEF SettleAck, Answer, Finish, TypeOK
  <2>6. SettledIsAccounted'
    BY <1>5, <2>1, <2>3, <2>4 DEF SettleAck, Answer, Finish, SettledIsAccounted
  <2>7. AckIsApplied'
    BY <1>5 DEF SettleAck, Finish, AckIsApplied
  <2> QED
    BY <2>4, <2>5, <2>6, <2>7
<1>6. CASE SettleNack
  <2>1. current.msg \in Messages
    BY <1>6, CurrentIsCopy DEF SettleNack
  <2>2. broker[current.msg] \in Deliveries(MaxDeliver) /\ HasTries(broker[current.msg], MaxDeliver)
    BY <2>1 DEF TypeOK, ReadyHasTries
  <2>3. /\ Requeued(broker[current.msg], MaxDeliver) \in Deliveries(MaxDeliver)
        /\ HasTries(Requeued(broker[current.msg], MaxDeliver), MaxDeliver)
        /\ Requeued(broker[current.msg], MaxDeliver).state = "settled"
             => broker[current.msg].state = "settled"
    BY <2>2, RequeuedType, DeliveryAssumption
  <2>4. /\ broker' \in [Messages -> Deliveries(MaxDeliver)]
        /\ ReadyHasTries'
        /\ \A m \in Messages : \/ broker'[m] = broker[m]
                               \/ m = current.msg /\ broker'[m] = Requeued(broker[current.msg], MaxDeliver)
    BY <1>6, <2>1, <2>3, AnswerKeeps DEF SettleNack, Answer
  <2>5. TypeOK'
    BY <1>6, <2>1, <2>4, DeliveryAssumption DEF SettleNack, Answer, Finish, TypeOK
  <2>6. SettledIsAccounted'
    BY <1>6, <2>1, <2>3, <2>4 DEF SettleNack, Answer, Finish, SettledIsAccounted
  <2>7. AckIsApplied'
    BY <1>6 DEF SettleNack, Finish, AckIsApplied
  <2> QED
    BY <2>4, <2>5, <2>6, <2>7
<1>7. CASE SettleDeadLetter
  <2>1. current.msg \in Messages
    BY <1>7, CurrentIsCopy DEF SettleDeadLetter
  <2>2. broker[current.msg] \in Deliveries(MaxDeliver) /\ HasTries(broker[current.msg], MaxDeliver)
    BY <2>1 DEF TypeOK, ReadyHasTries
  <2>3. /\ Settled(broker[current.msg]) \in Deliveries(MaxDeliver)
        /\ HasTries(Settled(broker[current.msg]), MaxDeliver)
    BY <2>2, SettledType, DeliveryAssumption
  <2>4. /\ broker' \in [Messages -> Deliveries(MaxDeliver)]
        /\ ReadyHasTries'
        /\ \A m \in Messages : \/ broker'[m] = broker[m]
                               \/ m = current.msg /\ broker'[m] = Settled(broker[current.msg])
    BY <1>7, <2>1, <2>3, AnswerKeeps DEF SettleDeadLetter, Answer
  <2>5. TypeOK'
    BY <1>7, <2>1, <2>4, DeliveryAssumption DEF SettleDeadLetter, Answer, Finish, TypeOK
  <2>6. SettledIsAccounted'
    BY <1>7, <2>1, <2>3, <2>4 DEF SettleDeadLetter, Answer, Finish, SettledIsAccounted
  <2>7. AckIsApplied'
    BY <1>7 DEF SettleDeadLetter, Finish, AckIsApplied
  <2> QED
    BY <2>4, <2>5, <2>6, <2>7
<1>8. CASE Crash \/ GracefulStop
  <2>1. /\ broker' \in [Messages -> Deliveries(MaxDeliver)]
        /\ starts' \in [Messages -> Nat]
        /\ ReadyHasTries' /\ SettledIsAccounted'
    BY <1>8, FreshType, DeliveryAssumption
       DEF Crash, GracefulStop, Restart, TypeOK, ReadyHasTries,
           SettledIsAccounted, Fresh
  <2>2. inbox' \in Seq(Copies)
    BY <1>8, EmptySeq DEF Crash, GracefulStop, Restart
  <2>3. stops' \in 0..MaxStops
    BY <1>8, DeliveryAssumption DEF Crash, GracefulStop, Restart, TypeOK
  <2>4. created' \in BOOLEAN
    BY <1>8 DEF Crash, GracefulStop, TypeOK
  <2>5. TypeOK'
    BY <1>8, <2>1, <2>2, <2>3, <2>4
       DEF Crash, GracefulStop, Restart, TypeOK, Verdicts
  <2>6. AckIsApplied'
    BY <1>8 DEF Crash, GracefulStop, Restart, AckIsApplied
  <2> QED
    BY <2>1, <2>5, <2>6
<1>9. CASE UNCHANGED vars
  BY <1>9 DEF vars, process, outcome, bounds, TypeOK, ReadyHasTries,
              AckIsApplied, SettledIsAccounted
<1> QED
  BY <1>1, <1>2, <1>3, <1>4, <1>5, <1>6, <1>7, <1>8, <1>9 DEF Next

(* The strengthened invariant holds in every reachable state.               *)
THEOREM Invariance == Spec => []IInv
BY InitEstablishes, StepPreserves, PTL DEF Spec

(* Every variable keeps its type; above all, no copy is ever pushed with a  *)
(* delivery number past MaxDeliver.                                         *)
THEOREM TypeCorrect == Spec => []TypeOK
BY Invariance, PTL DEF IInv

(* A message the broker was told to forget was acted upon, dead-lettered,   *)
(* or lost on its way to the dead letters, for any number of messages,      *)
(* deliveries, restarts and lost answers.                                   *)
THEOREM SettledIsAccountedAlways == Spec => []SettledIsAccounted
BY Invariance, PTL DEF IInv

-----------------------------------------------------------------------------
(* The copies of a message in the buffer are in the order of their delivery  *)
(* numbers, all later than the calls of the handler so far.                  *)
Numbered ==
  \A m \in Messages :
    /\ starts[m] <= broker[m].n
    /\ \A i \in DOMAIN inbox : inbox[i].msg = m =>
         /\ starts[m] < inbox[i].n /\ inbox[i].n <= broker[m].n
         /\ \A j \in DOMAIN inbox : (inbox[j].msg = m /\ i < j) => inbox[i].n < inbox[j].n

NumberedInv == TypeOK /\ ReadyHasTries /\ Numbered

LEMMA PushNumbers ==
  ASSUME NumberedInv, TypeOK', NEW m \in Messages, Push(m)
  PROVE  Numbered'
<1> DEFINE n == broker[m].n
<1>1. broker[m] \in Deliveries(MaxDeliver) /\ n \in Nat
  BY DeliveryAssumption DEF NumberedInv, TypeOK, Deliveries
<1>2. \A k \in Messages : broker'[k] = IF k = m THEN Delivered(broker[m]) ELSE broker[k]
  BY DEF Push, NumberedInv, TypeOK
<1>3. broker'[m].n = n + 1 /\ \A k \in Messages \ {m} : broker'[k] = broker[k]
  BY <1>2 DEF Delivered
<1>4. inbox' = Append(inbox, [msg |-> m, n |-> n + 1]) /\ inbox \in Seq(Copies) /\ starts' = starts
  BY DEF Push, NumberedInv, TypeOK, outcome
<1>5. /\ DOMAIN inbox = 1..Len(inbox) /\ Len(inbox) \in Nat
      /\ DOMAIN inbox' = 1..(Len(inbox) + 1)
      /\ \A i \in DOMAIN inbox : inbox'[i] = inbox[i]
      /\ inbox'[Len(inbox) + 1] = [msg |-> m, n |-> n + 1]
  BY <1>4
<1>6. starts \in [Messages -> Nat] /\ \A k \in Messages : broker[k].n \in Nat
  BY DeliveryAssumption DEF NumberedInv, TypeOK, Deliveries
<1>7. \A i \in DOMAIN inbox : inbox[i].msg \in Messages /\ inbox[i].n \in Nat
  <2>1. \A i \in DOMAIN inbox : inbox[i] \in Copies
    BY <1>4
  <2> QED
    BY <2>1, DeliveryAssumption DEF Copies
<1> HIDE DEF n
<1> SUFFICES ASSUME NEW k \in Messages
             PROVE  /\ starts'[k] <= broker'[k].n
                    /\ \A i \in DOMAIN inbox' : inbox'[i].msg = k =>
                         /\ starts'[k] < inbox'[i].n /\ inbox'[i].n <= broker'[k].n
                         /\ \A j \in DOMAIN inbox' : (inbox'[j].msg = k /\ i < j) => inbox'[i].n < inbox'[j].n
  BY DEF Numbered
<1>8. /\ starts[k] <= broker[k].n /\ broker[k].n <= broker'[k].n
      /\ \A i \in DOMAIN inbox : inbox[i].msg = k =>
           /\ starts[k] < inbox[i].n /\ inbox[i].n <= broker[k].n
           /\ \A j \in DOMAIN inbox : (inbox[j].msg = k /\ i < j) => inbox[i].n < inbox[j].n
  BY <1>1, <1>3, <1>6 DEF NumberedInv, Numbered, n
<1>9. starts'[k] <= broker'[k].n
  BY <1>3, <1>4, <1>6, <1>8, <1>1
<1>10. ASSUME NEW i \in DOMAIN inbox', inbox'[i].msg = k
       PROVE  /\ starts'[k] < inbox'[i].n /\ inbox'[i].n <= broker'[k].n
              /\ \A j \in DOMAIN inbox' : (inbox'[j].msg = k /\ i < j) => inbox'[i].n < inbox'[j].n
  <2>1. CASE i \in DOMAIN inbox
    <3>1. inbox'[i] = inbox[i] /\ inbox[i].n \in Nat /\ inbox[i].n <= broker[k].n
      BY <2>1, <1>5, <1>7, <1>8, <1>10
    <3>2. starts'[k] < inbox'[i].n /\ inbox'[i].n <= broker'[k].n
      BY <2>1, <3>1, <1>8, <1>4, <1>6, <1>3, <1>1, <1>10
    <3>3. ASSUME NEW j \in DOMAIN inbox', inbox'[j].msg = k, i < j
          PROVE  inbox'[i].n < inbox'[j].n
      <4>1. CASE j \in DOMAIN inbox
        BY <4>1, <2>1, <3>1, <3>3, <1>5, <1>8, <1>10
      <4>2. CASE j = Len(inbox) + 1
        <5>1. k = m /\ inbox'[j].n = n + 1
          BY <4>2, <3>3, <1>5
        <5>2. broker[k].n = n
          BY <5>1 DEF n
        <5> QED
          BY <5>1, <5>2, <3>1, <1>1
      <4> QED
        BY <4>1, <4>2, <1>5
    <3> QED
      BY <3>2, <3>3
  <2>2. CASE i = Len(inbox) + 1
    <3>1. k = m /\ inbox'[i].n = n + 1
      BY <2>2, <1>10, <1>5
    <3>2. starts[k] <= n
      BY <3>1, <1>8 DEF n
    <3>3. \A j \in DOMAIN inbox' : ~(i < j)
      BY <2>2, <1>5
    <3> QED
      BY <3>1, <3>2, <3>3, <1>1, <1>3, <1>4, <1>6
  <2> QED
    BY <2>1, <2>2, <1>5
<1> QED
  BY <1>9, <1>10

LEMMA BeginNumbers ==
  ASSUME NumberedInv, Begin
  PROVE  Numbered'
<1>1. inbox \in Seq(Copies) /\ inbox # <<>> /\ inbox' = Tail(inbox) /\ broker' = broker
  BY DEF Begin, NumberedInv, TypeOK
<1>2. /\ Len(inbox) \in Nat /\ 1 \in DOMAIN inbox /\ Head(inbox) = inbox[1]
      /\ DOMAIN inbox' = 1..(Len(inbox) - 1)
      /\ \A i \in DOMAIN inbox' : i \in Nat /\ i + 1 \in DOMAIN inbox /\ inbox'[i] = inbox[i + 1]
  BY <1>1, EmptySeq, HeadTailProperties
<1>3. \A i \in DOMAIN inbox : inbox[i].msg \in Messages /\ inbox[i].n \in Nat
  <2>1. \A i \in DOMAIN inbox : inbox[i] \in Copies
    BY <1>1
  <2> QED
    BY <2>1, DeliveryAssumption DEF Copies
<1>4. starts \in [Messages -> Nat] /\ \A k \in Messages : broker[k].n \in Nat
  BY DeliveryAssumption DEF NumberedInv, TypeOK, Deliveries
<1>5. \A k \in Messages : starts'[k] = starts[k] \/ (k = inbox[1].msg /\ starts'[k] = starts[k] + 1)
  BY <1>2, <1>4 DEF Begin
<1> SUFFICES ASSUME NEW k \in Messages
             PROVE  /\ starts'[k] <= broker'[k].n
                    /\ \A i \in DOMAIN inbox' : inbox'[i].msg = k =>
                         /\ starts'[k] < inbox'[i].n /\ inbox'[i].n <= broker'[k].n
                         /\ \A j \in DOMAIN inbox' : (inbox'[j].msg = k /\ i < j) => inbox'[i].n < inbox'[j].n
  BY DEF Numbered
<1>6. /\ starts[k] <= broker[k].n
      /\ \A i \in DOMAIN inbox : inbox[i].msg = k =>
           /\ starts[k] < inbox[i].n /\ inbox[i].n <= broker[k].n
           /\ \A j \in DOMAIN inbox : (inbox[j].msg = k /\ i < j) => inbox[i].n < inbox[j].n
  BY DEF NumberedInv, Numbered
<1>7. starts'[k] <= broker'[k].n
  BY <1>1, <1>2, <1>3, <1>4, <1>5, <1>6
<1>8. ASSUME NEW i \in DOMAIN inbox', inbox'[i].msg = k
      PROVE  /\ starts'[k] < inbox'[i].n /\ inbox'[i].n <= broker'[k].n
             /\ \A j \in DOMAIN inbox' : (inbox'[j].msg = k /\ i < j) => inbox'[i].n < inbox'[j].n
  <2>1. /\ i \in Nat /\ i + 1 \in DOMAIN inbox /\ inbox'[i] = inbox[i + 1] /\ inbox[i + 1].n \in Nat
        /\ starts[k] < inbox[i + 1].n /\ inbox[i + 1].n <= broker[k].n
    BY <1>2, <1>3, <1>6, <1>8
  <2>2. k = inbox[1].msg => starts[k] < inbox[1].n /\ inbox[1].n < inbox[i + 1].n
    BY <2>1, <1>2, <1>6, <1>8
  <2>3. starts'[k] < inbox'[i].n
    BY <2>1, <2>2, <1>2, <1>3, <1>4, <1>5
  <2>4. ASSUME NEW j \in DOMAIN inbox', inbox'[j].msg = k, i < j
        PROVE  inbox'[i].n < inbox'[j].n
    <3>1. j \in Nat /\ j + 1 \in DOMAIN inbox /\ inbox'[j] = inbox[j + 1] /\ i + 1 < j + 1
      BY <2>4, <2>1, <1>2
    <3> QED
      BY <3>1, <2>1, <2>4, <1>6, <1>8
  <2> QED
    BY <2>1, <2>3, <2>4, <1>1
<1> QED
  BY <1>7, <1>8

(* The broker's answers change no delivery number.                           *)
LEMMA AnswersKeepNumbers ==
  ASSUME NEW m \in Messages, broker \in [Messages -> Deliveries(MaxDeliver)],
         NEW r, r = Settled(broker[m]) \/ r = Requeued(broker[m], MaxDeliver),
         broker' = [broker EXCEPT ![m] = r]
  PROVE  \A k \in Messages : broker'[k].n = broker[k].n
<1>1. r.n = broker[m].n
  BY DEF Settled, Requeued, Deliveries
<1>2. \A k \in Messages : broker'[k] = IF k = m THEN r ELSE broker[k]
  OBVIOUS
<1> QED
  BY <1>1, <1>2

(* Every other step leaves the counts alone, or starts anew.                 *)
LEMMA StepNumbers ==
  ASSUME NumberedInv, TypeOK', [Next]_vars
  PROVE  Numbered'
<1>1. CASE \E m \in Messages : Push(m)
  BY <1>1, PushNumbers
<1>2. CASE Begin
  BY <1>2, BeginNumbers
<1>3. CASE Crash \/ GracefulStop
  <2>1. inbox' = <<>> /\ DOMAIN inbox' = {}
    BY <1>3 DEF Crash, GracefulStop, Restart
  <2>2. \A m \in Messages : starts'[m] <= broker'[m].n
    BY <1>3 DEF Crash, GracefulStop, Restart, Fresh, NumberedInv, Numbered
  <2> QED
    BY <2>1, <2>2 DEF Numbered
<1>4. CASE UNCHANGED <<inbox, starts>> /\ \A m \in Messages : broker'[m].n = broker[m].n
  BY <1>4 DEF NumberedInv, Numbered
<1>6. ASSUME \/ \E m \in Messages : AckWait(m)
             \/ Decide \/ SettleAck \/ SettleNack \/ SettleDeadLetter \/ UNCHANGED vars
      PROVE  UNCHANGED <<inbox, starts>> /\ \A m \in Messages : broker'[m].n = broker[m].n
  <2>1. UNCHANGED <<inbox, starts>>
    BY <1>6 DEF AckWait, Decide, SettleAck, SettleNack, SettleDeadLetter, Finish, vars, process, outcome
  <2>2. broker \in [Messages -> Deliveries(MaxDeliver)]
    BY DEF NumberedInv, TypeOK
  <2>3. CASE broker' = broker
    BY <2>1, <2>3
  <2>4. CASE \E m \in Messages : AckWait(m)
    <3> PICK m \in Messages : AckWait(m)
      BY <2>4
    <3>1. broker' = [broker EXCEPT ![m] = Requeued(broker[m], MaxDeliver)]
      BY DEF AckWait
    <3> QED
      BY <3>1, <2>1, <2>2, AnswersKeepNumbers
  <2>5. Decide \/ UNCHANGED vars => broker' = broker
    BY DEF Decide, vars
  <2>6. CASE SettleAck \/ SettleNack \/ SettleDeadLetter
    <3>1. current.msg \in Messages
      BY <2>6, CurrentIsCopy DEF SettleAck, SettleNack, SettleDeadLetter, NumberedInv
    <3>2. \/ broker' = broker
          \/ broker' = [broker EXCEPT ![current.msg] = Settled(broker[current.msg])]
          \/ broker' = [broker EXCEPT ![current.msg] = Requeued(broker[current.msg], MaxDeliver)]
      BY <2>6 DEF SettleAck, SettleNack, SettleDeadLetter, Answer
    <3>3. CASE broker' = [broker EXCEPT ![current.msg] = Settled(broker[current.msg])]
      BY <3>1, <3>3, <2>1, <2>2, AnswersKeepNumbers
    <3>4. CASE broker' = [broker EXCEPT ![current.msg] = Requeued(broker[current.msg], MaxDeliver)]
      BY <3>1, <3>4, <2>1, <2>2, AnswersKeepNumbers
    <3> QED
      BY <3>2, <3>3, <3>4, <2>3
  <2> QED
    BY <1>6, <2>1, <2>3, <2>4, <2>5, <2>6
<1> QED
  BY <1>1, <1>2, <1>3, <1>4, <1>6 DEF Next

(* The handler is called for a message at most MaxDeliver times in the life  *)
(* of the durable, however copies, timeouts and late answers interleave.     *)
THEOREM AttemptsAlwaysBounded == Spec => []AttemptsBounded
<1>1. Init => Numbered
  BY DEF Init, Numbered, Fresh
<1>2. IInv /\ Numbered /\ IInv' /\ [Next]_vars => Numbered'
  BY StepNumbers DEF IInv, NumberedInv
<1>3. IInv /\ Numbered => AttemptsBounded
  BY DeliveryAssumption DEF IInv, TypeOK, Deliveries, Numbered, AttemptsBounded
<1> QED
  BY <1>1, <1>2, <1>3, Invariance, PTL DEF Spec
=============================================================================
