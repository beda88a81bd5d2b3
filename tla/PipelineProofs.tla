--------------------------- MODULE PipelineProofs ---------------------------
(* Type correctness of Pipeline, the chain of artifacts behind the events,  *)
(* and that an indexed document stays indexed.                              *)
EXTENDS Pipeline, JetStreamProofs, TLAPS

ReadyHasTries == \A m \in Messages : HasTries(durable[m], MaxDeliver)

(* Only a message of the stream is being handled.                           *)
Streamed == \A m \in Messages : durable[m].state = "out" => InStream(m)

(* A task past its fetch holds a message of its own stage.                  *)
Holding ==
  \A w \in Tasks : step[w] \notin {"idle", "dead"} =>
    on[w] \in Messages /\ on[w].subject = In(w) /\ InStream(on[w])

(* Between the artifact and its event, the artifact is there.               *)
StoredHasArtifact ==
  \A w \in Tasks : step[w] = "stored" => <<Out(w), Doc(w)>> \in artifacts

IInv ==
  TypeOK /\ ReadyHasTries /\ Streamed /\ Holding /\ StoredHasArtifact /\ ArtifactChain

-----------------------------------------------------------------------------
(* A fetched message, and what the steps below need of it.                  *)
LEMMA HeldMessage ==
  ASSUME IInv, NEW w \in Tasks, step[w] \notin {"idle", "dead"}
  PROVE  /\ on[w] \in Messages
         /\ Doc(w) \in Docs
         /\ on[w].subject = In(w)
         /\ InStream(on[w])
         /\ copies[In(w)][Doc(w)] > 0
<1>1. on[w] \in Messages /\ on[w].subject = In(w) /\ InStream(on[w])
  BY DEF IInv, Holding
<1>2. on[w].copy \in 1..MaxEvents /\ Doc(w) \in Docs /\ In(w) \in Subjects
  BY <1>1 DEF Messages, Doc
<1>3. copies[In(w)][Doc(w)] \in 0..MaxEvents
  BY <1>2 DEF IInv, TypeOK
<1>4. copies[In(w)][Doc(w)] > 0
  BY <1>1, <1>2, <1>3, PipelineAssumption DEF InStream, Doc
<1> QED
  BY <1>1, <1>2, <1>4

LEMMA FaultType ==
  ASSUME TypeOK, Fault
  PROVE  faults' \in 0..MaxFaults
BY PipelineAssumption DEF TypeOK, Fault

(* One more copy of an event: the stream only grows, and only there.        *)
LEMMA AppendGrows ==
  ASSUME TypeOK, NEW s \in Subjects, NEW d \in Docs, Append(s, d)
  PROVE  /\ copies' \in [Subjects -> [Docs -> 0..MaxEvents]]
         /\ \A t \in Subjects, e \in Docs :
               /\ copies[t][e] <= copies'[t][e]
               /\ copies'[t][e] > 0 => copies[t][e] > 0 \/ (t = s /\ e = d)
<1> DEFINE new == IF copies[s][d] < MaxEvents THEN copies[s][d] + 1 ELSE copies[s][d]
<1>1. copies[s][d] \in 0..MaxEvents /\ new \in 0..MaxEvents /\ copies[s][d] <= new
  BY PipelineAssumption DEF TypeOK
<1>2. copies' = [copies EXCEPT ![s][d] = new]
  BY DEF Append
<1> HIDE DEF new
<1>3. copies' \in [Subjects -> [Docs -> 0..MaxEvents]]
  BY <1>1, <1>2 DEF TypeOK
<1>4. ASSUME NEW t \in Subjects, NEW e \in Docs
      PROVE  /\ copies[t][e] <= copies'[t][e]
             /\ copies'[t][e] > 0 => copies[t][e] > 0 \/ (t = s /\ e = d)
  <2>1. CASE t = s /\ e = d
    BY <1>1, <1>2, <2>1 DEF TypeOK
  <2>2. CASE ~(t = s /\ e = d)
    <3>1. copies'[t][e] = copies[t][e] /\ copies[t][e] \in 0..MaxEvents
      BY <1>2, <2>2 DEF TypeOK
    <3> QED
      BY <3>1, PipelineAssumption
  <2> QED
    BY <2>1, <2>2
<1> QED
  BY <1>3, <1>4

(* While the stream only grows, its messages stay in it.                    *)
LEMMA StreamStays ==
  ASSUME TypeOK, TypeOK', NEW m \in Messages, InStream(m),
         \A t \in Subjects, e \in Docs : copies[t][e] <= copies'[t][e]
  PROVE  InStream(m)'
<1>1. m.subject \in Subjects /\ m.doc \in Docs /\ m.copy \in Nat
  BY PipelineAssumption DEF Messages
<1>2. /\ copies[m.subject][m.doc] \in Nat
      /\ copies'[m.subject][m.doc] \in Nat
  BY <1>1, PipelineAssumption DEF TypeOK
<1> QED
  BY <1>1, <1>2 DEF InStream

(* One record of one durable changes, to a record that is in order.         *)
LEMMA DurableKeeps ==
  ASSUME TypeOK, ReadyHasTries, Streamed, copies' = copies,
         NEW m \in Messages, NEW record \in Deliveries(MaxDeliver),
         HasTries(record, MaxDeliver),
         record.state = "out" => InStream(m),
         durable' = [durable EXCEPT ![m] = record] \/ durable' = durable
  PROVE  /\ durable' \in [Messages -> Deliveries(MaxDeliver)]
         /\ ReadyHasTries'
         /\ Streamed'
<1>1. \A k \in Messages : durable'[k] = durable[k] \/ (k = m /\ durable'[k] = record)
  BY DEF TypeOK
<1>2. \A k \in Messages : InStream(k)' <=> InStream(k)
  BY DEF InStream
<1> QED
  BY <1>1, <1>2 DEF TypeOK, ReadyHasTries, Streamed

(* What the broker's answers make of a record.                              *)
LEMMA AnswersInOrder ==
  ASSUME TypeOK, ReadyHasTries, NEW m \in Messages
  PROVE  /\ Settled(durable[m]) \in Deliveries(MaxDeliver)
         /\ HasTries(Settled(durable[m]), MaxDeliver)
         /\ Settled(durable[m]).state # "out"
         /\ Requeued(durable[m], MaxDeliver) \in Deliveries(MaxDeliver)
         /\ HasTries(Requeued(durable[m], MaxDeliver), MaxDeliver)
         /\ Requeued(durable[m], MaxDeliver).state # "out"
<1>1. durable[m] \in Deliveries(MaxDeliver) /\ HasTries(durable[m], MaxDeliver)
  BY DEF TypeOK, ReadyHasTries
<1> QED
  BY <1>1, SettledType, RequeuedType, PipelineAssumption

LEMMA SettledKeeps ==
  ASSUME TypeOK, ReadyHasTries, Streamed, copies' = copies, NEW m \in Messages,
         \/ durable' = [durable EXCEPT ![m] = Settled(@)]
         \/ durable' = [durable EXCEPT ![m] = Requeued(@, MaxDeliver)]
         \/ durable' = durable
  PROVE  /\ durable' \in [Messages -> Deliveries(MaxDeliver)]
         /\ ReadyHasTries'
         /\ Streamed'
<1> DEFINE settled == Settled(durable[m])
           requeued == Requeued(durable[m], MaxDeliver)
<1>1. /\ settled \in Deliveries(MaxDeliver) /\ HasTries(settled, MaxDeliver)
      /\ requeued \in Deliveries(MaxDeliver) /\ HasTries(requeued, MaxDeliver)
      /\ settled.state # "out" /\ requeued.state # "out"
  BY AnswersInOrder
<1>2. \/ durable' = [durable EXCEPT ![m] = settled]
      \/ durable' = [durable EXCEPT ![m] = requeued]
      \/ durable' = durable
  OBVIOUS
<1> HIDE DEF settled, requeued
<1>3. CASE durable' = [durable EXCEPT ![m] = settled]
  BY <1>1, <1>3, DurableKeeps
<1>4. CASE durable' = [durable EXCEPT ![m] = requeued]
  BY <1>1, <1>4, DurableKeeps
<1>5. CASE durable' = durable
  BY <1>1, <1>5, DurableKeeps
<1> QED
  BY <1>2, <1>3, <1>4, <1>5

(* A delivery: Fetch by a task, Push to the catalog.                        *)
LEMMA DeliveredKeeps ==
  ASSUME TypeOK, ReadyHasTries, Streamed, copies' = copies, NEW m \in Messages,
         durable[m].state = "ready", InStream(m),
         durable' = [durable EXCEPT ![m] = Delivered(@)]
  PROVE  /\ durable' \in [Messages -> Deliveries(MaxDeliver)]
         /\ ReadyHasTries'
         /\ Streamed'
         /\ durable[m].n + 1 \in 1..MaxDeliver
<1> DEFINE delivered == Delivered(durable[m])
<1>1. durable[m] \in Deliveries(MaxDeliver) /\ durable[m].n < MaxDeliver
  BY DEF TypeOK, ReadyHasTries, HasTries
<1>2. /\ delivered \in Deliveries(MaxDeliver) /\ HasTries(delivered, MaxDeliver)
      /\ durable[m].n + 1 \in 1..MaxDeliver
  BY <1>1, DeliveredType, PipelineAssumption
<1>3. durable' = [durable EXCEPT ![m] = delivered]
  OBVIOUS
<1> HIDE DEF delivered
<1> QED
  BY <1>2, <1>3, DurableKeeps

(* A task that goes on with its message, or lets go of it, disturbs neither *)
(* Holding nor StoredHasArtifact.                                           *)
LEMMA TasksKeep ==
  ASSUME IInv, TypeOK', artifacts \subseteq artifacts',
         \A t \in Subjects, e \in Docs : copies[t][e] <= copies'[t][e],
         \A v \in Tasks :
            \/ step'[v] \in {"idle", "dead"}
            \/ /\ on'[v] = on[v]
               /\ step[v] \notin {"idle", "dead"}
               /\ \/ step'[v] # "stored"
                  \/ step[v] = "stored"
                  \/ <<Out(v), Doc(v)>> \in artifacts'
  PROVE  Holding' /\ StoredHasArtifact'
<1>1. ASSUME NEW v \in Tasks, step'[v] \notin {"idle", "dead"}
      PROVE  on'[v] \in Messages /\ on'[v].subject = In(v) /\ InStream(on[v])'
  <2>1. on[v] \in Messages /\ on[v].subject = In(v) /\ InStream(on[v]) /\ on'[v] = on[v]
    BY <1>1 DEF IInv, Holding
  <2>2. copies[on[v].subject][on[v].doc] <= copies'[on[v].subject][on[v].doc]
    BY <2>1 DEF Messages
  <2>3. on[v].subject \in Subjects /\ on[v].doc \in Docs /\ on[v].copy \in Nat
    BY <2>1, PipelineAssumption DEF Messages
  <2>4. /\ copies[on[v].subject][on[v].doc] \in Nat
        /\ copies'[on[v].subject][on[v].doc] \in Nat
    BY <2>3, PipelineAssumption DEF IInv, TypeOK
  <2> QED
    BY <2>1, <2>2, <2>3, <2>4 DEF InStream
<1>2. Holding'
  BY <1>1 DEF Holding
<1>3. StoredHasArtifact'
  BY DEF IInv, StoredHasArtifact, Doc
<1> QED
  BY <1>2, <1>3

LEMMA GotoKeeps ==
  ASSUME TypeOK, NEW w \in Tasks, NEW s \in Steps, Goto(w, s)
  PROVE  /\ step' \in [Tasks -> Steps]
         /\ on' \in [Tasks -> Messages \cup {NoMessage}]
         /\ nth' \in [Tasks -> 0..MaxDeliver]
         /\ on' = on
         /\ \A v \in Tasks : step'[v] = IF v = w THEN s ELSE step[v]
BY DEF TypeOK, Goto

LEMMA LetGoKeeps ==
  ASSUME TypeOK, NEW w \in Tasks, NEW s \in {"idle", "dead"},
         step' = [step EXCEPT ![w] = s],
         on' = [on EXCEPT ![w] = NoMessage],
         nth' = [nth EXCEPT ![w] = 0]
  PROVE  /\ step' \in [Tasks -> Steps]
         /\ on' \in [Tasks -> Messages \cup {NoMessage}]
         /\ nth' \in [Tasks -> 0..MaxDeliver]
         /\ \A v \in Tasks : \/ step'[v] \in {"idle", "dead"}
                             \/ step'[v] = step[v] /\ on'[v] = on[v]
BY PipelineAssumption DEF TypeOK, Steps

-----------------------------------------------------------------------------
(* The steps that neither publish nor store: only the task's place in       *)
(* handle changes.                                                          *)
LEMMA MoveKeeps ==
  ASSUME IInv, NEW w \in Tasks, step[w] \notin {"idle", "dead"},
         NEW s \in Steps \ {"stored"}, Goto(w, s),
         UNCHANGED <<store, stream, dlq, restarts>>, faults' \in 0..MaxFaults
  PROVE  IInv'
<1>1. TypeOK'
  BY GotoKeeps DEF IInv, TypeOK, store, stream
<1>2. Holding' /\ StoredHasArtifact'
  <2>1. \A t \in Subjects, e \in Docs : copies[t][e] <= copies'[t][e]
    BY PipelineAssumption DEF IInv, TypeOK, stream
  <2>2. artifacts \subseteq artifacts'
    BY DEF store
  <2>3. \A v \in Tasks :
           \/ step'[v] \in {"idle", "dead"}
           \/ on'[v] = on[v] /\ step[v] \notin {"idle", "dead"}
                /\ (step'[v] # "stored" \/ step[v] = "stored")
    BY GotoKeeps DEF IInv
  <2> QED
    BY <1>1, <2>1, <2>2, <2>3, TasksKeep
<1>3. ReadyHasTries' /\ Streamed' /\ ArtifactChain'
  BY DEF IInv, ReadyHasTries, Streamed, ArtifactChain, InStream, store, stream
<1> QED
  BY <1>1, <1>2, <1>3 DEF IInv

(* The steps that settle or requeue a message of a task that lets go of it. *)
LEMMA LeaveKeeps ==
  ASSUME IInv, NEW w \in Tasks, step[w] \notin {"idle", "dead"},
         NEW s \in {"idle", "dead"},
         step' = [step EXCEPT ![w] = s],
         on' = [on EXCEPT ![w] = NoMessage],
         nth' = [nth EXCEPT ![w] = 0],
         UNCHANGED <<store, copies, restarts>>,
         \/ durable' = [durable EXCEPT ![on[w]] = Settled(@)]
         \/ durable' = [durable EXCEPT ![on[w]] = Requeued(@, MaxDeliver)]
         \/ durable' = durable,
         dlq' \subseteq Messages, faults' \in 0..MaxFaults
  PROVE  IInv'
<1>1. on[w] \in Messages
  BY HeldMessage
<1>2. durable' \in [Messages -> Deliveries(MaxDeliver)] /\ ReadyHasTries' /\ Streamed'
  BY <1>1, SettledKeeps DEF IInv
<1>3. TypeOK'
  BY <1>2, LetGoKeeps DEF IInv, TypeOK, store
<1>4. Holding' /\ StoredHasArtifact'
  <2>1. \A t \in Subjects, e \in Docs : copies[t][e] <= copies'[t][e]
    BY PipelineAssumption DEF IInv, TypeOK
  <2>2. artifacts \subseteq artifacts'
    BY DEF store
  <2>3. \A v \in Tasks :
           \/ step'[v] \in {"idle", "dead"}
           \/ on'[v] = on[v] /\ step[v] \notin {"idle", "dead"}
                /\ (step'[v] # "stored" \/ step[v] = "stored")
    BY LetGoKeeps DEF IInv
  <2> QED
    BY <1>3, <2>1, <2>2, <2>3, TasksKeep
<1>5. ArtifactChain'
  BY DEF IInv, ArtifactChain, store
<1> QED
  BY <1>2, <1>3, <1>4, <1>5 DEF IInv

(* Steps of the catalog: its answer to the broker and the document status.  *)
LEMMA CatalogKeeps ==
  ASSUME IInv, NEW m \in Messages, durable[m].state = "out",
         UNCHANGED <<artifacts, copies, tasks, restarts>>,
         \/ durable' = [durable EXCEPT ![m] = Settled(@)]
         \/ durable' = [durable EXCEPT ![m] = Requeued(@, MaxDeliver)]
         \/ durable' = durable,
         dlq' \subseteq Messages, faults' \in 0..MaxFaults,
         NEW new \in {"none", "registered", "indexed", "failed"},
         status' = [status EXCEPT ![m.doc] = new],
         new = "indexed" => m.subject = "extracted" \/ status[m.doc] = "indexed"
  PROVE  IInv'
<1>1. durable' \in [Messages -> Deliveries(MaxDeliver)] /\ ReadyHasTries' /\ Streamed'
  BY SettledKeeps DEF IInv
<1>2. TypeOK'
  BY <1>1 DEF IInv, TypeOK, tasks
<1>3. Holding' /\ StoredHasArtifact'
  BY DEF IInv, Holding, StoredHasArtifact, InStream, Doc, tasks
<1>4. ArtifactChain'
  <2>1. m.subject \in Subjects /\ m.doc \in Docs /\ m.copy \in 1..MaxEvents
    BY DEF Messages
  <2>2. InStream(m)
    BY DEF IInv, Streamed
  <2>3. copies[m.subject][m.doc] \in Nat
    BY <2>1, PipelineAssumption DEF IInv, TypeOK
  <2>4. copies[m.subject][m.doc] > 0
    BY <2>1, <2>2, <2>3, PipelineAssumption DEF InStream
  <2>5. new = "indexed" => <<"extracted", m.doc>> \in artifacts
    BY <2>1, <2>4 DEF IInv, ArtifactChain
  <2>6. \A d \in Docs : status'[d] = status[d] \/ (d = m.doc /\ status'[d] = new)
    BY DEF IInv, TypeOK
  <2> QED
    BY <2>5, <2>6 DEF IInv, ArtifactChain
<1> QED
  BY <1>1, <1>2, <1>3, <1>4 DEF IInv

(* The events the tasks publish: an artifact stands behind each of parsed   *)
(* and extracted.                                                           *)
LEMMA PublishKeeps ==
  ASSUME IInv, NEW w \in Tasks, step[w] \in {"stored", "failing"},
         Append(Event(w), Doc(w)) \/ copies' = copies,
         NEW s \in {"ack", "term", "nak"}, Goto(w, s),
         UNCHANGED <<store, durable, dlq, restarts>>, faults' \in 0..MaxFaults
  PROVE  IInv'
<1>1. Doc(w) \in Docs /\ Event(w) \in Subjects /\ s \in Steps
  BY HeldMessage DEF Event, Out, Subjects, Steps
<1>2. \/ Append(Event(w), Doc(w))
      \/ copies' = copies
  OBVIOUS
<1>3. /\ copies' \in [Subjects -> [Docs -> 0..MaxEvents]]
      /\ \A t \in Subjects, e \in Docs :
            /\ copies[t][e] <= copies'[t][e]
            /\ copies'[t][e] > 0 => copies[t][e] > 0 \/ (t = Event(w) /\ e = Doc(w))
  <2>1. CASE Append(Event(w), Doc(w))
    BY <1>1, <2>1, AppendGrows DEF IInv
  <2>2. CASE copies' = copies
    BY <2>2, PipelineAssumption DEF IInv, TypeOK
  <2> QED
    BY <1>2, <2>1, <2>2
<1>4. TypeOK'
  BY <1>1, <1>3, GotoKeeps DEF IInv, TypeOK, store
<1>5. Holding' /\ StoredHasArtifact'
  <2>1. artifacts \subseteq artifacts'
    BY DEF store
  <2>2. \A v \in Tasks :
           \/ step'[v] \in {"idle", "dead"}
           \/ on'[v] = on[v] /\ step[v] \notin {"idle", "dead"}
                /\ (step'[v] # "stored" \/ step[v] = "stored")
    BY <1>1, GotoKeeps DEF IInv
  <2> QED
    BY <1>3, <1>4, <2>1, <2>2, TasksKeep
<1>6. ReadyHasTries' /\ Streamed'
  BY <1>3, <1>4, StreamStays DEF IInv, ReadyHasTries, Streamed
<1>7. ArtifactChain'
  <2>1. ASSUME NEW d \in Docs, NEW t \in {"parsed", "extracted"}, copies'[t][d] > 0
        PROVE  <<t, d>> \in artifacts
    <3>1. copies[t][d] > 0 \/ (t = Event(w) /\ d = Doc(w))
      BY <1>3, <2>1 DEF Subjects
    <3>2. CASE copies[t][d] > 0
      BY <3>2 DEF IInv, ArtifactChain
    <3>3. CASE t = Event(w) /\ d = Doc(w)
      BY <2>1, <3>3 DEF Event, IInv, StoredHasArtifact
    <3> QED
      BY <3>1, <3>2, <3>3
  <2> QED
    BY <2>1 DEF IInv, ArtifactChain, store
<1> QED
  BY <1>4, <1>5, <1>6, <1>7 DEF IInv

LEMMA RelayKeeps ==
  ASSUME IInv, NEW d \in Docs, Append("registered", d),
         UNCHANGED <<store, durable, tasks, dlq, restarts>>, faults' \in 0..MaxFaults
  PROVE  IInv'
<1>1. /\ copies' \in [Subjects -> [Docs -> 0..MaxEvents]]
      /\ \A t \in Subjects, e \in Docs :
            /\ copies[t][e] <= copies'[t][e]
            /\ copies'[t][e] > 0 => copies[t][e] > 0 \/ t = "registered"
  BY AppendGrows DEF IInv, Subjects
<1>2. TypeOK'
  BY <1>1 DEF IInv, TypeOK, store, tasks
<1>3. Holding' /\ ReadyHasTries' /\ Streamed'
  BY <1>1, <1>2, StreamStays DEF IInv, Holding, ReadyHasTries, Streamed, tasks
<1>4. StoredHasArtifact' /\ ArtifactChain'
  BY <1>1 DEF IInv, StoredHasArtifact, ArtifactChain, Doc, Subjects, store, tasks
<1> QED
  BY <1>2, <1>3, <1>4 DEF IInv

(* The artifact is written by a task whose own input is in the stream.      *)
LEMMA StoreKeeps ==
  ASSUME IInv, NEW w \in Tasks, StoreArtifact(w)
  PROVE  IInv'
<1> USE DEF StoreArtifact
<1>1. /\ Doc(w) \in Docs
      /\ copies[In(w)][Doc(w)] > 0
      /\ "stored" \in Steps
  BY HeldMessage DEF Steps
<1>2. Out(w) \in {"parsed", "extracted"}
  BY DEF Out
<1>3. TypeOK'
  <2>1. artifacts' \subseteq {"parsed", "extracted"} \X Docs
    BY <1>1, <1>2 DEF IInv, TypeOK
  <2>2. /\ step' \in [Tasks -> Steps]
        /\ on' \in [Tasks -> Messages \cup {NoMessage}]
        /\ nth' \in [Tasks -> 0..MaxDeliver]
    BY <1>1, GotoKeeps DEF IInv
  <2> QED
    BY <2>1, <2>2 DEF IInv, TypeOK, stream, bounds
<1>4. Holding' /\ StoredHasArtifact'
  <2>1. \A t \in Subjects, e \in Docs : copies[t][e] <= copies'[t][e]
    BY PipelineAssumption DEF IInv, TypeOK, stream
  <2>2. \A v \in Tasks :
           \/ step'[v] \in {"idle", "dead"}
           \/ /\ on'[v] = on[v]
              /\ step[v] \notin {"idle", "dead"}
              /\ \/ step'[v] # "stored"
                 \/ step[v] = "stored"
                 \/ <<Out(v), Doc(v)>> \in artifacts'
    BY <1>1, GotoKeeps DEF IInv
  <2> QED
    BY <1>3, <2>1, <2>2, TasksKeep
<1>5. ReadyHasTries' /\ Streamed'
  BY DEF IInv, ReadyHasTries, Streamed, InStream, stream
<1>6. ArtifactChain'
  <2>1. Out(w) = "extracted" => <<"parsed", Doc(w)>> \in artifacts
    BY <1>1 DEF Out, In, IInv, ArtifactChain
  <2> QED
    BY <2>1 DEF IInv, ArtifactChain, stream
<1> QED
  BY <1>3, <1>4, <1>5, <1>6 DEF IInv

LEMMA FetchKeeps ==
  ASSUME IInv, NEW w \in Tasks, NEW m \in Messages, Fetch(w, m)
  PROVE  IInv'
<1>1. /\ durable' \in [Messages -> Deliveries(MaxDeliver)]
      /\ ReadyHasTries' /\ Streamed'
      /\ durable[m].n + 1 \in 1..MaxDeliver
  BY DeliveredKeeps DEF IInv, Fetch
<1>2. TypeOK'
  BY <1>1, PipelineAssumption DEF Fetch, IInv, TypeOK, Steps, store, bounds
<1>3. Holding' /\ StoredHasArtifact'
  BY DEF Fetch, IInv, TypeOK, Holding, StoredHasArtifact, InStream, Doc, store
<1>4. ArtifactChain'
  BY DEF Fetch, IInv, ArtifactChain, store
<1> QED
  BY <1>1, <1>2, <1>3, <1>4 DEF IInv

(* Every task lets go of its message or keeps it; the durable of the stage  *)
(* starts afresh or goes on.                                                *)
LEMMA RestartKeeps ==
  ASSUME IInv, NEW W, Restart(W)
  PROVE  IInv'
<1>1. \A m \in Messages : durable'[m] = durable[m] \/ durable'[m] = Fresh
  BY DEF Restart
<1>2. Fresh \in Deliveries(MaxDeliver) /\ Fresh.state = "ready" /\ HasTries(Fresh, MaxDeliver)
  BY FreshType, PipelineAssumption
<1>3. durable' \in [Messages -> Deliveries(MaxDeliver)]
  BY <1>2 DEF Restart, IInv, TypeOK
<1>4. ReadyHasTries' /\ Streamed'
  BY <1>1, <1>2 DEF Restart, IInv, ReadyHasTries, Streamed, InStream
<1>5. restarts' \in 0..MaxRestarts
  BY PipelineAssumption DEF Restart, IInv, TypeOK
<1>6. /\ step' \in [Tasks -> Steps]
      /\ on' \in [Tasks -> Messages \cup {NoMessage}]
      /\ nth' \in [Tasks -> 0..MaxDeliver]
  BY PipelineAssumption DEF Restart, IInv, TypeOK, Steps
<1>7. TypeOK'
  BY <1>3, <1>5, <1>6 DEF Restart, IInv, TypeOK, store
<1>8. Holding' /\ StoredHasArtifact'
  BY DEF Restart, IInv, Holding, StoredHasArtifact, InStream, Doc, store
<1>9. ArtifactChain'
  BY DEF Restart, IInv, ArtifactChain, store
<1> QED
  BY <1>4, <1>7, <1>8, <1>9 DEF IInv

-----------------------------------------------------------------------------
LEMMA InitEstablishes == Init => IInv
<1> SUFFICES ASSUME Init PROVE IInv
  OBVIOUS
<1>1. Fresh \in Deliveries(MaxDeliver) /\ Fresh.state = "ready" /\ HasTries(Fresh, MaxDeliver)
  BY FreshType, PipelineAssumption
<1>2. TypeOK
  BY <1>1, PipelineAssumption DEF Init, TypeOK, Steps
<1>3. ReadyHasTries /\ Streamed
  BY <1>1 DEF Init, ReadyHasTries, Streamed
<1>4. Holding /\ StoredHasArtifact /\ ArtifactChain
  BY DEF Init, Holding, StoredHasArtifact, ArtifactChain, Subjects
<1> QED
  BY <1>2, <1>3, <1>4 DEF IInv

LEMMA HandlePreserves ==
  ASSUME IInv, NEW w \in Tasks, Handle(w)
  PROVE  IInv'
<1>1. CASE CheckArtifact(w)
  <2>1. "ack" \in Steps \ {"stored"} /\ "working" \in Steps \ {"stored"}
    BY DEF Steps
  <2>2. PICK s \in {"ack", "working"} : Goto(w, s)
    BY <1>1 DEF CheckArtifact
  <2>3. faults' \in 0..MaxFaults
    BY <1>1 DEF CheckArtifact, bounds, IInv, TypeOK
  <2> QED
    BY <1>1, <2>1, <2>2, <2>3, MoveKeeps DEF CheckArtifact, bounds
<1>2. CASE StoreArtifact(w)
  BY <1>2, StoreKeeps
<1>3. CASE Reject(w)
  <2>1. "failing" \in Steps \ {"stored"}
    BY DEF Steps
  <2>2. faults' \in 0..MaxFaults
    BY <1>3 DEF Reject, bounds, IInv, TypeOK
  <2> QED
    BY <1>3, <2>1, <2>2, MoveKeeps DEF Reject, bounds
<1>4. CASE WorkFails(w)
  <2>1. "nak" \in Steps \ {"stored"}
    BY DEF Steps
  <2>2. faults' \in 0..MaxFaults
    BY <1>4, FaultType DEF WorkFails, IInv
  <2> QED
    BY <1>4, <2>1, <2>2, MoveKeeps DEF WorkFails
<1>5. CASE Announce(w)
  <2>1. PICK s \in {"ack", "term"} : Goto(w, s)
    BY <1>5 DEF Announce
  <2>2. faults' \in 0..MaxFaults
    BY <1>5 DEF Announce, bounds, IInv, TypeOK
  <2> QED
    BY <1>5, <2>1, <2>2, PublishKeeps DEF Announce, bounds
<1>6. CASE AnnounceFails(w)
  BY <1>6, FaultType, PublishKeeps DEF AnnounceFails, IInv
<1>7. CASE Settle(w)
  <2>1. dlq' \subseteq Messages /\ faults' \in 0..MaxFaults
    BY <1>7, FaultType DEF Settle, IInv, TypeOK
  <2> QED
    BY <1>7, <2>1, LeaveKeeps DEF Settle, Finish
<1>8. CASE Nak(w)
  <2>1. dlq' \subseteq Messages /\ faults' \in 0..MaxFaults
    BY <1>8 DEF Nak, bounds, IInv, TypeOK
  <2> QED
    BY <1>8, <2>1, LeaveKeeps DEF Nak, Finish, bounds
<1>9. CASE DeadLetter(w)
  <2>1. dlq' \subseteq Messages /\ faults' \in 0..MaxFaults
    BY <1>9, HeldMessage DEF DeadLetter, bounds, IInv, TypeOK
  <2> QED
    BY <1>9, <2>1, LeaveKeeps DEF DeadLetter, Finish, bounds
<1>10. CASE Die(w)
  <2>1. dlq' \subseteq Messages /\ faults' \in 0..MaxFaults
    BY <1>10, FaultType DEF Die, IInv, TypeOK
  <2> QED
    BY <1>10, <2>1, LeaveKeeps DEF Die, stream
<1> QED
  BY <1>1, <1>2, <1>3, <1>4, <1>5, <1>6, <1>7, <1>8, <1>9, <1>10 DEF Handle

LEMMA CatalogPreserves ==
  ASSUME IInv, NEW m \in Messages, Catalog(m)
  PROVE  IInv'
<1>1. m.doc \in Docs
  BY DEF Messages
<1>2. CASE Push(m)
  <2>1. durable' \in [Messages -> Deliveries(MaxDeliver)] /\ ReadyHasTries' /\ Streamed'
    BY <1>2, DeliveredKeeps DEF IInv, Push
  <2>2. TypeOK'
    BY <1>2, <2>1 DEF Push, IInv, TypeOK, store, tasks, bounds
  <2>3. Holding' /\ StoredHasArtifact' /\ ArtifactChain'
    BY <1>2 DEF Push, IInv, Holding, StoredHasArtifact, ArtifactChain,
                InStream, Doc, store, tasks
  <2> QED
    BY <2>1, <2>2, <2>3 DEF IInv
<1>3. CASE CommitExtraction(m)
  <2>1. dlq' \subseteq Messages /\ faults' \in 0..MaxFaults
    BY <1>3, FaultType DEF CommitExtraction, Answered, IInv, TypeOK
  <2> QED
    BY <1>3, <2>1, CatalogKeeps DEF CommitExtraction, Answered
<1>4. CASE MarkDocumentFailed(m)
  <2> DEFINE new == IF status[m.doc] = "indexed" THEN status[m.doc] ELSE "failed"
  <2>1. dlq' \subseteq Messages /\ faults' \in 0..MaxFaults
    BY <1>4, FaultType DEF MarkDocumentFailed, Answered, IInv, TypeOK
  <2>2. /\ new \in {"none", "registered", "indexed", "failed"}
        /\ new = "indexed" => status[m.doc] = "indexed"
    OBVIOUS
  <2>3. status' = [status EXCEPT ![m.doc] = new]
    BY <1>4 DEF MarkDocumentFailed
  <2> HIDE DEF new
  <2> QED
    BY <1>4, <2>1, <2>2, <2>3, CatalogKeeps DEF MarkDocumentFailed, Answered
<1>5. CASE CatalogFails(m)
  <2>1. dlq' \subseteq Messages /\ faults' \in 0..MaxFaults
    BY <1>5, FaultType DEF CatalogFails, IInv, TypeOK
  <2>2. /\ status[m.doc] \in {"none", "registered", "indexed", "failed"}
        /\ status' = [status EXCEPT ![m.doc] = status[m.doc]]
    BY <1>1, <1>5 DEF CatalogFails, store, IInv, TypeOK
  <2> QED
    BY <1>5, <2>1, <2>2, CatalogKeeps DEF CatalogFails, store
<1> QED
  BY <1>2, <1>3, <1>4, <1>5 DEF Catalog

LEMMA StepPreserves == IInv /\ [Next]_vars => IInv'
<1> SUFFICES ASSUME IInv, [Next]_vars PROVE IInv'
  OBVIOUS
<1>1. ASSUME NEW d \in Docs, Register(d) PROVE IInv'
  <2>1. TypeOK'
    BY <1>1 DEF Register, IInv, TypeOK, stream, tasks, bounds
  <2>2. ReadyHasTries' /\ Streamed' /\ Holding' /\ StoredHasArtifact'
    BY <1>1 DEF Register, IInv, ReadyHasTries, Streamed, Holding,
                StoredHasArtifact, InStream, Doc, stream, tasks
  <2>3. ArtifactChain'
    BY <1>1 DEF Register, IInv, TypeOK, ArtifactChain, stream
  <2> QED
    BY <2>1, <2>2, <2>3 DEF IInv
<1>2. ASSUME NEW d \in Docs, Relay(d) PROVE IInv'
  <2>1. faults' \in 0..MaxFaults
    BY <1>2, FaultType DEF Relay, IInv, TypeOK
  <2> QED
    BY <1>2, <2>1, RelayKeeps DEF Relay
<1>3. ASSUME NEW w \in Tasks, Handle(w) PROVE IInv'
  BY <1>3, HandlePreserves
<1>4. ASSUME NEW w \in Tasks, NEW m \in Messages, Fetch(w, m) PROVE IInv'
  BY <1>4, FetchKeeps
<1>5. ASSUME NEW m \in Messages, AckWait(m) PROVE IInv'
  <2>1. durable' \in [Messages -> Deliveries(MaxDeliver)] /\ ReadyHasTries' /\ Streamed'
    BY <1>5, SettledKeeps DEF IInv, AckWait
  <2>2. TypeOK'
    BY <1>5, <2>1 DEF AckWait, IInv, TypeOK, store, tasks, bounds
  <2>3. Holding' /\ StoredHasArtifact' /\ ArtifactChain'
    BY <1>5 DEF AckWait, IInv, Holding, StoredHasArtifact, ArtifactChain,
                InStream, Doc, store, tasks
  <2> QED
    BY <2>1, <2>2, <2>3 DEF IInv
<1>6. ASSUME NEW m \in Messages, Catalog(m) PROVE IInv'
  BY <1>6, CatalogPreserves
<1>7. CASE Restart(ParseTasks) \/ Restart(ExtractTasks)
  BY <1>7, RestartKeeps
<1>8. CASE UNCHANGED vars
  BY <1>8 DEF vars, store, stream, tasks, bounds, IInv, TypeOK, ReadyHasTries,
              Streamed, Holding, StoredHasArtifact, ArtifactChain, InStream, Doc
<1> QED
  BY <1>1, <1>2, <1>3, <1>4, <1>5, <1>6, <1>7, <1>8 DEF Next

(* The strengthened invariant holds in every reachable state.               *)
THEOREM Invariance == Spec => []IInv
BY InitEstablishes, StepPreserves, PTL DEF Spec

(* Every variable keeps its type; no delivery goes past MaxDeliver, however *)
(* many tasks, documents, restarts and faults there are.                    *)
THEOREM TypeCorrect == Spec => []TypeOK
BY Invariance, PTL DEF IInv

(* An event names an artifact that exists, and an indexed document has both *)
(* of its artifacts.                                                        *)
THEOREM ArtifactChainAlways == Spec => []ArtifactChain
BY Invariance, PTL DEF IInv

(* No step takes a document out of "indexed".                               *)
THEOREM IndexedStays == Spec => IndexedIsFinal
<1>1. IInv /\ [Next]_vars =>
        [\A d \in Docs : status[d] = "indexed" => status'[d] = "indexed"]_vars
  <2> SUFFICES ASSUME IInv, Next, NEW d \in Docs, status[d] = "indexed"
               PROVE  status'[d] = "indexed"
    OBVIOUS
  <2>1. ASSUME NEW e \in Docs, Register(e) PROVE status'[d] = "indexed"
    BY <2>1 DEF Register, IInv, TypeOK
  <2>2. ASSUME NEW e \in Docs, Relay(e) PROVE status'[d] = "indexed"
    BY <2>2 DEF Relay, store
  <2>3. ASSUME NEW w \in Tasks, Handle(w) PROVE status'[d] = "indexed"
    BY <2>3 DEF Handle, CheckArtifact, StoreArtifact, Reject, WorkFails, Announce,
                AnnounceFails, Settle, Nak, DeadLetter, Die, store
  <2>4. ASSUME NEW w \in Tasks, NEW m \in Messages, Fetch(w, m)
        PROVE  status'[d] = "indexed"
    BY <2>4 DEF Fetch, store
  <2>5. ASSUME NEW m \in Messages, AckWait(m) \/ Push(m) \/ CatalogFails(m)
        PROVE  status'[d] = "indexed"
    BY <2>5 DEF AckWait, Push, CatalogFails, store
  <2>6. ASSUME NEW m \in Messages, CommitExtraction(m) \/ MarkDocumentFailed(m)
        PROVE  status'[d] = "indexed"
    BY <2>6 DEF CommitExtraction, MarkDocumentFailed, IInv, TypeOK
  <2>7. CASE Restart(ParseTasks) \/ Restart(ExtractTasks)
    BY <2>7 DEF Restart, store
  <2> QED
    BY <2>1, <2>2, <2>3, <2>4, <2>5, <2>6, <2>7 DEF Next, Catalog
<1> QED
  BY <1>1, Invariance, PTL DEF Spec, IndexedIsFinal

-----------------------------------------------------------------------------
(* Wedged documents.  Without a fault or a restart an artifact has its event *)
(* or a task that is about to publish it.                                    *)
InHand(s, d) == \E w \in Tasks : step[w] = "stored" /\ Out(w) = s /\ Doc(w) = d

(* A step of w, if it is no fault, leaves "stored" only by publishing.       *)
LEMMA StoredStays ==
  ASSUME IInv, [Next]_vars, faults' + restarts' = 0, NEW w \in Tasks, step[w] = "stored"
  PROVE  \/ step'[w] = "stored" /\ Doc(w)' = Doc(w)
         \/ copies'[Out(w)][Doc(w)] > 0
<1>1. /\ faults \in Nat /\ restarts \in Nat /\ faults' # faults + 1 /\ restarts' # restarts + 1
      /\ step \in [Tasks -> Steps] /\ on \in [Tasks -> Messages \cup {NoMessage}]
  <2>1. faults \in Nat /\ restarts \in Nat
    BY PipelineAssumption DEF IInv, TypeOK
  <2>2. (faults' = faults + 1 => faults' \in Nat \ {0}) /\ (restarts' = restarts + 1 => restarts' \in Nat \ {0})
    BY <2>1
  <2>3. (UNCHANGED faults \/ faults' = faults + 1) /\ (UNCHANGED restarts \/ restarts' = restarts + 1)
    BY DEF Next, Register, Relay, Handle, Fetch, AckWait, Catalog, Restart, CheckArtifact, StoreArtifact, Reject,
           WorkFails, Announce, AnnounceFails, Settle, Nak, DeadLetter, Die, Push, CommitExtraction,
           MarkDocumentFailed, CatalogFails, Answered, Fault, vars, bounds
  <2> QED
    BY <2>1, <2>2, <2>3 DEF IInv, TypeOK
<1>2. CASE UNCHANGED tasks
  BY <1>2 DEF tasks, Doc
<1>3. CASE \E v \in Tasks : Announce(v)
  <2> PICK v \in Tasks : Announce(v)
    BY <1>3
  <2>1. CASE v = w
    <3>1. Doc(w) \in Docs /\ Out(w) \in Subjects
      BY HeldMessage DEF Out, Subjects
    <3>2. copies[Out(w)][Doc(w)] \in 0..MaxEvents /\ copies \in [Subjects -> [Docs -> 0..MaxEvents]]
      BY <3>1 DEF IInv, TypeOK
    <3>3. copies' = [copies EXCEPT ![Out(w)][Doc(w)] = IF @ < MaxEvents THEN @ + 1 ELSE @]
      BY <2>1 DEF Announce, Append, Event
    <3> QED
      BY <3>1, <3>2, <3>3, PipelineAssumption
  <2>2. CASE v # w
    BY <2>2, <1>1 DEF Announce, Goto, Doc
  <2> QED
    BY <2>1, <2>2
<1>4. CASE \E v \in Tasks : \/ CheckArtifact(v) \/ StoreArtifact(v) \/ Reject(v)
                           \/ Settle(v) \/ Nak(v) \/ DeadLetter(v)
                           \/ \E m \in Messages : Fetch(v, m)
  BY <1>4, <1>1 DEF CheckArtifact, StoreArtifact, Reject, Settle, Nak, DeadLetter, Finish, Fetch, Goto, Doc
<1>5. ~(\E v \in Tasks : WorkFails(v) \/ AnnounceFails(v) \/ Die(v)) /\ ~Restart(ParseTasks) /\ ~Restart(ExtractTasks)
  BY <1>1 DEF WorkFails, AnnounceFails, Die, Fault, Restart
<1>6. (\E d \in Docs : Register(d) \/ Relay(d)) \/ (\E m \in Messages : AckWait(m) \/ Catalog(m)) \/ UNCHANGED vars
        => UNCHANGED tasks
  BY DEF Register, Relay, AckWait, Catalog, Push, CommitExtraction, MarkDocumentFailed, CatalogFails, vars
<1> QED
  BY <1>2, <1>3, <1>4, <1>5, <1>6 DEF Next, Handle

(* Only StoreArtifact writes an artifact, and its task then has it in hand.  *)
LEMMA StoringIsInHand ==
  ASSUME IInv, [Next]_vars, NEW s, NEW d, <<s, d>> \in artifacts' \ artifacts
  PROVE  InHand(s, d)'
<1>1. PICK w \in Tasks : StoreArtifact(w)
  BY DEF Next, Register, Relay, Handle, Fetch, AckWait, Catalog, Restart, CheckArtifact, Reject,
         WorkFails, Announce, AnnounceFails, Settle, Nak, DeadLetter, Die, Push, CommitExtraction,
         MarkDocumentFailed, CatalogFails, vars, store
<1>2. s = Out(w) /\ d = Doc(w) /\ step'[w] = "stored" /\ on' = on
  BY <1>1 DEF StoreArtifact, Goto, IInv, TypeOK
<1> QED
  BY <1>2 DEF InHand, Doc

LEMMA StreamGrows ==
  ASSUME IInv, [Next]_vars, NEW s \in Subjects, NEW d \in Docs
  PROVE  copies[s][d] <= copies'[s][d]
<1>1. copies[s][d] \in Nat
  BY PipelineAssumption DEF IInv, TypeOK
<1>2. CASE UNCHANGED copies
  BY <1>1, <1>2
<1>3. CASE \E t \in Subjects, e \in Docs : Append(t, e)
  BY <1>3, AppendGrows DEF IInv
<1>4. UNCHANGED copies \/ \E t \in Subjects, e \in Docs : Append(t, e)
  <2>1. \A w \in Tasks : step[w] \in {"stored", "failing"} => Event(w) \in Subjects /\ Doc(w) \in Docs
    BY HeldMessage DEF Event, Out, Subjects
  <2> QED
    BY <2>1
       DEF Next, Register, Relay, Handle, Fetch, AckWait, Catalog, Restart, CheckArtifact, StoreArtifact, Reject,
           WorkFails, Announce, AnnounceFails, Settle, Nak, DeadLetter, Die, Push, CommitExtraction,
           MarkDocumentFailed, CatalogFails, vars, stream, Subjects
<1> QED
  BY <1>2, <1>3, <1>4

LEMMA FaultsAdd ==
  ASSUME TypeOK, TypeOK', [Next]_vars
  PROVE  /\ faults \in Nat /\ restarts \in Nat /\ faults' \in Nat /\ restarts' \in Nat
         /\ faults <= faults' /\ restarts <= restarts'
<1>1. faults \in Nat /\ restarts \in Nat
  BY PipelineAssumption DEF TypeOK
<1>2. faults' \in Nat /\ restarts' \in Nat
  BY PipelineAssumption DEF TypeOK
<1>3. (UNCHANGED faults \/ faults' = faults + 1) /\ (UNCHANGED restarts \/ restarts' = restarts + 1)
  BY DEF Next, Register, Relay, Handle, Fetch, AckWait, Catalog, Restart, CheckArtifact, StoreArtifact, Reject,
         WorkFails, Announce, AnnounceFails, Settle, Nak, DeadLetter, Die, Push, CommitExtraction,
         MarkDocumentFailed, CatalogFails, Answered, Fault, vars, bounds
<1> QED
  BY <1>1, <1>2, <1>3

LEMMA NoneBefore ==
  ASSUME NEW a \in Nat, NEW b \in Nat, NEW c \in Nat, NEW e \in Nat, a <= c, b <= e, ~(c + e > 0)
  PROVE  c + e = 0 /\ ~(a + b > 0)
OBVIOUS

LEMMA StepWedges ==
  ASSUME IInv, IInv', WedgeNeedsFault, [Next]_vars
  PROVE  WedgeNeedsFault'
<1>1. /\ faults \in Nat /\ restarts \in Nat /\ faults' \in Nat /\ restarts' \in Nat
      /\ faults <= faults' /\ restarts <= restarts'
  BY FaultsAdd DEF IInv
<1> SUFFICES ASSUME NEW d \in Docs, NEW s \in {"parsed", "extracted"}, Wedged(s, d)',
                    ~(faults' + restarts' > 0)
             PROVE  FALSE
  BY DEF WedgeNeedsFault
<1>2. faults' + restarts' = 0 /\ ~(faults + restarts > 0)
  BY <1>1, NoneBefore
<1>3. <<s, d>> \in artifacts' /\ copies'[s][d] = 0 /\ ~InHand(s, d)'
  BY DEF Wedged, InHand
<1>4. <<s, d>> \in artifacts
  BY <1>3, StoringIsInHand
<1>5. copies[s][d] = 0
  <2>1. copies[s][d] \in Nat /\ s \in Subjects
    BY PipelineAssumption DEF IInv, TypeOK, Subjects
  <2>2. copies[s][d] <= copies'[s][d]
    BY <2>1, StreamGrows
  <2> QED
    BY <1>3, <2>1, <2>2
<1>6. ~Wedged(s, d)
  BY <1>2 DEF WedgeNeedsFault
<1>7. PICK w \in Tasks : step[w] = "stored" /\ Out(w) = s /\ Doc(w) = d
  BY <1>4, <1>5, <1>6 DEF Wedged
<1>8. CASE step'[w] = "stored" /\ Doc(w)' = Doc(w)
  BY <1>3, <1>7, <1>8 DEF InHand, Out
<1>9. CASE copies'[s][d] > 0
  BY <1>3, <1>9
<1> QED
  BY <1>2, <1>7, <1>8, <1>9, StoredStays

(* Overlapping tasks and redeliveries alone never leave an artifact that     *)
(* nobody announces, for any number of documents, tasks and copies.          *)
THEOREM WedgesNeedFaults == Spec => []WedgeNeedsFault
<1>1. Init => WedgeNeedsFault
  BY DEF Init, WedgeNeedsFault, Wedged
<1> QED
  BY <1>1, StepWedges, Invariance, PTL DEF Spec
=============================================================================
