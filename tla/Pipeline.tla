------------------------------ MODULE Pipeline ------------------------------
(***************************************************************************)
(* The ingestion pipeline around one stream: a document is registered with *)
(* its event (see Outbox), services/parse turns registered into parsed or  *)
(* parse-failed, services/extract turns parsed into extracted, and the     *)
(* catalog indexes the document or marks it failed.                        *)
(*                                                                         *)
(* The two Python services have the same skeleton: tasks that fetch one    *)
(* message at a time, an artifact in the object store that doubles as the  *)
(* "already done" marker, then the event for the next stage.  They do not  *)
(* use an outbox: artifact and event are two steps.                        *)
(***************************************************************************)
EXTENDS JetStream, FiniteSets

CONSTANTS
  Docs,
  ParseTasks,     \* asyncio tasks of services/parse
  ExtractTasks,   \* asyncio tasks of services/extract
  MaxDeliver,
  MaxEvents,      \* bound: copies of one event the model tells apart
  MaxRestarts,    \* bound: restarts of the Python services
  MaxFaults       \* bound: errors, failed publications, lost answers

ASSUME PipelineAssumption ==
  /\ ParseTasks \cap ExtractTasks = {}
  /\ MaxDeliver \in Nat \ {0}
  /\ MaxEvents \in Nat \ {0}
  /\ MaxRestarts \in Nat
  /\ MaxFaults \in Nat

Tasks    == ParseTasks \cup ExtractTasks
Subjects == {"registered", "parsed", "parse-failed", "extracted"}
Messages == [subject : Subjects, doc : Docs, copy : 1..MaxEvents]
NoMessage == [subject |-> "none"]

Steps == {"idle",         \* fetching
          "received",     \* before the artifact check
          "working",      \* artifact absent: downloading, parsing, extracting
          "stored",       \* artifact written, event not yet published
          "failing",      \* parse only: parse-failed not yet published
          "ack", "term", "nak",   \* the answer handle is about to give
          "dead"}         \* an exception left handle: the task is gone

VARIABLES
  status,         \* status[d]: core.documents.status, "none" before the row
  artifacts,      \* <<subject, d>>: docir.json / bundle.json is in the store
  copies,         \* copies[s][d]: events of subject s for d in the stream
  durable,        \* durable[m]: the record of m in its one durable consumer
  step, on, nth,  \* per task: where handle is, its message, its delivery no.
  dlq,            \* messages in kmap.dlq.*
  restarts, faults

tasks  == <<step, on, nth>>
store  == <<status, artifacts>>
stream == <<copies, durable>>
bounds == <<restarts, faults>>
vars   == <<store, stream, tasks, dlq, bounds>>

In(w)  == IF w \in ParseTasks THEN "registered" ELSE "parsed"
Out(w) == IF w \in ParseTasks THEN "parsed" ELSE "extracted"
Doc(w) == on[w].doc

TypeOK ==
  /\ status \in [Docs -> {"none", "registered", "indexed", "failed"}]
  /\ artifacts \subseteq {"parsed", "extracted"} \X Docs
  /\ copies \in [Subjects -> [Docs -> 0..MaxEvents]]
  /\ durable \in [Messages -> Deliveries(MaxDeliver)]
  /\ step \in [Tasks -> Steps]
  /\ on \in [Tasks -> Messages \cup {NoMessage}]
  /\ nth \in [Tasks -> 0..MaxDeliver]
  /\ dlq \subseteq Messages
  /\ restarts \in 0..MaxRestarts
  /\ faults \in 0..MaxFaults

Init ==
  /\ status = [d \in Docs |-> "none"]
  /\ artifacts = {}
  /\ copies = [s \in Subjects |-> [d \in Docs |-> 0]]
  /\ durable = [m \in Messages |-> Fresh]
  /\ step = [w \in Tasks |-> "idle"]
  /\ on = [w \in Tasks |-> NoMessage]
  /\ nth = [w \in Tasks |-> 0]
  /\ dlq = {}
  /\ restarts = 0
  /\ faults = 0

-----------------------------------------------------------------------------
InStream(m) == m.copy <= copies[m.subject][m.doc]

(* js.publish: one more copy of the event, up to those the model counts.    *)
Append(s, d) ==
  copies' = [copies EXCEPT ![s][d] = IF @ < MaxEvents THEN @ + 1 ELSE @]

Fault == faults < MaxFaults /\ faults' = faults + 1

Goto(w, s) == step' = [step EXCEPT ![w] = s] /\ UNCHANGED <<on, nth>>

(* Register commits the row and its event in one transaction; the relay     *)
(* publishes it, and more than once only after a lost answer.               *)
Register(d) ==
  /\ status[d] = "none"
  /\ status' = [status EXCEPT ![d] = "registered"]
  /\ UNCHANGED <<artifacts, stream, tasks, dlq, bounds>>

Relay(d) ==
  /\ status[d] # "none"
  /\ \/ copies["registered"][d] = 0 /\ UNCHANGED faults
     \/ copies["registered"][d] \in 1..(MaxEvents - 1) /\ Fault
  /\ Append("registered", d)
  /\ UNCHANGED <<store, durable, tasks, dlq, restarts>>

-----------------------------------------------------------------------------
(* psub.fetch(1) of an idle task.                                           *)
Fetch(w, m) ==
  /\ step[w] = "idle"
  /\ m.subject = In(w) /\ InStream(m)
  /\ durable[m].state = "ready"
  /\ durable' = [durable EXCEPT ![m] = Delivered(@)]
  /\ step' = [step EXCEPT ![w] = "received"]
  /\ on' = [on EXCEPT ![w] = m]
  /\ nth' = [nth EXCEPT ![w] = durable[m].n + 1]
  /\ UNCHANGED <<store, copies, dlq, bounds>>

(* _object_exists: the artifact of an earlier run means there is nothing to *)
(* do, and the message is acknowledged.                                     *)
CheckOrError(w) ==        \* mutant: an error of stat_object counts as "exists"
  /\ step[w] = "received"
  /\ \/ Goto(w, "ack")
     \/ <<Out(w), Doc(w)>> \notin artifacts /\ Goto(w, "working")
  /\ UNCHANGED <<store, stream, dlq, bounds>>

CheckArtifact(w) ==
  /\ step[w] = "received"
  /\ Goto(w, IF <<Out(w), Doc(w)>> \in artifacts THEN "ack" ELSE "working")
  /\ UNCHANGED <<store, stream, dlq, bounds>>

(* put_object of docir.json or bundle.json.                                 *)
AnnounceFirst(w) ==       \* mutant: the event goes out before the artifact
  /\ step[w] = "working"
  /\ Append(Out(w), Doc(w))
  /\ Goto(w, "stored")
  /\ UNCHANGED <<store, durable, dlq, bounds>>

StoreSilently(w) ==       \* mutant: the task that rewrites the artifact acks
  /\ step[w] = "working"
  /\ artifacts' = artifacts \cup {<<Out(w), Doc(w)>>}
  /\ Goto(w, IF \E v \in Tasks \ {w} : on[v] = on[w] THEN "ack" ELSE "stored")
  /\ UNCHANGED <<status, stream, dlq, bounds>>

StoreArtifact(w) ==
  /\ step[w] = "working"
  /\ artifacts' = artifacts \cup {<<Out(w), Doc(w)>>}
  /\ Goto(w, "stored")
  /\ UNCHANGED <<status, stream, dlq, bounds>>

(* Blob missing, too large, too many pages, or anything the parser raises.  *)
Reject(w) ==
  /\ w \in ParseTasks
  /\ step[w] = "working"
  /\ Goto(w, "failing")
  /\ UNCHANGED <<store, stream, dlq, bounds>>

(* Any other exception before the artifact is written, or in the ack or     *)
(* term at the end.                                                         *)
WorkFails(w) ==
  /\ step[w] \in {"received", "working", "ack", "term"}
  /\ Fault
  /\ Goto(w, "nak")
  /\ UNCHANGED <<store, stream, dlq, restarts>>

Event(w) == IF step[w] = "failing" THEN "parse-failed" ELSE Out(w)

Announce(w) ==
  /\ step[w] \in {"stored", "failing"}
  /\ Append(Event(w), Doc(w))
  /\ Goto(w, IF step[w] = "failing" THEN "term" ELSE "ack")
  /\ UNCHANGED <<store, durable, dlq, bounds>>

(* js.publish raises: the broker did not store the event, or it did and the *)
(* answer was lost.  The exception leads to the nak like any other.         *)
AnnounceFails(w) ==
  /\ step[w] \in {"stored", "failing"}
  /\ Fault
  /\ Append(Event(w), Doc(w)) \/ UNCHANGED copies
  /\ Goto(w, "nak")
  /\ UNCHANGED <<store, durable, dlq, restarts>>

(* The answer; extract turns the last nak into a dead letter and a term.    *)
Finish(w) ==
  /\ step' = [step EXCEPT ![w] = "idle"]
  /\ on' = [on EXCEPT ![w] = NoMessage]
  /\ nth' = [nth EXCEPT ![w] = 0]

Settle(w) ==              \* an ack is not confirmed: it may be lost
  /\ step[w] \in {"ack", "term"}
  /\ \/ durable' = [durable EXCEPT ![on[w]] = Settled(@)] /\ UNCHANGED faults
     \/ Fault /\ UNCHANGED durable
  /\ Finish(w)
  /\ UNCHANGED <<store, copies, dlq, restarts>>

Nak(w) ==
  /\ step[w] = "nak"
  /\ w \in ParseTasks \/ nth[w] < MaxDeliver
  /\ durable' = [durable EXCEPT ![on[w]] = Requeued(@, MaxDeliver)]
  /\ Finish(w)
  /\ UNCHANGED <<store, copies, dlq, bounds>>

DeadLetter(w) ==
  /\ step[w] = "nak"
  /\ w \in ExtractTasks /\ nth[w] >= MaxDeliver
  /\ dlq' = dlq \cup {on[w]}
  /\ durable' = [durable EXCEPT ![on[w]] = Settled(@)]
  /\ Finish(w)
  /\ UNCHANGED <<store, copies, bounds>>

(* The nak or the dead letter raises in turn, as it does when the           *)
(* connection is closed: nothing catches that, and the task ends.           *)
Die(w) ==
  /\ step[w] = "nak"
  /\ Fault
  /\ step' = [step EXCEPT ![w] = "dead"]
  /\ on' = [on EXCEPT ![w] = NoMessage]
  /\ nth' = [nth EXCEPT ![w] = 0]
  /\ UNCHANGED <<store, stream, dlq, restarts>>

(* ack_wait runs out while a task still works on the message, or after the  *)
(* process died with it.  Neither service reports progress to the broker.   *)
AckWaitForever(m) ==      \* mutant: a delivery past the last one
  /\ durable[m].state = "out"
  /\ durable' = [durable EXCEPT ![m].state = "ready"]
  /\ UNCHANGED <<store, copies, tasks, dlq, bounds>>

AckWait(m) ==
  /\ durable[m].state = "out"
  /\ durable' = [durable EXCEPT ![m] = Requeued(@, MaxDeliver)]
  /\ UNCHANGED <<store, copies, tasks, dlq, bounds>>

(* The process dies and starts again: it deletes its durable and creates it *)
(* with DeliverPolicy.ALL, so the broker sends every message again; if the  *)
(* deletion fails (except: pass) the old durable goes on.                   *)
Restart(W) ==
  /\ restarts < MaxRestarts
  /\ restarts' = restarts + 1
  /\ step' = [w \in Tasks |-> IF w \in W THEN "idle" ELSE step[w]]
  /\ on' = [w \in Tasks |-> IF w \in W THEN NoMessage ELSE on[w]]
  /\ nth' = [w \in Tasks |-> IF w \in W THEN 0 ELSE nth[w]]
  /\ \/ durable' = [m \in Messages |->
                      IF \E w \in W : m.subject = In(w) THEN Fresh ELSE durable[m]]
     \/ UNCHANGED durable
  /\ UNCHANGED <<store, copies, dlq, faults>>

-----------------------------------------------------------------------------
(* The catalog's two durables; Delivery models bus.handle in full, here the *)
(* broker's push, the handler and its answer are told apart only as far as  *)
(* the document can see them.                                               *)
Push(m) ==
  /\ m.subject \in {"extracted", "parse-failed"} /\ InStream(m)
  /\ durable[m].state = "ready"
  /\ durable' = [durable EXCEPT ![m] = Delivered(@)]
  /\ UNCHANGED <<store, copies, tasks, dlq, bounds>>

Answered(m) ==            \* the Ack arrives, or it is lost
  \/ durable' = [durable EXCEPT ![m] = Settled(@)] /\ UNCHANGED faults
  \/ Fault /\ UNCHANGED durable

CommitExtraction(m) ==    \* updateDocStatusSQL: whatever the status was
  /\ m.subject = "extracted" /\ durable[m].state = "out"
  /\ status' = [status EXCEPT ![m.doc] = "indexed"]
  /\ Answered(m)
  /\ UNCHANGED <<artifacts, copies, tasks, dlq, restarts>>

MarkFailedAlways(m) ==    \* mutant: without AND status NOT IN ('indexed', ...)
  /\ m.subject = "parse-failed" /\ durable[m].state = "out"
  /\ status' = [status EXCEPT ![m.doc] = "failed"]
  /\ Answered(m)
  /\ UNCHANGED <<artifacts, copies, tasks, dlq, restarts>>

MarkDocumentFailed(m) ==
  /\ m.subject = "parse-failed" /\ durable[m].state = "out"
  /\ status' = [status EXCEPT ![m.doc] = IF @ = "indexed" THEN @ ELSE "failed"]
  /\ Answered(m)
  /\ UNCHANGED <<artifacts, copies, tasks, dlq, restarts>>

CatalogFails(m) ==        \* the handler's Nack; on the last delivery the DLQ
  /\ m.subject \in {"extracted", "parse-failed"} /\ durable[m].state = "out"
  /\ Fault
  /\ IF durable[m].n < MaxDeliver
     THEN durable' = [durable EXCEPT ![m] = Requeued(@, MaxDeliver)] /\ UNCHANGED dlq
     ELSE durable' = [durable EXCEPT ![m] = Settled(@)] /\ dlq' = dlq \cup {m}
  /\ UNCHANGED <<store, copies, tasks, restarts>>

-----------------------------------------------------------------------------
Handle(w) ==
  \/ CheckArtifact(w) \/ StoreArtifact(w) \/ Reject(w) \/ WorkFails(w)
  \/ Announce(w) \/ AnnounceFails(w)
  \/ Settle(w) \/ Nak(w) \/ DeadLetter(w) \/ Die(w)

Catalog(m) ==
  Push(m) \/ CommitExtraction(m) \/ MarkDocumentFailed(m) \/ CatalogFails(m)

Next ==
  \/ \E d \in Docs : Register(d) \/ Relay(d)
  \/ \E w \in Tasks : Handle(w) \/ \E m \in Messages : Fetch(w, m)
  \/ \E m \in Messages : AckWait(m) \/ Catalog(m)
  \/ Restart(ParseTasks) \/ Restart(ExtractTasks)

(* The relay ticks, idle tasks fetch in a loop, handle runs to its end, the *)
(* catalog's subscription runs, and ack_wait is a timer.                    *)
Fairness ==
  /\ \A d \in Docs : WF_vars(Relay(d))
  /\ \A w \in Tasks : WF_vars(Handle(w)) /\ WF_vars(\E m \in Messages : Fetch(w, m))
  /\ \A m \in Messages : WF_vars(AckWait(m)) /\ WF_vars(Catalog(m))

Spec == Init /\ [][Next]_vars /\ Fairness

-----------------------------------------------------------------------------
(* An event never names an artifact that is not there, so the next stage    *)
(* can always read its input, and an indexed document has both.             *)
ArtifactChain ==
  \A d \in Docs :
    /\ \A s \in {"parsed", "extracted"} : copies[s][d] > 0 => <<s, d>> \in artifacts
    /\ <<"extracted", d>> \in artifacts => <<"parsed", d>> \in artifacts
    /\ status[d] = "indexed" => <<"extracted", d>> \in artifacts

(* Once indexed a document stays indexed: a late or repeated parse-failed   *)
(* of an earlier attempt cannot take it back.                               *)
IndexedIsFinal ==
  [][\A d \in Docs : status[d] = "indexed" => status'[d] = "indexed"]_vars

(* An artifact stage s left behind without its event: no task is about to   *)
(* publish it, and any later delivery of the input will be acknowledged     *)
(* without work.                                                            *)
Wedged(s, d) ==
  /\ <<s, d>> \in artifacts
  /\ copies[s][d] = 0
  /\ \A w \in Tasks : ~(step[w] = "stored" /\ Out(w) = s /\ Doc(w) = d)

(* Redeliveries and overlapping tasks alone never wedge a document: it      *)
(* takes a failed publication or a restart between the two steps.           *)
WedgeNeedsFault ==
  \A d \in Docs, s \in {"parsed", "extracted"} :
    Wedged(s, d) => faults + restarts > 0

(* Every registered document comes to rest: indexed or failed, or one of    *)
(* its messages is out of deliveries or dead-lettered, or it is wedged, or  *)
(* all tasks of a stage are gone though their process runs.                 *)
AtRest(d) ==
  \/ \E W \in {ParseTasks, ExtractTasks} : \A w \in W : step[w] = "dead"
  \/ status[d] \in {"indexed", "failed"}
  \/ \E m \in Messages :
        m.doc = d /\ (durable[m].state = "exhausted" \/ m \in dlq)
  \/ \E s \in {"parsed", "extracted"} : Wedged(s, d)

DocumentsComeToRest == \A d \in Docs : status[d] = "registered" ~> AtRest(d)

(* .agents/05-ingestion.md: because a stage that finds its artifact         *)
(* acknowledges without work, a replay is cheap and processes exactly the   *)
(* documents that are not finished.  A wedged document is not finished, and *)
(* no replay processes it.                                                  *)
ReplayReachesUnfinished ==
  \A d \in Docs, s \in {"parsed", "extracted"} : ~Wedged(s, d)
=============================================================================
