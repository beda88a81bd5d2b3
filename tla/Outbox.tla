------------------------------- MODULE Outbox -------------------------------
(***************************************************************************)
(* internal/platform/outbox and the publishing half of platform/nats: the  *)
(* ops.outbox table, the relays that drain it and the JetStream stream     *)
(* they publish to.  A relay holds one database transaction from the claim *)
(* of a batch to the commit that marks it published; the row locks of that *)
(* transaction are the set claimed[r].                                     *)
(***************************************************************************)
EXTENDS Naturals, FiniteSets

CONSTANTS
  Relays,         \* the relay goroutines (ingest and catalog run one each)
  Events,         \* envelope ids, numbered in created_at order
  Transactions,   \* the business transactions that append to ops.outbox
  Emits,          \* Emits[t]: the events transaction t appends
  Batch,          \* rows a relay claims at once (DefaultBatch)
  MaxRollbacks,   \* bound: claims lost to crashes, shutdowns, failed commits
  MaxExpiries     \* bound: times one id may fall out of the dedup window

ASSUME OutboxAssumption ==
  /\ Events \subseteq Nat
  /\ Emits \in [Transactions -> SUBSET Events]
  /\ \A e \in Events : \E t \in Transactions : e \in Emits[t]
  /\ \A t, u \in Transactions : t # u => Emits[t] \cap Emits[u] = {}
  /\ Batch \in Nat \ {0}
  /\ MaxRollbacks \in Nat
  /\ MaxExpiries \in Nat

VARIABLES
  committed,      \* transactions whose business rows are in the database
  rows,           \* rows[e]: none | pending (published_at null) | published
  claimed,        \* claimed[r]: rows locked by r's open transaction
  todo,           \* todo[r]: claimed rows r has not yet tried to publish
  sent,           \* sent[r]: publishedIDs, what the broker acknowledged to r
  copies,         \* copies[e]: messages with this id the stream stored
  window,         \* ids the stream's duplicate window still remembers
  expiries,       \* expiries[e]: times e has left the window
  rollbacks       \* claims lost so far

dbVars     == <<committed, rows>>
relayVars  == <<claimed, todo, sent>>
streamVars == <<copies, window, expiries>>
vars       == <<dbVars, relayVars, streamVars, rollbacks>>

TypeOK ==
  /\ committed \subseteq Transactions
  /\ rows \in [Events -> {"none", "pending", "published"}]
  /\ claimed \in [Relays -> SUBSET Events]
  /\ todo \in [Relays -> SUBSET Events]
  /\ sent \in [Relays -> SUBSET Events]
  /\ copies \in [Events -> Nat]
  /\ window \subseteq Events
  /\ expiries \in [Events -> 0..MaxExpiries]
  /\ rollbacks \in 0..MaxRollbacks

Init ==
  /\ committed = {}
  /\ rows = [e \in Events |-> "none"]
  /\ claimed = [r \in Relays |-> {}]
  /\ todo = [r \in Relays |-> {}]
  /\ sent = [r \in Relays |-> {}]
  /\ copies = [e \in Events |-> 0]
  /\ window = {}
  /\ expiries = [e \in Events |-> 0]
  /\ rollbacks = 0

-----------------------------------------------------------------------------
(* A business transaction (ingest Register, catalog Commit) writes its own  *)
(* rows and appends its events with Append(tx), all or nothing.             *)
CommitNoOutbox(t) ==      \* mutant: the events are appended after the commit,
  /\ t \notin committed   \* and the process may die in between
  /\ committed' = committed \cup {t}
  /\ \E E \in {{}, Emits[t]} :
        rows' = [e \in Events |-> IF e \in E THEN "pending" ELSE rows[e]]
  /\ UNCHANGED <<relayVars, streamVars, rollbacks>>

CommitReplaces(t) ==      \* mutant: the append overwrites the table
  /\ t \notin committed
  /\ committed' = committed \cup {t}
  /\ rows' = [e \in Emits[t] |-> "pending"]
  /\ UNCHANGED <<relayVars, streamVars, rollbacks>>

Commit(t) ==
  /\ t \notin committed
  /\ committed' = committed \cup {t}
  /\ rows' = [e \in Events |-> IF e \in Emits[t] THEN "pending" ELSE rows[e]]
  /\ UNCHANGED <<relayVars, streamVars, rollbacks>>

(* claimSQL: the oldest unpublished rows that no other relay has locked.    *)
Oldest(S, k) == {e \in S : Cardinality({f \in S : f < e}) < k}

Claimable == {e \in Events : /\ rows[e] = "pending"
                             /\ \A r \in Relays : e \notin claimed[r]}

Claim(r) ==
  /\ claimed[r] = {}
  /\ Claimable # {}
  /\ claimed' = [claimed EXCEPT ![r] = Oldest(Claimable, Batch)]
  /\ todo' = [todo EXCEPT ![r] = Oldest(Claimable, Batch)]
  /\ UNCHANGED <<dbVars, sent, streamVars, rollbacks>>

(* PublishWithHeaders sets Nats-Msg-Id to the envelope id: a message whose  *)
(* id is still in the duplicate window is acknowledged and not stored.      *)
StoreBlind(e) ==          \* mutant: no Nats-Msg-Id header
  /\ copies' = [copies EXCEPT ![e] = @ + 1]
  /\ window' = window \cup {e}
  /\ UNCHANGED expiries

Store(e) ==
  /\ copies' = [copies EXCEPT ![e] = IF e \in window THEN @ ELSE @ + 1]
  /\ window' = window \cup {e}
  /\ UNCHANGED expiries

Attempt(r, e) ==          \* the loop over claimed rows, in created_at order
  /\ e \in todo[r]
  /\ \A f \in todo[r] : e <= f
  /\ todo' = [todo EXCEPT ![r] = @ \ {e}]
  /\ UNCHANGED <<dbVars, claimed, rollbacks>>

PublishAcked(r, e) ==
  /\ Attempt(r, e)
  /\ Store(e)
  /\ sent' = [sent EXCEPT ![r] = @ \cup {e}]

PublishAckLost(r, e) ==   \* stored, but the relay sees a timeout: continue
  /\ Attempt(r, e)
  /\ Store(e)
  /\ UNCHANGED sent

PublishFailed(r, e) ==    \* broker unreachable: continue with the next row
  /\ Attempt(r, e)
  /\ UNCHANGED <<sent, streamVars>>

Publish(r, e) == PublishAcked(r, e) \/ PublishAckLost(r, e) \/ PublishFailed(r, e)

(* markPublishedSQL over publishedIDs, then tx.Commit: the locks go too.    *)
Release(r) ==
  /\ claimed' = [claimed EXCEPT ![r] = {}]
  /\ todo' = [todo EXCEPT ![r] = {}]
  /\ sent' = [sent EXCEPT ![r] = {}]

MarkClaimed(r) ==         \* mutant: marks every claimed row, sent or not
  /\ claimed[r] # {} /\ todo[r] = {}
  /\ rows' = [e \in Events |-> IF e \in claimed[r] THEN "published" ELSE rows[e]]
  /\ Release(r)
  /\ UNCHANGED <<committed, streamVars, rollbacks>>

MarkNothing(r) ==         \* mutant: the update of published_at is forgotten
  /\ claimed[r] # {} /\ todo[r] = {}
  /\ Release(r)
  /\ UNCHANGED <<dbVars, streamVars, rollbacks>>

MarkPublished(r) ==
  /\ claimed[r] # {} /\ todo[r] = {}
  /\ rows' = [e \in Events |-> IF e \in sent[r] THEN "published" ELSE rows[e]]
  /\ Release(r)
  /\ UNCHANGED <<committed, streamVars, rollbacks>>

(* The deferred tx.Rollback, or the server's when the relay is gone: the    *)
(* locks are released, nothing is marked, what was published stays.         *)
Rollback(r) ==
  /\ claimed[r] # {}
  /\ rollbacks < MaxRollbacks
  /\ rollbacks' = rollbacks + 1
  /\ Release(r)
  /\ UNCHANGED <<dbVars, streamVars>>

Expire(e) ==              \* JetStream forgets an id after the window
  /\ e \in window
  /\ expiries[e] < MaxExpiries
  /\ window' = window \ {e}
  /\ expiries' = [expiries EXCEPT ![e] = @ + 1]
  /\ UNCHANGED <<dbVars, relayVars, copies, rollbacks>>

Next ==
  \/ \E t \in Transactions : Commit(t)
  \/ \E r \in Relays : Claim(r) \/ MarkPublished(r) \/ Rollback(r)
  \/ \E r \in Relays, e \in Events : Publish(r, e)
  \/ \E e \in Events : Expire(e)

(* Relay.Run drains on every tick, so a relay that can take a step takes    *)
(* it; a broker that is tried again and again answers at last.              *)
Fairness ==
  /\ \A r \in Relays : WF_vars(Claim(r)) /\ WF_vars(MarkPublished(r))
  /\ \A r \in Relays, e \in Events :
        WF_vars(Publish(r, e)) /\ SF_vars(PublishAcked(r, e))

Spec == Init /\ [][Next]_vars /\ Fairness

-----------------------------------------------------------------------------
(* A row is marked published only when the stream holds its event: the mark *)
(* comes from what the broker acknowledged to the relay that claimed it.    *)
MarkedIsStored == \A e \in Events : rows[e] = "published" => copies[e] > 0

(* Retries, two relays and rollbacks never store an event twice by          *)
(* themselves: every extra copy was paid for by the id leaving the window.  *)
OneCopyPerWindow == \A e \in Events : copies[e] <= 1 + expiries[e]

(* Every row a transaction appended is marked at last, so no relay          *)
(* publishes it for ever.                                                   *)
BacklogDrains == \A e \in Events : rows[e] = "pending" ~> rows[e] = "published"

(* The outbox, its relays and the stream keep the promise of EventLog: only *)
(* events of committed transactions are stored, and every one of them is.   *)
Stored == {e \in Events : copies[e] > 0}
Log == INSTANCE EventLog WITH log <- Stored
ImplementsEventLog == Log!Spec
=============================================================================
