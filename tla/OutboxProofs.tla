---------------------------- MODULE OutboxProofs ----------------------------
(***************************************************************************)
(* The outbox's invariants for any number of relays, events, transactions, *)
(* any batch, and any number of rollbacks and window expiries.             *)
(***************************************************************************)
EXTENDS Outbox, TLAPS

(* What a relay holds in memory agrees with the table and the stream: it    *)
(* only holds rows that exist, it tries and marks only what it claimed, and *)
(* what it will mark the stream has.                                        *)
RelayInv ==
  \A r \in Relays :
    /\ todo[r] \subseteq claimed[r]
    /\ \A e \in claimed[r] : rows[e] # "none"
    /\ \A e \in sent[r] : e \in claimed[r] /\ copies[e] > 0

(* A row exists exactly for the events of committed transactions.           *)
RowInv ==
  \A e \in Events : rows[e] # "none" <=> \E t \in committed : e \in Emits[t]

(* An id the window remembers was stored; one it has forgotten used up an   *)
(* expiry for each copy.  Only existing rows were ever published.           *)
StreamInv ==
  \A e \in Events :
    /\ e \in window => copies[e] > 0 /\ copies[e] <= 1 + expiries[e]
    /\ e \notin window => copies[e] <= expiries[e]
    /\ copies[e] > 0 => rows[e] # "none"

OutboxInv == TypeOK /\ RelayInv /\ RowInv /\ StreamInv /\ MarkedIsStored

-----------------------------------------------------------------------------
(* The claim query returns rows of the set it selects from.                 *)
LEMMA OldestSubset == ASSUME NEW S, NEW k PROVE Oldest(S, k) \subseteq S
  BY DEF Oldest

LEMMA InitInv == Init => OutboxInv
  BY OutboxAssumption DEF Init, OutboxInv, TypeOK, RelayInv, RowInv, StreamInv,
     MarkedIsStored

(* One case per action; the publishing actions share what Attempt does.     *)
LEMMA StepInv == OutboxInv /\ [Next]_vars => OutboxInv'
<1> SUFFICES ASSUME OutboxInv, [Next]_vars PROVE OutboxInv'
  OBVIOUS
<1> USE OutboxAssumption DEF OutboxInv, TypeOK, RelayInv, RowInv, StreamInv,
    MarkedIsStored, vars, dbVars, relayVars, streamVars
<1>1. ASSUME NEW t \in Transactions, Commit(t) PROVE OutboxInv'
  <2>1. TypeOK' /\ StreamInv' /\ MarkedIsStored'
    BY <1>1 DEF Commit
  <2>2. RelayInv' /\ RowInv'
    BY <1>1 DEF Commit
  <2> QED BY <2>1, <2>2
<1>2. ASSUME NEW r \in Relays, Claim(r) PROVE OutboxInv'
  <2> DEFINE B == Oldest(Claimable, Batch)
  <2>1. B \subseteq Claimable
    BY OldestSubset
  <2>2. B \subseteq Events /\ \A e \in B : rows[e] = "pending"
    BY <2>1 DEF Claimable
  <2>3. sent[r] = {}
    BY <1>2 DEF Claim
  <2> HIDE DEF B
  <2>4. /\ claimed' = [claimed EXCEPT ![r] = B]
        /\ todo' = [todo EXCEPT ![r] = B]
        /\ UNCHANGED <<dbVars, sent, streamVars, rollbacks>>
    BY <1>2 DEF Claim, B
  <2>5. RelayInv'
    BY <2>2, <2>3, <2>4
  <2> QED BY <2>2, <2>4, <2>5
<1>3. ASSUME NEW r \in Relays, MarkPublished(r) PROVE OutboxInv'
  BY <1>3 DEF MarkPublished, Release
<1>4. ASSUME NEW r \in Relays, Rollback(r) PROVE OutboxInv'
  BY <1>4 DEF Rollback, Release
<1>5. ASSUME NEW r \in Relays, NEW e \in Events, PublishAcked(r, e)
      PROVE OutboxInv'
  BY <1>5 DEF PublishAcked, Attempt, Store
<1>6. ASSUME NEW r \in Relays, NEW e \in Events, PublishAckLost(r, e)
      PROVE OutboxInv'
  BY <1>6 DEF PublishAckLost, Attempt, Store
<1>7. ASSUME NEW r \in Relays, NEW e \in Events, PublishFailed(r, e)
      PROVE OutboxInv'
  BY <1>7 DEF PublishFailed, Attempt
<1>8. ASSUME NEW e \in Events, Expire(e) PROVE OutboxInv'
  BY <1>8 DEF Expire
<1>9. CASE UNCHANGED vars
  BY <1>9
<1> QED BY <1>1, <1>2, <1>3, <1>4, <1>5, <1>6, <1>7, <1>8, <1>9 DEF Next, Publish

(* The inductive invariant holds in every reachable state.                  *)
THEOREM Invariance == Spec => []OutboxInv
  BY InitInv, StepInv, PTL DEF Spec

THEOREM TypeCorrect == Spec => []TypeOK
  BY Invariance, PTL DEF OutboxInv

(* A row marked published is in the stream, for every schedule of relays,   *)
(* rollbacks and lost acknowledgements.                                     *)
THEOREM MarkedIsStoredAlways == Spec => []MarkedIsStored
  BY Invariance, PTL DEF OutboxInv

(* Every copy beyond the first was preceded by the id leaving the duplicate *)
(* window: the relays never store an event twice by retrying.               *)
THEOREM OneCopyPerWindowAlways == Spec => []OneCopyPerWindow
<1>1. OutboxInv => OneCopyPerWindow
  BY DEF OutboxInv, TypeOK, StreamInv, OneCopyPerWindow
<1> QED BY <1>1, Invariance, PTL

-----------------------------------------------------------------------------
(* The safety part of the refinement: each step of the outbox is a step of  *)
(* the event log or changes nothing the event log can see.                  *)
LEMMA StoreDelivers ==
  ASSUME OutboxInv, NEW e \in Events, rows[e] # "none", Store(e), UNCHANGED committed
  PROVE  Log!Deliver(e) \/ UNCHANGED Log!vars
<1> USE DEF OutboxInv, TypeOK, RowInv, Store
<1>1. CASE copies[e] > 0
  <2>1. Stored' = Stored
    BY <1>1 DEF Stored
  <2> QED BY <2>1 DEF Log!vars
<1>2. CASE ~(copies[e] > 0)
  <2>1. e \notin window
    BY <1>2 DEF StreamInv
  <2>2. Stored' = Stored \cup {e} /\ e \notin Stored
    BY <1>2, <2>1 DEF Stored
  <2>3. e \in Log!Owed
    BY DEF Log!Owed
  <2> QED BY <2>2, <2>3 DEF Log!Deliver
<1> QED BY <1>1, <1>2

LEMMA StepRefines == OutboxInv /\ [Next]_vars => [Log!Next]_(Log!vars)
<1> SUFFICES ASSUME OutboxInv, [Next]_vars PROVE Log!Next \/ UNCHANGED Log!vars
  OBVIOUS
<1> USE DEF dbVars, relayVars, streamVars
<1>1. ASSUME NEW t \in Transactions, Commit(t) PROVE Log!Commit(t)
  BY <1>1 DEF Commit, Log!Commit, Stored
<1>2. ASSUME NEW r \in Relays, NEW e \in Events, Attempt(r, e), Store(e)
      PROVE  Log!Deliver(e) \/ UNCHANGED Log!vars
  <2>1. rows[e] # "none"
    BY <1>2 DEF Attempt, OutboxInv, RelayInv, TypeOK
  <2>2. UNCHANGED committed
    BY <1>2 DEF Attempt
  <2> QED BY <1>2, <2>1, <2>2, StoreDelivers
<1>3. ASSUME UNCHANGED <<committed, copies>> PROVE UNCHANGED Log!vars
  BY <1>3 DEF Log!vars, Stored
<1>4. ASSUME NEW r \in Relays, Claim(r) \/ MarkPublished(r) \/ Rollback(r)
      PROVE  UNCHANGED Log!vars
  BY <1>3, <1>4 DEF Claim, MarkPublished, Rollback
<1>5. ASSUME NEW r \in Relays, NEW e \in Events, PublishFailed(r, e)
      PROVE  UNCHANGED Log!vars
  BY <1>3, <1>5 DEF PublishFailed, Attempt
<1>6. ASSUME NEW e \in Events, Expire(e) PROVE UNCHANGED Log!vars
  BY <1>3, <1>6 DEF Expire
<1>7. CASE UNCHANGED vars
  BY <1>3, <1>7 DEF vars
<1> QED
  BY <1>1, <1>2, <1>4, <1>5, <1>6, <1>7
     DEF Next, Publish, PublishAcked, PublishAckLost, Log!Next

(* Only events of committed transactions ever reach the stream, and a       *)
(* stored event is never withdrawn: the outbox implements the event log     *)
(* (its safety; that every owed event arrives is model-checked).            *)
THEOREM OutboxImplementsEventLog == Spec => Log!Init /\ [][Log!Next]_(Log!vars)
<1>1. Init => Log!Init
  BY DEF Init, Log!Init, Stored
<1> QED BY <1>1, StepRefines, Invariance, PTL DEF Spec
=============================================================================
