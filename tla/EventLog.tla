------------------------------ MODULE EventLog ------------------------------
(***************************************************************************)
(* What the transactional outbox promises to the rest of the system: a     *)
(* transaction that commits owes its events to the stream, an event        *)
(* appears in the stream only when it is owed, and every event owed        *)
(* appears there at last.  How many copies of it there are is not part of  *)
(* the promise (consumers see every event at least once).                  *)
(***************************************************************************)
CONSTANTS
  Events,         \* the envelope ids
  Transactions,   \* the business transactions that append to ops.outbox
  Emits           \* Emits[t]: the events transaction t appends

VARIABLES
  committed,      \* the transactions that have committed
  log             \* the events the stream has stored

vars == <<committed, log>>

Owed == {e \in Events : \E t \in committed : e \in Emits[t]}

Init ==
  /\ committed = {}
  /\ log = {}

Commit(t) ==
  /\ t \notin committed
  /\ committed' = committed \cup {t}
  /\ UNCHANGED log

Deliver(e) ==
  /\ e \in Owed \ log
  /\ log' = log \cup {e}
  /\ UNCHANGED committed

Next ==
  \/ \E t \in Transactions : Commit(t)
  \/ \E e \in Events : Deliver(e)

Spec == Init /\ [][Next]_vars /\ \A e \in Events : WF_vars(Deliver(e))
=============================================================================
