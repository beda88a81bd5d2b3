------------------------------ MODULE MCOutbox ------------------------------
(* Two relays, a register transaction with one event and a catalog commit   *)
(* with two; a batch of two, so that one claim can split a transaction.     *)
EXTENDS Outbox

CONSTANTS register, commit

MCEvents == 1..3
MCTransactions == {register, commit}
MCEmits == [t \in MCTransactions |-> IF t = register THEN {2} ELSE {1, 3}]
=============================================================================
