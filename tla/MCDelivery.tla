----------------------------- MODULE MCDelivery -----------------------------
(* One message that decodes, one that does not; a last delivery that is a   *)
(* redelivery; stops, timeouts and lost answers in every position.          *)
EXTENDS Delivery

CONSTANTS good, bad

MCMessages == {good, bad}
MCMalformed == {bad}
=============================================================================
