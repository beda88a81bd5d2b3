------------------------------ MODULE Gateway -------------------------------
(***************************************************************************)
(* internal/gateway/ports/http: what happens to a request around its       *)
(* handler.  authorize verifies the token and the role, runs the handler   *)
(* with the request's context, and audits what was answered with success.  *)
(* A client that hangs up cancels that context: the calls that the handler *)
(* and the audit still make with it fail.  Around it all, the process and  *)
(* its shutdown (internal/platform/runtime).                               *)
(***************************************************************************)
EXTENDS Access, Sequences, Functions, TLC

CONSTANTS
  Scenes          \* bound: records [request, faults, hangsUp, stops, ...] of what is played;
                  \* request[c] is the one request of the client c

VARIABLES
  scene,          \* the scene that is played
  pc,             \* pc[c]: where authorize is in the request of c
  caller,         \* caller[c]: the principal of its context, None before
  reply,          \* reply[c]: [code, body], what c was answered; Unanswered if nothing reached it
  left,           \* clients that hung up
  announced,      \* events in the stream KMAP_AUDIT
  trail,          \* rows of ops.audit_log
  process         \* the gateway's: [state, late]

gateway == <<pc, caller, reply, left, announced, trail, process>>

Players == DOMAIN scene.request
Request(c) == scene.request[c]

Unanswered == [code |-> 0, body |-> None]
Answered(c) == reply[c].code # 0

GatewayTypeOK ==
  /\ pc \in [Players -> {"new", "handle", "announce", "record", "done"}]
  /\ \A c \in Players : caller[c] = None \/ Definition[Request(c).token].user = caller[c].user
  /\ left \subseteq Players
  /\ \A e \in announced \cup trail : e.client \in Players
  /\ process \in [state : {"serving", "draining", "closing", "stopped"}, late : BOOLEAN]

GatewayInit ==
  /\ scene \in Scenes
  /\ pc = [c \in Players |-> "new"]
  /\ caller = [c \in Players |-> None]
  /\ reply = [c \in Players |-> Unanswered]
  /\ left = {}
  /\ announced = {}
  /\ trail = {}
  /\ process = [state |-> "serving", late |-> FALSE]

-----------------------------------------------------------------------------
(* The routes of RegisterHTTP that the project models.                      *)
operationOf ==
  [upload |-> "upload", status |-> "browse", documents |-> "browse", file |-> "browse",
   queue |-> "browse", entities |-> "browse", entity |-> "browse", entityFacts |-> "browse",
   graph |-> "browse", experts |-> "browse", experiments |-> "browse", coverage |-> "browse",
   contradictions |-> "browse", units |-> "browse", synonyms |-> "browse", search |-> "search",
   fact |-> "fact", parse |-> "ask", merge |-> "merge", review |-> "merge",
   contradiction |-> "contradiction", ask |-> "ask"]

auditActions ==
  [ask |-> [action |-> "search.ask", persist |-> FALSE],
   search |-> [action |-> "search.query", persist |-> FALSE],
   upload |-> [action |-> "document.upload", persist |-> TRUE],
   fact |-> [action |-> "fact.decision", persist |-> TRUE],
   merge |-> [action |-> "entity.merge", persist |-> TRUE],
   contradiction |-> [action |-> "contradiction.decision", persist |-> TRUE]]

Operation(c) == operationOf[Request(c).route]
AuditedIfAsked(c) == Operation(c) \in {"ask", "search"}     \* mutant: queries only

Audited(c) == Operation(c) \in DOMAIN auditActions
Meta(c) == auditActions[Operation(c)]

StatusWithoutNotFound(code) ==       \* mutant: a missing row is a failure
  CASE code = "InvalidArgument" -> 400
    [] code = "Unavailable" -> 502
    [] OTHER -> 500

grpcHTTPStatus(code) ==
  CASE code = "InvalidArgument" -> 400
    [] code = "NotFound" -> 404
    [] code = "Unauthenticated" -> 401
    [] code = "PermissionDenied" -> 403
    [] code = "Unimplemented" -> 501
    [] code = "Unavailable" -> 502
    [] OTHER -> 500

(* A call with the request's context may fail.                              *)
Fails(c) == c \in left \/ scene.faults \/ process.state = "closing"

(* The handler returns after writing this answer; authorize goes on.        *)
Respond(c, code, body) ==
  /\ pc' = [pc EXCEPT ![c] = IF Audited(c) /\ caller[c] # None /\ code \in 200..299
                             THEN "announce" ELSE "done"]
  /\ reply' = [reply EXCEPT ![c] = IF c \in left THEN Unanswered ELSE [code |-> code, body |-> body]]
  /\ UNCHANGED <<scene, caller, left, announced, process>>

(* A row that a handler or recordAudit writes with the request's context.   *)
Write(c, action) ==
  \/ c \notin left /\ trail' = trail \cup {[client |-> c, user |-> caller[c].user, action |-> action]}
  \/ Fails(c) /\ UNCHANGED trail

Problem(c, code) == Respond(c, code, None) /\ UNCHANGED trail

authorize(c) ==
  /\ pc[c] = "new" /\ process.state = "serving"
  /\ \E issuerUp \in BOOLEAN :
       LET principal == Verify(Request(c).token, issuerUp) IN
       \/ principal = None /\ Problem(c, 401)
       \/ principal # None /\ ~Allowed(Operation(c), principal) /\ Problem(c, 403)
       \/ /\ principal # None /\ Allowed(Operation(c), principal)
          /\ caller' = [caller EXCEPT ![c] = principal]
          /\ pc' = [pc EXCEPT ![c] = "handle"]
          /\ UNCHANGED <<scene, reply, left, announced, trail, process>>

(* A publication that fails is logged; it may have reached the stream.      *)
emitAuditEvent(c) ==
  /\ pc[c] = "announce"
  /\ \/ announced' = announced \cup {[client |-> c, user |-> caller[c].user, action |-> Meta(c).action]}
     \/ Fails(c) /\ UNCHANGED announced
  /\ pc' = [pc EXCEPT ![c] = IF Meta(c).persist THEN "record" ELSE "done"]
  /\ UNCHANGED <<scene, caller, reply, left, trail, process>>

recordAudit(c) ==
  /\ pc[c] = "record"
  /\ Write(c, Meta(c).action)
  /\ pc' = [pc EXCEPT ![c] = "done"]
  /\ UNCHANGED <<scene, caller, reply, left, announced, process>>

HangUp(c) ==
  /\ scene.hangsUp /\ pc[c] \notin {"new", "done"} /\ c \notin left
  /\ left' = left \cup {c}
  /\ UNCHANGED <<scene, pc, caller, reply, announced, trail, process>>

(* In a handler, before its last call.                                      *)
Handling(c, route) == pc[c] = "handle" /\ Request(c).route = route

(* The access of the sessions that serve the request in the services.       *)
Level(c) == normalizeRLS(Carried(caller[c]))

-----------------------------------------------------------------------------
(* serve and shutdown, of a gateway: a signal closes the listener, and the   *)
(* process waits for its handlers for thirty seconds.  Then it closes its    *)
(* connections and exits.  A listener that fails ends it at once.            *)
Handlers == {c \in Players : pc[c] \notin {"new", "done"}}

signal ==
  /\ scene.stops /\ process.state = "serving"
  /\ process' = [process EXCEPT !.state = "draining"]

listenerFails ==
  /\ scene.stops /\ scene.faults /\ process.state = "serving"
  /\ process' = [state |-> "stopped", late |-> TRUE]

ShutdownAtOnce ==        \* mutant: handlers are not waited for
  /\ process.state = "draining"
  /\ process' = [process EXCEPT !.state = "closing"]

shutdown ==
  /\ process.state = "draining"
  /\ \/ Handlers = {} /\ process' = [process EXCEPT !.state = "closing"]
     \/ Handlers # {} /\ process' = [state |-> "closing", late |-> TRUE]

closeResources ==
  /\ process.state = "closing"
  /\ process' = [process EXCEPT !.state = "stopped"]

RuntimeStep ==
  /\ signal \/ listenerFails \/ shutdown \/ closeResources
  /\ UNCHANGED <<scene, pc, caller, reply, left, announced, trail>>

GatewayNext == (\E c \in Players : authorize(c) \/ emitAuditEvent(c) \/ recordAudit(c) \/ HangUp(c)) \/ RuntimeStep
=============================================================================
