------------------------------ MODULE LlmChain ------------------------------
(***************************************************************************)
(* internal/llm: one completion walks the chain of models of its task, at  *)
(* most two attempts each; an attempt walks the providers that map the     *)
(* model, under one deadline for all of them.  A provider that hangs takes *)
(* the deadline with it: the attempt ends, the providers behind it are not *)
(* asked.  A caller that is gone ends an attempt but not the walk.  Asking *)
(* a provider once is up to three requests: the client library repeats     *)
(* what failed on the way, and nothing in the code says that it should not. *)
(***************************************************************************)
EXTENDS Naturals, Sequences, FiniteSets, SequencesExt

CONSTANTS
  Llms            \* bound: records [calls, tasks, allowlist, providers, resends], one
                  \* configuration with its calls each: pairs <<caller, task>>; resends
                  \* bounds how often a request is lost on the way in one call

maxAttemptsPerModel == 2
maxRetries == 2   \* of the client library: its default, New sets no other

VARIABLES
  llm,            \* the configuration
  call,           \* call[k]: [step, chain, attempt, next, err] of the completion k
  result,         \* result[k]: what Complete of the gRPC server returned, [code] before
  upstream,       \* upstream[k]: the calls of providers, in order, with their requests
  cancelled       \* calls whose caller is gone: no action of this module adds to it

chains == <<llm, call, result, upstream, cancelled>>

Calls == llm.calls
Task(k) == llm.tasks[k[2]]

(* buildAssembly: the default provider, then the fallbacks, without those    *)
(* that have no key or no address.                                           *)
ProvidersOf(config) == SelectSeq(config.providers, LAMBDA p : p.key)
Providers == ProvidersOf(llm)

(* A configuration names a provider once.                                    *)
ASSUME ProvidersAssumption ==
  \A config \in Llms :
    /\ Len(ProvidersOf(config)) \in Nat
    /\ DOMAIN ProvidersOf(config) = 1..Len(ProvidersOf(config))
    /\ \A i, j \in DOMAIN ProvidersOf(config) :
         ProvidersOf(config)[i].name = ProvidersOf(config)[j].name => i = j

(* resolve: a provider without a table of models takes every name.           *)
Maps(p, model) == p.models = {} \/ model \in p.models

ChainOfAny(task) ==      \* mutant: the allowlist is not looked at
  SelectSeq(<<task.model, task.fallback, task.escalate>>, LAMBDA model : model # "")

(* modelChain: the models of the task that are set and allowed, without      *)
(* repetition.                                                               *)
modelChain(task) ==
  LET Add(model, before) ==
        IF model = "" \/ model \notin llm.allowlist \/ model \in before THEN << >> ELSE <<model>>
  IN Add(task.model, {}) \o Add(task.fallback, {task.model})
       \o Add(task.escalate, {task.model, task.fallback})

LlmTypeOK ==
  /\ \A k \in Calls :
       /\ call[k].step \in {"new", "calling", "done"}
       /\ call[k].attempt \in 1..maxAttemptsPerModel
       /\ call[k].next \in 1..(Len(Providers) + 1)
       /\ Len(call[k].chain) <= 3
  /\ cancelled \subseteq Calls

LlmInit ==
  /\ llm \in Llms
  /\ call = [k \in Calls |-> [step |-> "new", chain |-> << >>, attempt |-> 1, next |-> 1, err |-> "none"]]
  /\ result = [k \in Calls |-> [code |-> "none"]]
  /\ upstream = [k \in Calls |-> << >>]
  /\ cancelled = {}

-----------------------------------------------------------------------------
Model(k) == Head(call[k].chain)

mapError(err) ==
  CASE err = "unknown task" -> "InvalidArgument"
    [] err = "model not allowed" -> "FailedPrecondition"
    [] OTHER -> "Internal"

Fail(k, err) ==
  /\ call' = [call EXCEPT ![k].step = "done", ![k].err = err]
  /\ result' = [result EXCEPT ![k] = [code |-> mapError(err)]]

(* Complete up to its loop.                                                  *)
Complete(k) ==
  /\ call[k].step = "new"
  /\ IF k[2] \notin DOMAIN llm.tasks THEN Fail(k, "unknown task")
     ELSE IF modelChain(Task(k)) = << >> THEN Fail(k, "model not allowed")
     ELSE /\ call' = [call EXCEPT ![k].step = "calling", ![k].chain = modelChain(Task(k))]
          /\ UNCHANGED result
  /\ UNCHANGED <<llm, upstream, cancelled>>

NextModel(k, err) ==
  IF Len(call[k].chain) = 1 THEN Fail(k, err)
  ELSE /\ call' = [call EXCEPT ![k].chain = Tail(@), ![k].attempt = 1, ![k].next = 1, ![k].err = err]
       /\ UNCHANGED result

EndModel(k, err) == NextModel(k, err)        \* mutant: one attempt for a model

(* attempt failed: once more after a pause, unless the caller is gone.       *)
EndAttempt(k, err) ==
  IF k \in cancelled \/ call[k].attempt = maxAttemptsPerModel THEN NextModel(k, err)
  ELSE /\ call' = [call EXCEPT ![k].attempt = @ + 1, ![k].next = 1, ![k].err = err]
       /\ UNCHANGED result

Succeed(k, p) ==
  /\ call' = [call EXCEPT ![k].step = "done", ![k].err = "none"]
  /\ \E valid \in IF Task(k).json THEN BOOLEAN ELSE {TRUE} :
       result' = [result EXCEPT ![k] = [code |-> "OK", model |-> Model(k), provider |-> p.name,
                                        valid |-> valid]]

(* FallbackClient.Complete, one provider: it does not know the model, or it   *)
(* answers, answers with nothing, fails, or the attempt's deadline passes.    *)
SkipProvider(k) ==
  /\ call[k].step = "calling" /\ call[k].next <= Len(Providers)
  /\ ~Maps(Providers[call[k].next], Model(k))
  /\ call' = [call EXCEPT ![k].next = @ + 1]
  /\ UNCHANGED <<llm, result, upstream, cancelled>>

(* Client.Complete: a request that met a connection error, 408, 409, 429 or   *)
(* 5xx is sent again, under the deadline of the attempt.                      *)
Reached(k, outcome) ==
  \E requests \in {n \in 1..(maxRetries + 1) : n <= llm.resends + 1} :
    upstream' = [upstream EXCEPT ![k] = Append(@, [model |-> Model(k), outcome |-> outcome,
                                                   provider |-> Providers[call[k].next].name,
                                                   attempt |-> call[k].attempt,
                                                   requests |-> requests])]

Reachable(k) ==
  /\ call[k].step = "calling" /\ call[k].next <= Len(Providers)
  /\ Maps(Providers[call[k].next], Model(k))

CallProvider(k) ==
  /\ Reachable(k) /\ k \notin cancelled
  /\ \/ Succeed(k, Providers[call[k].next]) /\ Reached(k, "answer")
     \/ NextModel(k, "empty response") /\ Reached(k, "empty")
     \/ /\ call' = [call EXCEPT ![k].next = @ + 1, ![k].err = "upstream"]
        /\ Reached(k, "error")
        /\ UNCHANGED result
     \/ EndAttempt(k, "deadline") /\ Reached(k, "deadline")
  /\ UNCHANGED <<llm, cancelled>>

CallWithoutCaller(k) ==
  /\ Reachable(k) /\ k \in cancelled
  /\ NextModel(k, "cancelled")
  /\ UNCHANGED <<llm, upstream, cancelled>>

NoProviderLeft(k) ==
  /\ call[k].step = "calling" /\ call[k].next > Len(Providers)
  /\ EndAttempt(k, IF \E p \in Range(Providers) : Maps(p, Model(k)) THEN call[k].err
                   ELSE "model not allowed")
  /\ UNCHANGED <<llm, upstream, cancelled>>

LlmStep(k) ==
  \/ Complete(k) \/ SkipProvider(k) \/ CallProvider(k) \/ CallWithoutCaller(k)
  \/ NoProviderLeft(k)

-----------------------------------------------------------------------------
TriedAt(k, model, p, i) ==
  {u \in Range(upstream[k]) : u.model = model /\ u.provider = p.name /\ u.attempt = i}

(* A completion that fails upstream has asked every provider that knows a     *)
(* model of its chain, in both attempts, except behind one that hung, after   *)
(* an empty answer, or once the caller was gone.                              *)
FailureIsExhaustive ==
  \A k \in Calls :
    (result[k].code = "Internal" /\ k \notin cancelled) =>
      \A model \in Range(modelChain(Task(k))), i \in 1..maxAttemptsPerModel :
        \/ \E u \in Range(upstream[k]) : u.model = model /\ u.outcome = "empty" /\ u.attempt <= i
        \/ \E u \in Range(upstream[k]) : u.model = model /\ u.outcome = "deadline" /\ u.attempt = i
        \/ \A p \in Range(Providers) : Maps(p, model) => TriedAt(k, model, p, i) # {}

(* Complete of a provider is called at most twice for one model, once in an   *)
(* attempt, and each call sends at most three requests: six in all.  None is  *)
(* called for a model that is not allowed or that it does not know, and none  *)
(* after the answer.                                                          *)
CallsAreBounded ==
  \A k \in Calls : \A n \in DOMAIN upstream[k] :
    LET u == upstream[k][n] IN
    /\ u.model \in llm.allowlist
    /\ \E p \in Range(Providers) : p.name = u.provider /\ Maps(p, u.model)
    /\ u.attempt \in 1..maxAttemptsPerModel
    /\ u.requests \in 1..(maxRetries + 1)
    /\ \A m \in 1..(n - 1) :
         /\ upstream[k][m].outcome # "answer"
         /\ upstream[k][m].model = u.model /\ upstream[k][m].provider = u.provider
              => upstream[k][m].attempt < u.attempt
=============================================================================
