---------------------------- MODULE ServiceProofs ----------------------------
(***************************************************************************)
(* More of the requests at the gateway, for every set of tokens, every     *)
(* scene and every configuration.  In this order: what the completions of  *)
(* the LLM ask of the providers is bounded, and one that fails for its     *)
(* caller has asked all who could answer; a search finds what stands,      *)
(* whatever is committed, decided or merged while it reads; and every part *)
(* keeps its types.  The second rests on what a commit makes of the names  *)
(* of a bundle, which is a fold, and on the ranking of the facts found.    *)
(***************************************************************************)
EXTENDS ApiProofs

-----------------------------------------------------------------------------
(* The completions of the LLM.                                                *)
Outcomes == {"answer", "empty", "error", "deadline"}
Entries == [model : llm.allowlist, outcome : Outcomes, provider : {p.name : p \in Range(Providers)},
            attempt : 1..maxAttemptsPerModel, requests : 1..(maxRetries + 1)]

(* A model of the chain is ahead of the walk, or being asked: then each        *)
(* provider that was asked for it comes before the next one, or was asked in   *)
(* an earlier attempt.                                                         *)
Ahead(k) == {call[k].chain[i] : i \in 2..Len(call[k].chain)}
AskedBefore(k, u) ==
  \A j \in DOMAIN Providers : Providers[j].name = u.provider =>
    u.attempt < call[k].attempt \/ (u.attempt = call[k].attempt /\ j < call[k].next)

Walk(k) ==
  /\ call[k].step \in {"new", "calling", "done"}
  /\ call[k].chain \in Seq(llm.allowlist)
  /\ call[k].attempt \in 1..maxAttemptsPerModel /\ call[k].next \in Nat \ {0}
  /\ \A i, j \in DOMAIN call[k].chain : call[k].chain[i] = call[k].chain[j] => i = j
  /\ call[k].step = "calling" => call[k].chain # << >>

Walked(k) ==
  /\ upstream[k] \in Seq(Entries)
  /\ call[k].step = "new" => upstream[k] = << >>
  /\ \A n \in DOMAIN upstream[k] :
       /\ upstream[k][n].outcome = "answer" => call[k].step = "done"
       /\ call[k].step = "calling" =>
            /\ upstream[k][n].model \notin Ahead(k)
            /\ upstream[k][n].model = Model(k) => AskedBefore(k, upstream[k][n])

Bounded(k) ==
  \A n \in DOMAIN upstream[k] :
    LET u == upstream[k][n] IN
    /\ u.model \in llm.allowlist
    /\ \E p \in Range(Providers) : p.name = u.provider /\ Maps(p, u.model)
    /\ u.attempt \in 1..maxAttemptsPerModel
    /\ u.requests \in 1..(maxRetries + 1)
    /\ \A m \in 1..(n - 1) :
         /\ upstream[k][m].outcome # "answer"
         /\ upstream[k][m].model = u.model /\ upstream[k][m].provider = u.provider
              => upstream[k][m].attempt < u.attempt

Errors == {"none", "unknown task", "model not allowed", "empty response", "upstream", "deadline", "cancelled"}
CallColumns == [step : {"new", "calling", "done"}, chain : Seq(llm.allowlist), attempt : 1..maxAttemptsPerModel,
            next : Nat \ {0}, err : Errors]

ChainInv ==
  /\ llm \in Llms
  /\ call \in [Calls -> CallColumns]
  /\ DOMAIN upstream = Calls /\ upstream = [k \in Calls |-> upstream[k]]
  /\ \A k \in Calls : Walk(k) /\ Walked(k) /\ Bounded(k)

LEMMA ShortSeq == ASSUME NEW S, NEW x \in S PROVE << >> \in Seq(S) /\ <<x>> \in Seq(S)
OBVIOUS

LEMMA ChainOfATask ==
  ASSUME NEW task
  PROVE  /\ modelChain(task) \in Seq(llm.allowlist)
         /\ \A i, j \in DOMAIN modelChain(task) : modelChain(task)[i] = modelChain(task)[j] => i = j
<1> DEFINE Add(model, before) ==
             IF model = "" \/ model \notin llm.allowlist \/ model \in before THEN << >> ELSE <<model>>
           one == Add(task.model, {})
           two == Add(task.fallback, {task.model})
           three == Add(task.escalate, {task.model, task.fallback})
<1>1. modelChain(task) = one \o two \o three
  BY DEF modelChain
<1>2. /\ one = << >> \/ (one = <<task.model>> /\ task.model \in llm.allowlist)
      /\ two = << >> \/ (two = <<task.fallback>> /\ task.fallback \in llm.allowlist /\ task.fallback # task.model)
      /\ three = << >> \/ (/\ three = <<task.escalate>> /\ task.escalate \in llm.allowlist
                           /\ task.escalate \notin {task.model, task.fallback})
  OBVIOUS
<1> HIDE DEF one, two, three
<1>3. one \in Seq(llm.allowlist) /\ two \in Seq(llm.allowlist) /\ three \in Seq(llm.allowlist)
  BY <1>2, EmptySeq, ShortSeq
<1>4. Len(one) \in 0..1 /\ Len(two) \in 0..1 /\ Len(three) \in 0..1
  BY <1>2
<1>5. \A i \in DOMAIN one : one[i] = task.model
  BY <1>2
<1>6. \A i \in DOMAIN two : two[i] = task.fallback /\ task.fallback # task.model
  BY <1>2
<1>7. \A i \in DOMAIN three : three[i] = task.escalate /\ task.escalate \notin {task.model, task.fallback}
  BY <1>2
<1>8. /\ one \o two \in Seq(llm.allowlist) /\ Len(one \o two) = Len(one) + Len(two)
      /\ \A i \in 1..Len(one \o two) :
           (one \o two)[i] = IF i <= Len(one) THEN task.model ELSE task.fallback
  BY <1>3, <1>5, <1>6, ConcatProperties, LenProperties
<1>9. /\ modelChain(task) \in Seq(llm.allowlist)
      /\ Len(modelChain(task)) = Len(one) + Len(two) + Len(three)
      /\ \A i \in 1..Len(modelChain(task)) :
           modelChain(task)[i] = IF i <= Len(one) THEN task.model
                                 ELSE IF i <= Len(one) + Len(two) THEN task.fallback ELSE task.escalate
  BY <1>1, <1>3, <1>4, <1>7, <1>8, ConcatProperties, LenProperties
<1>10. Len(two) = 1 => task.fallback # task.model
  BY <1>2
<1>11. Len(three) = 1 => task.escalate \notin {task.model, task.fallback}
  BY <1>2
<1>12. Len(modelChain(task)) \in Nat /\ DOMAIN modelChain(task) = 1..Len(modelChain(task))
  BY <1>9, LenProperties
<1> SUFFICES ASSUME NEW i \in Nat, NEW j \in Nat, 0 < i, i < j, j <= Len(modelChain(task))
             PROVE  modelChain(task)[i] # modelChain(task)[j]
  BY <1>9, <1>12
<1> DEFINE n == Len(one)
           m == Len(two)
           l == Len(three)
           chain == modelChain(task)
<1>13. chain[i] = (IF i <= n THEN task.model ELSE IF i <= n + m THEN task.fallback ELSE task.escalate)
  BY <1>9, <1>12
<1>14. chain[j] = (IF j <= n THEN task.model ELSE IF j <= n + m THEN task.fallback ELSE task.escalate)
  BY <1>9, <1>12
<1>15. j <= n + m + l
  BY <1>9
<1> HIDE DEF n, m, l, chain
<1>16. n \in 0..1 /\ m \in 0..1 /\ l \in 0..1
  BY <1>4 DEF n, m, l
<1>17. (m = 1 => task.fallback # task.model) /\ (l = 1 => task.escalate \notin {task.model, task.fallback})
  BY <1>10, <1>11 DEF m, l
<1>18. chain[i] # chain[j]
  <2>1. j > n /\ (i <= n + m)
    BY <1>15, <1>16
  <2>2. CASE j <= n + m
    <3>1. m = 1 /\ i <= n
      BY <1>16, <2>1, <2>2
    <3>2. chain[i] = task.model
      BY <1>13, <3>1
    <3>3. chain[j] = task.fallback
      BY <1>14, <1>16, <2>1, <2>2
    <3> QED BY <1>17, <3>1, <3>2, <3>3
  <2>3. CASE j > n + m
    <3>1. l = 1
      BY <1>15, <1>16, <2>3
    <3>2. chain[j] = task.escalate
      BY <1>14, <1>16, <2>1, <2>3
    <3>3. chain[i] \in {task.model, task.fallback}
      BY <1>13, <2>1
    <3> QED BY <1>17, <3>1, <3>2, <3>3
  <2> QED BY <1>16, <2>2, <2>3
<1> QED BY <1>18 DEF chain

LEMMA ChainInit == Init => ChainInv
<1> SUFFICES ASSUME Init PROVE ChainInv
  OBVIOUS
<1>1. llm \in Llms /\ upstream = [k \in Calls |-> << >>]
  BY DEF Init, LlmInit
<1>2. call = [k \in Calls |-> [step |-> "new", chain |-> << >>, attempt |-> 1, next |-> 1, err |-> "none"]]
  BY DEF Init, LlmInit
<1>3. call \in [Calls -> CallColumns]
  <2> DEFINE start == [step |-> "new", chain |-> << >>, attempt |-> 1, next |-> 1, err |-> "none"]
  <2>1. << >> \in Seq(llm.allowlist)
    BY EmptySeq
  <2>2. \A s \in Seq(llm.allowlist) :
          [step |-> "new", chain |-> s, attempt |-> 1, next |-> 1, err |-> "none"] \in CallColumns
    BY DEF CallColumns, Errors, maxAttemptsPerModel
  <2>3. start \in CallColumns
    BY <2>1, <2>2, Zenon
  <2>4. call = [k \in Calls |-> start]
    BY <1>2
  <2> HIDE DEF start
  <2> QED BY <2>3, <2>4
<1>4. ASSUME NEW k \in Calls PROVE Walk(k) /\ Walked(k) /\ Bounded(k)
  <2>1. upstream[k] = << >>
    BY <1>1
  <2>2. call[k] = [step |-> "new", chain |-> << >>, attempt |-> 1, next |-> 1, err |-> "none"]
    BY <1>2
  <2>3. Walk(k)
    BY <2>2, EmptySeq DEF Walk, maxAttemptsPerModel
  <2>4. upstream[k] \in Seq(Entries) /\ Len(upstream[k]) = 0
    BY <2>1, EmptySeq
  <2> QED BY <2>1, <2>2, <2>3, <2>4, LenProperties DEF Walked, Bounded
<1> QED BY <1>1, <1>3, <1>4 DEF ChainInv

(* What a step of another part, or of another completion, leaves alone.       *)
LEMMA WalkStands ==
  ASSUME NEW k \in Calls, Walk(k), Walked(k), Bounded(k), UNCHANGED llm, call'[k] = call[k], upstream'[k] = upstream[k]
  PROVE  (Walk(k) /\ Walked(k) /\ Bounded(k))'
BY DEF Walk, Walked, Bounded, Ahead, AskedBefore, Providers, Entries, Model

(* What one completion does to the invariant: nothing to the others.          *)
LEMMA OneWalks ==
  ASSUME ChainInv, NEW k \in Calls, UNCHANGED llm, NEW fields \in CallColumns, NEW entries \in Seq(Entries),
         call' = [call EXCEPT ![k] = fields], upstream' = [upstream EXCEPT ![k] = entries],
         (Walk(k) /\ Walked(k) /\ Bounded(k))'
  PROVE  ChainInv'
<1>1. Calls' = Calls /\ CallColumns' = CallColumns
  BY DEF Calls, CallColumns
<1>2. call' \in [Calls -> CallColumns] /\ DOMAIN upstream' = Calls /\ upstream' = [n \in Calls |-> upstream'[n]]
  BY DEF ChainInv
<1>3. ASSUME NEW n \in Calls \ {k} PROVE (Walk(n) /\ Walked(n) /\ Bounded(n))'
  <2>1. call'[n] = call[n] /\ upstream'[n] = upstream[n]
    BY DEF ChainInv
  <2> QED BY <2>1, WalkStands DEF ChainInv
<1> QED BY <1>1, <1>2, <1>3 DEF ChainInv

(* A completion that has ended is only bounded; one that goes on with the      *)
(* same entries keeps them before it.                                         *)
LEMMA Stops ==
  ASSUME ChainInv, NEW k \in Calls, UNCHANGED llm, NEW err \in Errors, NEW entries \in Seq(Entries),
         call' = [call EXCEPT ![k] = [call[k] EXCEPT !.step = "done", !.err = err]],
         upstream' = [upstream EXCEPT ![k] = entries], Bounded(k)'
  PROVE  ChainInv'
<1> DEFINE fields == [call[k] EXCEPT !.step = "done", !.err = err]
<1>1. call[k] \in CallColumns
  BY DEF ChainInv
<1>2. /\ fields \in CallColumns /\ fields.step = "done" /\ fields.chain = call[k].chain
      /\ fields.attempt = call[k].attempt /\ fields.next = call[k].next
  BY <1>1 DEF CallColumns, Errors
<1>3. call'[k] = fields /\ upstream'[k] = entries
  BY DEF ChainInv
<1> HIDE DEF fields
<1>4. Walk(k)'
  BY <1>2, <1>3 DEF Walk, ChainInv
<1>5. Walked(k)'
  BY <1>2, <1>3 DEF Walked, Entries, Providers
<1> QED BY <1>2, <1>4, <1>5, OneWalks DEF fields

AllBefore(entries, fields) ==
  \A n \in DOMAIN entries :
    /\ entries[n].outcome # "answer"
    /\ entries[n].model \notin {fields.chain[i] : i \in 2..Len(fields.chain)}
    /\ entries[n].model = Head(fields.chain) =>
         \A j \in DOMAIN Providers : Providers[j].name = entries[n].provider =>
           entries[n].attempt < fields.attempt \/ (entries[n].attempt = fields.attempt /\ j < fields.next)

LEMMA Continues ==
  ASSUME ChainInv, NEW k \in Calls, UNCHANGED llm, NEW fields \in CallColumns, fields.step = "calling",
         fields.chain # << >>, NEW entries \in Seq(Entries),
         \A i, j \in DOMAIN fields.chain : fields.chain[i] = fields.chain[j] => i = j,
         call' = [call EXCEPT ![k] = fields], upstream' = [upstream EXCEPT ![k] = entries], Bounded(k)',
         AllBefore(entries, fields)
  PROVE  ChainInv'
<1>1. call'[k] = fields /\ upstream'[k] = entries
  BY DEF ChainInv
<1>2. Walk(k)'
  BY <1>1 DEF Walk, CallColumns
<1>3. Providers' = Providers /\ Entries' = Entries
  BY DEF Providers, Entries
<1>4. Walked(k)'
  BY <1>1, <1>3 DEF AllBefore, Walked, Ahead, AskedBefore, Model
<1> QED BY <1>2, <1>4, OneWalks

(* What is known of a completion that asks.                                   *)
LEMMA Calling ==
  ASSUME ChainInv, NEW k \in Calls, call[k].step = "calling"
  PROVE  /\ call[k] \in CallColumns
         /\ call[k].chain \in Seq(llm.allowlist) /\ call[k].chain # << >>
         /\ Model(k) = call[k].chain[1] /\ Model(k) \in llm.allowlist
         /\ \A i, j \in DOMAIN call[k].chain : call[k].chain[i] = call[k].chain[j] => i = j
         /\ upstream[k] \in Seq(Entries) /\ Bounded(k)
         /\ \A n \in DOMAIN upstream[k] :
              /\ upstream[k][n].outcome # "answer"
              /\ upstream[k][n].model \notin Ahead(k)
              /\ upstream[k][n].model = Model(k) => AskedBefore(k, upstream[k][n])
<1>1. Walk(k) /\ Walked(k) /\ Bounded(k) /\ call[k] \in CallColumns
  BY DEF ChainInv
<1> QED BY <1>1, HeadTailProperties DEF Walk, Walked, Model

LEMMA TailOf ==
  ASSUME NEW S, NEW s \in Seq(S), s # << >>, Len(s) # 1,
         \A i, j \in DOMAIN s : s[i] = s[j] => i = j
  PROVE  /\ Tail(s) \in Seq(S) /\ Tail(s) # << >>
         /\ \A i, j \in DOMAIN Tail(s) : Tail(s)[i] = Tail(s)[j] => i = j
         /\ Head(Tail(s)) \in {s[i] : i \in 2..Len(s)}
         /\ {Tail(s)[i] : i \in 2..Len(Tail(s))} \subseteq {s[i] : i \in 2..Len(s)}
<1>1. Len(s) \in Nat /\ Len(s) > 1 /\ DOMAIN s = 1..Len(s)
  <2>1. Len(s) \in Nat /\ DOMAIN s = 1..Len(s)
    BY LenProperties
  <2>2. Len(s) # 0
    BY EmptySeq
  <2> QED BY <2>1, <2>2
<1>2. /\ Tail(s) \in Seq(S) /\ Len(Tail(s)) = Len(s) - 1
      /\ \A i \in 1..Len(Tail(s)) : Tail(s)[i] = s[i + 1]
  BY HeadTailProperties
<1> DEFINE t == Tail(s)
           n == Len(s)
           m == Len(t)
<1>3. t \in Seq(S) /\ m = n - 1 /\ DOMAIN t = 1..m /\ n \in Nat /\ n > 1 /\ DOMAIN s = 1..n
  BY <1>1, <1>2, LenProperties
<1>4. t # << >>
  BY <1>1, <1>2, EmptySeq
<1>5. Head(t) = t[1]
  BY <1>2, <1>4
<1>6. \A i \in 1..m : t[i] = s[i + 1]
  BY <1>2
<1> HIDE DEF t, n, m
<1>7. Head(t) = s[2]
  BY <1>3, <1>5, <1>6
<1>8. ASSUME NEW i \in DOMAIN t, NEW j \in DOMAIN t, t[i] = t[j] PROVE i = j
  <2>1. i \in 1..m /\ j \in 1..m
    BY <1>3
  <2>2. i + 1 \in DOMAIN s /\ j + 1 \in DOMAIN s /\ s[i + 1] = s[j + 1]
    BY <1>3, <1>6, <1>8, <2>1
  <2>3. i + 1 = j + 1
    BY <2>2
  <2> QED BY <2>1, <2>3
<1>9. {t[i] : i \in 2..m} \subseteq {s[i] : i \in 2..n}
  BY <1>3, <1>6
<1>10. s[2] \in {s[i] : i \in 2..n}
  BY <1>3
<1> QED BY <1>3, <1>4, <1>7, <1>8, <1>9, <1>10 DEF t, n, m

(* The next model: none of the entries is about it or about those behind it.  *)
LEMMA NextModelWalks ==
  ASSUME ChainInv, NEW k \in Calls, call[k].step = "calling", UNCHANGED llm, NEW err \in Errors,
         NEW entries \in Seq(Entries), upstream' = [upstream EXCEPT ![k] = entries], Bounded(k)',
         NextModel(k, err),
         \A n \in DOMAIN entries : entries[n].outcome # "answer" /\ entries[n].model \notin Ahead(k)
  PROVE  ChainInv'
<1>1. CASE Len(call[k].chain) = 1
  BY <1>1, Stops DEF NextModel, Fail
<1>2. CASE Len(call[k].chain) # 1
  <2> DEFINE chain == call[k].chain
             fields == [call[k] EXCEPT !.chain = Tail(@), !.attempt = 1, !.next = 1, !.err = err]
  <2>1. chain \in Seq(llm.allowlist) /\ chain # << >> /\ call[k] \in CallColumns
    BY Calling
  <2>2. /\ Tail(chain) \in Seq(llm.allowlist) /\ Tail(chain) # << >>
        /\ \A i, j \in DOMAIN Tail(chain) : Tail(chain)[i] = Tail(chain)[j] => i = j
        /\ Head(Tail(chain)) \in Ahead(k)
        /\ {Tail(chain)[i] : i \in 2..Len(Tail(chain))} \subseteq Ahead(k)
    <3>1. \A i, j \in DOMAIN chain : chain[i] = chain[j] => i = j
      BY Calling
    <3>2. Len(chain) # 1 /\ Ahead(k) = {chain[i] : i \in 2..Len(chain)}
      BY <1>2 DEF Ahead
    <3> HIDE DEF chain
    <3> QED BY <2>1, <3>1, <3>2, TailOf
  <2>3. fields \in CallColumns /\ fields.step = "calling" /\ fields.chain = Tail(chain)
    <3> DEFINE rest == Tail(chain)
    <3>1. rest \in Seq(llm.allowlist) /\ 1 \in Nat \ {0} /\ 1 \in 1..maxAttemptsPerModel
      BY <2>2 DEF maxAttemptsPerModel
    <3>2. fields = [call[k] EXCEPT !.chain = rest, !.attempt = 1, !.next = 1, !.err = err]
      OBVIOUS
    <3> HIDE DEF rest, fields
    <3>3. fields \in CallColumns /\ fields.step = call[k].step /\ fields.chain = rest
      <4>1. \A r \in CallColumns : \A f : f = [r EXCEPT !.chain = rest, !.attempt = 1, !.next = 1, !.err = err]
              => f \in CallColumns /\ f.step = r.step /\ f.chain = rest
        BY <3>1, Zenon DEF CallColumns
      <4> QED BY <2>1, <3>2, <4>1, Zenon
    <3> QED BY <3>3 DEF rest
  <2>4. call' = [call EXCEPT ![k] = fields]
    BY <1>2 DEF NextModel
  <2>5. AllBefore(entries, fields)
    BY <2>2, <2>3 DEF AllBefore
  <2> HIDE DEF fields
  <2> QED BY <2>2, <2>3, <2>4, <2>5, Continues
<1> QED BY <1>1, <1>2

-----------------------------------------------------------------------------
LEMMA ProvidersAre ==
  ASSUME ChainInv
  PROVE  /\ Len(Providers) \in Nat /\ DOMAIN Providers = 1..Len(Providers)
         /\ \A i, j \in DOMAIN Providers : Providers[i].name = Providers[j].name => i = j
BY ProvidersAssumption DEF ChainInv, Providers

LEMMA NothingAsked ==
  ASSUME ChainInv, NEW k \in Calls, UNCHANGED <<llm, upstream>>
  PROVE  /\ upstream' = [upstream EXCEPT ![k] = upstream[k]]
         /\ upstream[k] \in Seq(Entries) /\ Bounded(k)'
<1>1. upstream' = [upstream EXCEPT ![k] = upstream[k]] /\ upstream'[k] = upstream[k]
  BY DEF ChainInv
<1>2. upstream[k] \in Seq(Entries) /\ Bounded(k)
  BY DEF ChainInv, Walked
<1>3. Providers' = Providers
  BY DEF Providers
<1> QED BY <1>1, <1>2, <1>3 DEF Bounded

(* One more entry: the next provider, in this attempt.                         *)
IsAsked(u, k, outcome) ==
  /\ u.model = Model(k) /\ u.outcome = outcome
  /\ u.provider = Providers[call[k].next].name /\ u.attempt = call[k].attempt

LEMMA OneAsked ==
  ASSUME ChainInv, NEW k \in Calls, Reachable(k), UNCHANGED llm, NEW outcome \in Outcomes, Reached(k, outcome)
  PROVE  \E entries \in Seq(Entries) :
         /\ upstream' = [upstream EXCEPT ![k] = entries]
         /\ Bounded(k)'
         /\ \A n \in DOMAIN entries : (n \in DOMAIN upstream[k] /\ entries[n] = upstream[k][n])
                                      \/ IsAsked(entries[n], k, outcome)
<1>0. PICK requests \in 1..(maxRetries + 1) :
        upstream' = [upstream EXCEPT ![k] = Append(@, [model |-> Model(k), outcome |-> outcome,
                                                       provider |-> Providers[call[k].next].name,
                                                       attempt |-> call[k].attempt,
                                                       requests |-> requests])]
  BY DEF Reached
<1> DEFINE e == [model |-> Model(k), outcome |-> outcome, provider |-> Providers[call[k].next].name,
                 attempt |-> call[k].attempt, requests |-> requests]
           before == upstream[k]
           entries == Append(before, e)
           next == call[k].next
           l == Len(before)
<1>1. call[k].step = "calling" /\ next <= Len(Providers) /\ Maps(Providers[next], Model(k))
  BY DEF Reachable
<1>2. /\ before \in Seq(Entries) /\ Bounded(k) /\ call[k] \in CallColumns /\ Model(k) \in llm.allowlist
      /\ \A n \in DOMAIN before :
           before[n].outcome # "answer" /\ (before[n].model = Model(k) => AskedBefore(k, before[n]))
  BY <1>1, Calling
<1>3. next \in DOMAIN Providers /\ call[k].attempt \in 1..maxAttemptsPerModel
  BY <1>1, <1>2, ProvidersAre DEF CallColumns
<1>4. Providers[next] \in Range(Providers)
  BY <1>3 DEF Range
<1>5. e \in Entries
  BY <1>2, <1>3, <1>4 DEF Entries
<1>51. IsAsked(e, k, outcome) /\ e.requests \in 1..(maxRetries + 1)
  BY DEF IsAsked
<1>6. upstream' = [upstream EXCEPT ![k] = entries] /\ upstream'[k] = entries
  BY <1>0 DEF ChainInv
<1>7. l \in Nat /\ DOMAIN before = 1..l
  BY <1>2, LenProperties
<1>8. /\ entries \in Seq(Entries) /\ Len(entries) = l + 1
      /\ \A n \in 1..l : entries[n] = before[n]
      /\ entries[l + 1] = e
  BY <1>2, <1>5, AppendProperties
<1>9. DOMAIN entries = 1..(l + 1)
  BY <1>8, LenProperties
<1> HIDE DEF e, entries, l
<1>10. \A n \in DOMAIN entries : (n \in DOMAIN before /\ entries[n] = before[n]) \/ (n = l + 1 /\ entries[n] = e)
  BY <1>7, <1>8, <1>9
<1>11. ASSUME NEW n \in DOMAIN entries
       PROVE  /\ entries[n].model \in llm.allowlist
              /\ \E p \in Range(Providers) : p.name = entries[n].provider /\ Maps(p, entries[n].model)
              /\ entries[n].attempt \in 1..maxAttemptsPerModel
              /\ entries[n].requests \in 1..(maxRetries + 1)
              /\ \A m \in 1..(n - 1) :
                   /\ entries[m].outcome # "answer"
                   /\ entries[m].model = entries[n].model /\ entries[m].provider = entries[n].provider
                        => entries[m].attempt < entries[n].attempt
  <2>1. CASE n \in DOMAIN before /\ entries[n] = before[n]
    <3>1. \A m \in 1..(n - 1) : entries[m] = before[m]
      BY <1>7, <1>8, <2>1
    <3> QED BY <1>2, <2>1, <3>1 DEF Bounded
  <2>2. CASE n = l + 1 /\ entries[n] = e
    <3>1. e.model = Model(k) /\ e.provider = Providers[next].name /\ e.attempt = call[k].attempt
      BY <1>51 DEF IsAsked
    <3>2. ASSUME NEW m \in 1..(n - 1)
          PROVE  /\ entries[m].outcome # "answer"
                 /\ entries[m].model = e.model /\ entries[m].provider = e.provider => entries[m].attempt < e.attempt
      <4>1. m \in DOMAIN before /\ entries[m] = before[m]
        BY <1>7, <1>8, <2>2, <3>2
      <4>2. next \in Nat
        BY <1>3, ProvidersAre
      <4>3. ASSUME before[m].model = Model(k), before[m].provider = Providers[next].name
            PROVE  before[m].attempt < call[k].attempt
        BY <1>2, <1>3, <4>1, <4>2, <4>3 DEF AskedBefore
      <4> QED BY <1>2, <3>1, <4>1, <4>3
    <3> QED BY <1>1, <1>2, <1>3, <1>4, <1>51, <2>2, <3>1, <3>2
  <2> QED BY <1>10, <2>1, <2>2
<1>12. Bounded(k)'
  <2>1. Providers' = Providers /\ (llm.allowlist)' = llm.allowlist
    BY DEF Providers
  <2>2. \A p, model : Maps(p, model)' = Maps(p, model)
    BY DEF Maps
  <2> HIDE DEF Maps, Providers
  <2> QED BY <1>6, <1>11, <2>1, <2>2 DEF Bounded
<1> QED BY <1>6, <1>8, <1>10, <1>12, <1>51

(* What the entries are, asked or not, when a step goes on: what the walk       *)
(* knows of the next provider, of the next attempt and of the next model.       *)
LEMMA EntriesKnown ==
  ASSUME ChainInv, NEW k \in Calls, call[k].step = "calling", NEW entries, NEW outcome \in Outcomes \ {"answer"},
         \A n \in DOMAIN entries : (n \in DOMAIN upstream[k] /\ entries[n] = upstream[k][n])
                                   \/ IsAsked(entries[n], k, outcome)
  PROVE  \A n \in DOMAIN entries :
           /\ entries[n].outcome # "answer" /\ entries[n].model \notin Ahead(k)
           /\ entries[n].model = Model(k) =>
                \A j \in DOMAIN Providers : Providers[j].name = entries[n].provider =>
                  /\ entries[n].attempt < call[k].attempt + 1
                  /\ call[k].next \in DOMAIN Providers =>
                       \/ entries[n].attempt < call[k].attempt
                       \/ entries[n].attempt = call[k].attempt /\ j < call[k].next + 1
<1> SUFFICES ASSUME NEW n \in DOMAIN entries
             PROVE  /\ entries[n].outcome # "answer" /\ entries[n].model \notin Ahead(k)
                    /\ entries[n].model = Model(k) =>
                         \A j \in DOMAIN Providers : Providers[j].name = entries[n].provider =>
                           /\ entries[n].attempt < call[k].attempt + 1
                           /\ call[k].next \in DOMAIN Providers =>
                                \/ entries[n].attempt < call[k].attempt
                                \/ entries[n].attempt = call[k].attempt /\ j < call[k].next + 1
  OBVIOUS
<1>1. /\ call[k].attempt \in Nat /\ call[k].next \in Nat /\ DOMAIN Providers \subseteq Nat
      /\ call[k].chain \in Seq(llm.allowlist) /\ Model(k) = call[k].chain[1] /\ call[k].chain # << >>
      /\ \A i, j \in DOMAIN call[k].chain : call[k].chain[i] = call[k].chain[j] => i = j
  BY Calling, ProvidersAre DEF CallColumns
<1>2. CASE n \in DOMAIN upstream[k] /\ entries[n] = upstream[k][n]
  <2>1. /\ entries[n].outcome # "answer" /\ entries[n].model \notin Ahead(k)
        /\ entries[n].model = Model(k) => AskedBefore(k, entries[n])
    BY <1>2, Calling
  <2>2. upstream[k] \in Seq(Entries)
    BY Calling
  <2>3. entries[n].attempt \in Nat
    <3>1. entries[n] \in Entries
      BY <1>2, <2>2
    <3> QED BY <3>1 DEF Entries
  <2>4. ASSUME entries[n].model = Model(k), NEW j \in DOMAIN Providers, Providers[j].name = entries[n].provider
        PROVE  /\ entries[n].attempt < call[k].attempt + 1
               /\ \/ entries[n].attempt < call[k].attempt
                  \/ entries[n].attempt = call[k].attempt /\ j < call[k].next + 1
    <3>1. \/ entries[n].attempt < call[k].attempt
          \/ entries[n].attempt = call[k].attempt /\ j < call[k].next
      BY <2>1, <2>4 DEF AskedBefore
    <3>2. j \in Nat
      BY <1>1
    <3> QED BY <1>1, <2>3, <3>1, <3>2
  <2> QED BY <2>1, <2>4
<1>3. CASE IsAsked(entries[n], k, outcome)
  <2>1. /\ entries[n].outcome = outcome /\ entries[n].model = Model(k)
        /\ entries[n].provider = Providers[call[k].next].name /\ entries[n].attempt = call[k].attempt
    BY <1>3 DEF IsAsked
  <2>2. Model(k) \notin Ahead(k)
    <3>1. Len(call[k].chain) \in Nat /\ DOMAIN call[k].chain = 1..Len(call[k].chain)
      BY <1>1, LenProperties
    <3>2. Len(call[k].chain) # 0
      BY <1>1, EmptySeq
    <3> QED BY <1>1, <3>1, <3>2 DEF Ahead
  <2>3. ASSUME NEW j \in DOMAIN Providers, Providers[j].name = entries[n].provider,
               call[k].next \in DOMAIN Providers
        PROVE  j = call[k].next
    BY <2>1, <2>3, ProvidersAre
  <2> QED BY <1>1, <2>1, <2>2, <2>3
<1> QED BY <1>2, <1>3

(* The next provider, in the same attempt.                                    *)
LEMMA NextProviderWalks ==
  ASSUME ChainInv, NEW k \in Calls, call[k].step = "calling", UNCHANGED llm, call[k].next <= Len(Providers),
         NEW entries \in Seq(Entries), upstream' = [upstream EXCEPT ![k] = entries], Bounded(k)',
         NEW outcome \in Outcomes \ {"answer"},
         \A n \in DOMAIN entries : (n \in DOMAIN upstream[k] /\ entries[n] = upstream[k][n])
                                   \/ IsAsked(entries[n], k, outcome),
         NEW fields \in CallColumns, call' = [call EXCEPT ![k] = fields], fields.step = "calling",
         fields.chain = call[k].chain, fields.attempt = call[k].attempt, fields.next = call[k].next + 1
  PROVE  ChainInv'
<1>1. /\ call[k].chain # << >> /\ Model(k) = Head(call[k].chain)
      /\ \A i, j \in DOMAIN call[k].chain : call[k].chain[i] = call[k].chain[j] => i = j
  BY Calling DEF Model
<1>2. call[k].next \in DOMAIN Providers
  BY ProvidersAre, Calling DEF CallColumns
<1>3. AllBefore(entries, fields)
  <2>1. {fields.chain[i] : i \in 2..Len(fields.chain)} = Ahead(k) /\ Head(fields.chain) = Model(k)
    BY <1>1 DEF Ahead
  <2> SUFFICES ASSUME NEW n \in DOMAIN entries
               PROVE  /\ entries[n].outcome # "answer" /\ entries[n].model \notin Ahead(k)
                      /\ entries[n].model = Model(k) =>
                           \A j \in DOMAIN Providers : Providers[j].name = entries[n].provider =>
                             \/ entries[n].attempt < fields.attempt
                             \/ entries[n].attempt = fields.attempt /\ j < fields.next
    BY <2>1 DEF AllBefore
  <2> QED BY <1>2, EntriesKnown
<1> QED BY <1>1, <1>3, Continues

(* The next attempt, or the next model after the last of its attempts.         *)
LEMMA EndAttemptWalks ==
  ASSUME ChainInv, NEW k \in Calls, call[k].step = "calling", UNCHANGED llm, NEW err \in Errors,
         NEW entries \in Seq(Entries), upstream' = [upstream EXCEPT ![k] = entries], Bounded(k)',
         NEW outcome \in Outcomes \ {"answer"},
         \A n \in DOMAIN entries : (n \in DOMAIN upstream[k] /\ entries[n] = upstream[k][n])
                                   \/ IsAsked(entries[n], k, outcome),
         EndAttempt(k, err)
  PROVE  ChainInv'
<1>1. CASE NextModel(k, err)
  BY <1>1, EntriesKnown, NextModelWalks
<1>2. CASE /\ call[k].attempt # maxAttemptsPerModel
           /\ call' = [call EXCEPT ![k].attempt = @ + 1, ![k].next = 1, ![k].err = err]
  <2> DEFINE fields == [call[k] EXCEPT !.attempt = @ + 1, !.next = 1, !.err = err]
             a == call[k].attempt + 1
  <2>1. /\ call[k] \in CallColumns /\ call[k].chain # << >> /\ Model(k) = Head(call[k].chain)
        /\ \A i, j \in DOMAIN call[k].chain : call[k].chain[i] = call[k].chain[j] => i = j
    BY Calling DEF Model
  <2>2. a \in 1..maxAttemptsPerModel /\ 1 \in Nat \ {0}
    BY <1>2, <2>1 DEF CallColumns, maxAttemptsPerModel
  <2>3. fields = [call[k] EXCEPT !.attempt = a, !.next = 1, !.err = err] /\ call' = [call EXCEPT ![k] = fields]
    BY <1>2
  <2> HIDE DEF fields, a
  <2>4. \A r \in CallColumns : \A f : f = [r EXCEPT !.attempt = a, !.next = 1, !.err = err]
          => f \in CallColumns /\ f.step = r.step /\ f.chain = r.chain /\ f.attempt = a /\ f.next = 1
    BY <2>2, Zenon DEF CallColumns
  <2>5. fields \in CallColumns /\ fields.step = call[k].step /\ fields.chain = call[k].chain
        /\ fields.attempt = a /\ fields.next = 1
    BY <2>1, <2>3, <2>4, Zenon
  <2>6. AllBefore(entries, fields)
    <3>1. {fields.chain[i] : i \in 2..Len(fields.chain)} = Ahead(k) /\ Head(fields.chain) = Model(k)
      BY <2>1, <2>5 DEF Ahead
    <3> SUFFICES ASSUME NEW n \in DOMAIN entries
                 PROVE  /\ entries[n].outcome # "answer" /\ entries[n].model \notin Ahead(k)
                        /\ entries[n].model = Model(k) =>
                             \A j \in DOMAIN Providers : Providers[j].name = entries[n].provider =>
                               entries[n].attempt < fields.attempt
      BY <3>1 DEF AllBefore
    <3> QED BY <2>5, EntriesKnown DEF a
  <2>7. call' = [call EXCEPT ![k] = fields] /\ fields.step = "calling" /\ fields.chain # << >>
    BY <2>1, <2>3, <2>5
  <2>8. \A i, j \in DOMAIN fields.chain : fields.chain[i] = fields.chain[j] => i = j
    BY <2>1, <2>5
  <2> QED BY <2>5, <2>6, <2>7, <2>8, Continues
<1> QED BY <1>1, <1>2 DEF EndAttempt

(* A completion's own steps.                                                  *)
LEMMA StartWalks == ASSUME ChainInv, NEW k \in Calls, Complete(k) PROVE ChainInv'
<1>1. call[k].step = "new" /\ UNCHANGED <<llm, upstream>>
  BY DEF Complete
<1>2. upstream' = [upstream EXCEPT ![k] = upstream[k]] /\ upstream[k] \in Seq(Entries) /\ Bounded(k)'
  BY <1>1, NothingAsked
<1>3. CASE Fail(k, "unknown task") \/ Fail(k, "model not allowed")
  <2>1. PICK err \in Errors : Fail(k, err)
    BY <1>3 DEF Errors
  <2> QED BY <1>1, <1>2, <2>1, Stops DEF Fail
<1>4. CASE /\ modelChain(Task(k)) # << >>
           /\ call' = [call EXCEPT ![k].step = "calling", ![k].chain = modelChain(Task(k))]
  <2> DEFINE chain == modelChain(Task(k))
             fields == [call[k] EXCEPT !.step = "calling", !.chain = chain]
  <2>1. chain \in Seq(llm.allowlist) /\ \A i, j \in DOMAIN chain : chain[i] = chain[j] => i = j
    BY ChainOfATask
  <2>2. call' = [call EXCEPT ![k] = fields] /\ call[k] \in CallColumns /\ chain # << >>
    BY <1>4 DEF ChainInv
  <2>3. fields = [call[k] EXCEPT !.step = "calling", !.chain = chain]
    OBVIOUS
  <2> HIDE DEF fields, chain
  <2>4. \A r \in CallColumns : \A f : f = [r EXCEPT !.step = "calling", !.chain = chain]
          => f \in CallColumns /\ f.step = "calling" /\ f.chain = chain
    BY <2>1, Zenon DEF CallColumns
  <2>5. fields \in CallColumns /\ fields.step = "calling" /\ fields.chain = chain
    BY <2>2, <2>3, <2>4, Zenon
  <2>6. AllBefore(upstream[k], fields)
    <3>1. DOMAIN upstream[k] = {}
      BY <1>1, LenProperties DEF ChainInv, Walked
    <3> QED BY <3>1 DEF AllBefore
  <2>7. fields.chain # << >> /\ \A i, j \in DOMAIN fields.chain : fields.chain[i] = fields.chain[j] => i = j
    BY <2>1, <2>2, <2>5
  <2>8. call' = [call EXCEPT ![k] = fields]
    BY <2>2
  <2> QED BY <1>1, <1>2, <2>5, <2>6, <2>7, <2>8, Continues
<1> QED BY <1>3, <1>4 DEF Complete

LEMMA SkipWalks == ASSUME ChainInv, NEW k \in Calls, SkipProvider(k) PROVE ChainInv'
<1>1. call[k].step = "calling" /\ UNCHANGED <<llm, upstream>> /\ call[k].next <= Len(Providers)
  BY DEF SkipProvider
<1>2. upstream' = [upstream EXCEPT ![k] = upstream[k]] /\ upstream[k] \in Seq(Entries) /\ Bounded(k)'
  BY <1>1, NothingAsked
<1> DEFINE n == call[k].next + 1
           fields == [call[k] EXCEPT !.next = n]
<1>3. call' = [call EXCEPT ![k] = fields] /\ call[k] \in CallColumns
  BY DEF SkipProvider, ChainInv
<1>4. n \in Nat \ {0}
  BY <1>3 DEF CallColumns
<1>5. fields = [call[k] EXCEPT !.next = n]
  OBVIOUS
<1> HIDE DEF n, fields
<1>6. \A r \in CallColumns : \A f : f = [r EXCEPT !.next = n]
        => f \in CallColumns /\ f.step = r.step /\ f.chain = r.chain /\ f.attempt = r.attempt /\ f.next = n
  BY <1>4, Zenon DEF CallColumns
<1>7. /\ fields \in CallColumns /\ fields.step = call[k].step /\ fields.chain = call[k].chain
      /\ fields.attempt = call[k].attempt /\ fields.next = n
  BY <1>3, <1>5, <1>6, Zenon
<1>8. call' = [call EXCEPT ![k] = fields] /\ fields.next = call[k].next + 1 /\ fields.step = "calling"
  BY <1>1, <1>3, <1>7 DEF n
<1>9. "error" \in Outcomes \ {"answer"}
  BY DEF Outcomes
<1> QED BY <1>1, <1>2, <1>7, <1>8, <1>9, NextProviderWalks

LEMMA CallWalks == ASSUME ChainInv, NEW k \in Calls, CallProvider(k) PROVE ChainInv'
<1>1. Reachable(k) /\ call[k].step = "calling" /\ call[k].next <= Len(Providers) /\ UNCHANGED llm
  BY DEF CallProvider, Reachable
<1>2. ASSUME NEW outcome \in Outcomes, Reached(k, outcome)
      PROVE  \E entries \in Seq(Entries) :
             /\ upstream' = [upstream EXCEPT ![k] = entries]
             /\ Bounded(k)'
             /\ \A n \in DOMAIN entries : (n \in DOMAIN upstream[k] /\ entries[n] = upstream[k][n])
                                          \/ IsAsked(entries[n], k, outcome)
  BY <1>1, <1>2, OneAsked
<1>3. Outcomes = {"answer", "empty", "error", "deadline"}
  BY DEF Outcomes
<1>4. CASE Succeed(k, Providers[call[k].next]) /\ Reached(k, "answer")
  <2>1. call' = [call EXCEPT ![k] = [call[k] EXCEPT !.step = "done", !.err = "none"]]
    BY <1>4 DEF Succeed
  <2>2. "none" \in Errors
    BY DEF Errors
  <2> QED BY <1>1, <1>2, <1>3, <1>4, <2>1, <2>2, Stops
<1>5. CASE NextModel(k, "empty response") /\ Reached(k, "empty")
  <2>1. PICK entries \in Seq(Entries) :
        /\ upstream' = [upstream EXCEPT ![k] = entries] /\ Bounded(k)'
        /\ \A n \in DOMAIN entries : (n \in DOMAIN upstream[k] /\ entries[n] = upstream[k][n])
                                      \/ IsAsked(entries[n], k, "empty")
    BY <1>2, <1>3, <1>5
  <2>2. \A n \in DOMAIN entries : entries[n].outcome # "answer" /\ entries[n].model \notin Ahead(k)
    BY <1>1, <1>3, <2>1, EntriesKnown
  <2>3. "empty response" \in Errors /\ NextModel(k, "empty response")
    BY <1>5 DEF Errors
  <2> QED BY <1>1, <2>1, <2>2, <2>3, NextModelWalks
<1>6. CASE call' = [call EXCEPT ![k].next = @ + 1, ![k].err = "upstream"] /\ Reached(k, "error")
  <2> DEFINE n == call[k].next + 1
             fields == [call[k] EXCEPT !.next = n, !.err = "upstream"]
  <2>1. call' = [call EXCEPT ![k] = fields] /\ call[k] \in CallColumns
    BY <1>6 DEF ChainInv
  <2>2. n \in Nat \ {0}
    BY <1>1, Calling DEF CallColumns
  <2>3. fields = [call[k] EXCEPT !.next = n, !.err = "upstream"]
    OBVIOUS
  <2> HIDE DEF n, fields
  <2>9. "upstream" \in Errors
    BY DEF Errors
  <2>4. \A r \in CallColumns : \A f : f = [r EXCEPT !.next = n, !.err = "upstream"]
          => f \in CallColumns /\ f.step = r.step /\ f.chain = r.chain /\ f.attempt = r.attempt /\ f.next = n
    BY <2>2, <2>9, Zenon DEF CallColumns
  <2>5. /\ fields \in CallColumns /\ fields.step = call[k].step /\ fields.chain = call[k].chain
        /\ fields.attempt = call[k].attempt /\ fields.next = n
    BY <2>1, <2>3, <2>4, Zenon
  <2>6. call' = [call EXCEPT ![k] = fields] /\ fields.next = call[k].next + 1 /\ fields.step = "calling"
    BY <1>1, <2>1, <2>5 DEF n
  <2>7. PICK entries \in Seq(Entries) :
        /\ upstream' = [upstream EXCEPT ![k] = entries] /\ Bounded(k)'
        /\ \A i \in DOMAIN entries : (i \in DOMAIN upstream[k] /\ entries[i] = upstream[k][i])
                                      \/ IsAsked(entries[i], k, "error")
    BY <1>2, <1>3, <1>6
  <2> QED BY <1>1, <1>3, <2>5, <2>6, <2>7, NextProviderWalks
<1>7. CASE EndAttempt(k, "deadline") /\ Reached(k, "deadline")
  <2>1. "deadline" \in Errors
    BY DEF Errors
  <2>2. PICK entries \in Seq(Entries) :
        /\ upstream' = [upstream EXCEPT ![k] = entries] /\ Bounded(k)'
        /\ \A n \in DOMAIN entries : (n \in DOMAIN upstream[k] /\ entries[n] = upstream[k][n])
                                      \/ IsAsked(entries[n], k, "deadline")
    BY <1>2, <1>3, <1>7
  <2> QED BY <1>1, <1>3, <1>7, <2>1, <2>2, EndAttemptWalks
<1> QED BY <1>4, <1>5, <1>6, <1>7 DEF CallProvider

LEMMA GiveUpWalks ==
  ASSUME ChainInv, NEW k \in Calls, CallWithoutCaller(k) \/ NoProviderLeft(k)
  PROVE  ChainInv'
<1>1. call[k].step = "calling" /\ UNCHANGED <<llm, upstream>>
  BY DEF CallWithoutCaller, NoProviderLeft, Reachable
<1>2. upstream' = [upstream EXCEPT ![k] = upstream[k]] /\ upstream[k] \in Seq(Entries) /\ Bounded(k)'
  BY <1>1, NothingAsked
<1>3. "error" \in Outcomes \ {"answer"}
  BY DEF Outcomes
<1>4. CASE CallWithoutCaller(k)
  <2>1. NextModel(k, "cancelled") /\ "cancelled" \in Errors
    BY <1>4 DEF CallWithoutCaller, Errors
  <2>2. \A n \in DOMAIN upstream[k] : upstream[k][n].outcome # "answer" /\ upstream[k][n].model \notin Ahead(k)
    BY <1>1, Calling
  <2> QED BY <1>1, <1>2, <2>1, <2>2, NextModelWalks
<1>5. CASE NoProviderLeft(k)
  <2>1. PICK err : /\ err = IF \E p \in Range(Providers) : Maps(p, Model(k)) THEN call[k].err ELSE "model not allowed"
                   /\ EndAttempt(k, err)
    BY <1>5 DEF NoProviderLeft
  <2>2. call[k].err \in Errors
    BY <1>1, Calling DEF CallColumns
  <2>3. err \in Errors
    BY <2>1, <2>2 DEF Errors
  <2> QED BY <1>1, <1>2, <1>3, <2>1, <2>3, EndAttemptWalks
<1> QED BY <1>4, <1>5

LEMMA CompletionWalks == ASSUME ChainInv, NEW k \in Calls, LlmStep(k) PROVE ChainInv'
BY StartWalks, SkipWalks, CallWalks, GiveUpWalks DEF LlmStep

(* A step of anybody else leaves the completions as they are, except that it   *)
(* may hang up on them.                                                       *)
LEMMA OnlyCompletionsWalk ==
  ASSUME [Next]_vars
  PROVE  (UNCHANGED <<llm, call, result, upstream>> /\ cancelled \subseteq cancelled') \/ \E k \in Calls : LlmStep(k)
<1>1. UNCHANGED chains => UNCHANGED <<llm, call, result, upstream>> /\ cancelled \subseteq cancelled'
  BY DEF chains
<1>2. ASSUME AskNext PROVE (UNCHANGED <<llm, call, result, upstream>> /\ cancelled \subseteq cancelled') \/ \E k \in Calls : LlmStep(k)
  <2>1. ASSUME NEW c \in Players,
               \/ queryParse(c) \/ askHandler(c) \/ planAndTerms(c) \/ cacheGet(c)
               \/ augmentFacts(c) \/ searchFailed(c) \/ augmentChunks(c) \/ runSynthesis(c)
               \/ emitDelta(c) \/ cachePut(c) \/ emitDone(c) \/ askAborted(c)
        PROVE  UNCHANGED <<llm, call, result, upstream>> /\ cancelled \subseteq cancelled'
    <3>1. queryParse(c) \/ askHandler(c) \/ cacheGet(c) \/ augmentFacts(c) \/ augmentChunks(c)
            => UNCHANGED <<llm, call, result, upstream>> /\ cancelled \subseteq cancelled'
      BY <1>1 DEF queryParse, askHandler, cacheGet, augmentFacts, augmentChunks
    <3>2. emitDelta(c) \/ cachePut(c) => UNCHANGED <<llm, call, result, upstream>> /\ cancelled \subseteq cancelled'
      BY <1>1 DEF emitDelta, cachePut
    <3>3. planAndTerms(c) \/ searchFailed(c) \/ runSynthesis(c) \/ emitDone(c) \/ askAborted(c)
            => UNCHANGED <<llm, call, result, upstream>> /\ cancelled \subseteq cancelled'
      BY DEF planAndTerms, searchFailed, runSynthesis, emitDone, askAborted, writeSSEProblem, EndStream
    <3> QED BY <2>1, <3>1, <3>2, <3>3
  <2> QED BY <1>2, <2>1 DEF AskNext
<1> QED BY <1>1, <1>2 DEF Next, Finished, vars

LEMMA ChainNext == ChainInv /\ [Next]_vars => ChainInv'
<1>1. ASSUME ChainInv, UNCHANGED <<llm, call, upstream>> PROVE ChainInv'
  <2>1. Calls' = Calls /\ CallColumns' = CallColumns
    BY <1>1 DEF Calls, CallColumns
  <2>2. ASSUME NEW k \in Calls PROVE (Walk(k) /\ Walked(k) /\ Bounded(k))'
    BY <1>1, WalkStands DEF ChainInv
  <2> QED BY <1>1, <2>1, <2>2 DEF ChainInv
<1> QED BY <1>1, OnlyCompletionsWalk, CompletionWalks

(* Complete of a provider is called once for a model in an attempt, with at    *)
(* most three requests each time; it is not called for a model that is not     *)
(* allowed or that it does not know, nor after the answer: for every           *)
(* configuration that names each provider once.  The three are two retries of  *)
(* the client library, its default, which New leaves as it is.                 *)
THEOREM CallsAreAlwaysBounded == Spec => []CallsAreBounded
<1>1. ChainInv => CallsAreBounded
  BY DEF ChainInv, Bounded, CallsAreBounded
<1> QED BY <1>1, ChainInit, ChainNext, PTL DEF Spec

-----------------------------------------------------------------------------
(* A model was asked for in this attempt as far as it can be: of each provider *)
(* that knows it, or up to an empty answer or a deadline.                      *)
Tried(k, model, i) ==
  \/ \E u \in Range(upstream[k]) : u.model = model /\ u.outcome = "empty" /\ u.attempt <= i
  \/ \E u \in Range(upstream[k]) : u.model = model /\ u.outcome = "deadline" /\ u.attempt = i
  \/ \A p \in Range(Providers) : Maps(p, model) => TriedAt(k, model, p, i) # {}

Spent(k, model) == \A i \in 1..maxAttemptsPerModel : Tried(k, model, i)

(* Where the walk of a caller that stays is: the models behind it are spent,   *)
(* the one it asks for was tried in the attempts before this one, and in this  *)
(* one at the providers before the next; and a failure has spent all.          *)
Exhausted(k) ==
  /\ call[k].step # "done" => result[k].code = "none"
  /\ call[k].step = "new" => call[k].attempt = 1 /\ call[k].next = 1
  /\ k \notin cancelled =>
       /\ call[k].step = "calling" =>
            /\ \A model \in Range(modelChain(Task(k))) \ Range(call[k].chain) : Spent(k, model)
            /\ \A i \in 1..(call[k].attempt - 1) : Tried(k, Model(k), i)
            /\ \A j \in 1..(call[k].next - 1) :
                 Maps(Providers[j], Model(k)) => TriedAt(k, Model(k), Providers[j], call[k].attempt) # {}
       /\ result[k].code = "Internal" => \A model \in Range(modelChain(Task(k))) : Spent(k, model)

ExhaustInv ==
  /\ DOMAIN result = Calls /\ result = [k \in Calls |-> result[k]]
  /\ \A k \in Calls : Exhausted(k)

LEMMA ExhaustInit == Init => ExhaustInv
<1> SUFFICES ASSUME Init PROVE ExhaustInv
  OBVIOUS
<1>1. result = [k \in Calls |-> [code |-> "none"]]
  BY DEF Init, LlmInit
<1>2. call = [k \in Calls |-> [step |-> "new", chain |-> << >>, attempt |-> 1, next |-> 1, err |-> "none"]]
  BY DEF Init, LlmInit
<1> QED BY <1>1, <1>2 DEF ExhaustInv, Exhausted

(* What was tried stays tried, whatever is asked for next.                     *)
LEMMA TriedStays ==
  ASSUME NEW k, NEW model, NEW i, UNCHANGED llm, Range(upstream[k]) \subseteq Range(upstream'[k]), Tried(k, model, i)
  PROVE  Tried(k, model, i)'
BY DEF Tried, TriedAt, Providers, Maps

LEMMA OneExhausts ==
  ASSUME ExhaustInv, NEW k \in Calls, UNCHANGED <<llm, cancelled>>, NEW answer,
         result' = [result EXCEPT ![k] = answer],
         \A n \in Calls \ {k} : call'[n] = call[n] /\ upstream'[n] = upstream[n],
         Exhausted(k)'
  PROVE  ExhaustInv'
<1>1. Calls' = Calls /\ DOMAIN result' = Calls /\ result' = [n \in Calls |-> result'[n]]
  BY DEF Calls, ExhaustInv
<1>2. ASSUME NEW n \in Calls \ {k} PROVE Exhausted(n)'
  <2>1. result'[n] = result[n] /\ call'[n] = call[n] /\ upstream'[n] = upstream[n]
    BY DEF ExhaustInv
  <2>2. Exhausted(n)
    BY DEF ExhaustInv
  <2>3. \A model, i : Tried(n, model, i) = Tried(n, model, i)'
    BY <2>1 DEF Tried, TriedAt, Providers, Maps
  <2>4. modelChain(Task(n))' = modelChain(Task(n)) /\ Model(n)' = Model(n)
    BY <2>1 DEF modelChain, Task, Model
  <2>5. \A model, p, i : TriedAt(n, model, p, i)' = TriedAt(n, model, p, i)
    BY <2>1 DEF TriedAt
  <2>6. \A model : Spent(n, model)' = Spent(n, model)
    BY <2>3 DEF Spent
  <2>7. Providers' = Providers
    BY DEF Providers
  <2> QED BY <2>1, <2>2, <2>3, <2>4, <2>5, <2>6, <2>7 DEF Exhausted, Maps
<1> QED BY <1>1, <1>2 DEF ExhaustInv

(* The model is spent, or nobody waits: the walk goes on to the next one, or   *)
(* fails after the last.                                                      *)
LEMMA NextModelExhausts ==
  ASSUME ChainInv, ExhaustInv, NEW k \in Calls, call[k].step = "calling", UNCHANGED <<llm, cancelled>>, NEW err,
         NextModel(k, err), Range(upstream[k]) \subseteq Range(upstream'[k]),
         \A n \in Calls \ {k} : upstream'[n] = upstream[n],
         NEW asked, asked = Model(k), k \in cancelled \/ \A i \in 1..maxAttemptsPerModel : Tried(k, asked, i)'
  PROVE  ExhaustInv'
<1> DEFINE chain == call[k].chain
<1>1. /\ chain \in Seq(llm.allowlist) /\ chain # << >> /\ Model(k) = chain[1] /\ call[k] \in CallColumns
  BY Calling
<1>2. DOMAIN call = Calls /\ DOMAIN result = Calls /\ result[k].code = "none"
  BY DEF ChainInv, ExhaustInv, Exhausted
<1>3. modelChain(Task(k))' = modelChain(Task(k))
  BY DEF modelChain, Task
<1>4. \A model, i : Tried(k, model, i) => Tried(k, model, i)'
  BY TriedStays
<1>5. ASSUME k \notin cancelled, NEW model \in Range(modelChain(Task(k))), model \notin Range(chain) \/ model = asked
      PROVE  Spent(k, model)'
  <2>1. CASE model \notin Range(chain)
    <3>1. Spent(k, model)
      BY <1>5, <2>1 DEF ExhaustInv, Exhausted
    <3> QED BY <1>4, <3>1 DEF Spent
  <2>2. CASE model = asked
    <3>1. \A i \in 1..maxAttemptsPerModel : Tried(k, asked, i)'
      BY <1>5
    <3> QED BY <2>2, <3>1 DEF Spent
  <2> QED BY <1>5, <2>1, <2>2
<1>6. CASE Len(chain) = 1
  <2>1. /\ result' = [result EXCEPT ![k] = [code |-> mapError(err)]]
        /\ call'[k].step = "done" /\ \A n \in Calls \ {k} : call'[n] = call[n]
    BY <1>1, <1>2, <1>6 DEF NextModel, Fail, CallColumns
  <2>2. Range(chain) = {asked}
    BY <1>1, <1>6, LenProperties DEF Range
  <2>3. ASSUME k \notin cancelled, NEW model \in Range(modelChain(Task(k))) PROVE Spent(k, model)'
    BY <1>5, <2>2, <2>3
  <2>4. Exhausted(k)'
    BY <1>3, <2>1, <2>3 DEF Exhausted
  <2> QED BY <2>1, <2>4, OneExhausts
<1>7. CASE Len(chain) # 1
  <2>1. /\ call'[k].step = "calling" /\ call'[k].chain = Tail(chain) /\ call'[k].attempt = 1 /\ call'[k].next = 1
        /\ \A n \in Calls \ {k} : call'[n] = call[n]
        /\ result' = result
    <3> DEFINE rest == Tail(chain)
               fields == [call[k] EXCEPT !.chain = rest, !.attempt = 1, !.next = 1, !.err = err]
    <3>1. call' = [call EXCEPT ![k] = fields] /\ result' = result
      BY <1>7 DEF NextModel
    <3>2. fields = [call[k] EXCEPT !.chain = rest, !.attempt = 1, !.next = 1, !.err = err]
      OBVIOUS
    <3> HIDE DEF fields, rest
    <3>3. \A r \in CallColumns : \A f : f = [r EXCEPT !.chain = rest, !.attempt = 1, !.next = 1, !.err = err]
            => f.step = r.step /\ f.chain = rest /\ f.attempt = 1 /\ f.next = 1
      BY Zenon DEF CallColumns
    <3>4. fields.step = call[k].step /\ fields.chain = rest /\ fields.attempt = 1 /\ fields.next = 1
      BY <1>1, <3>2, <3>3, Zenon
    <3> QED BY <1>2, <3>1, <3>4 DEF rest
  <2>2. Range(chain) \ Range(Tail(chain)) \subseteq {asked}
    <3> DEFINE n == Len(chain)
               rest == Tail(chain)
    <3>1. n \in Nat /\ DOMAIN chain = 1..n /\ n # 0
      BY <1>1, LenProperties, EmptySeq
    <3>2. rest \in Seq(llm.allowlist) /\ Len(rest) = n - 1 /\ \A i \in 1..Len(rest) : rest[i] = chain[i + 1]
      BY <1>1, HeadTailProperties
    <3>3. DOMAIN rest = 1..(n - 1)
      BY <3>2, LenProperties
    <3> SUFFICES ASSUME NEW i \in 1..n, chain[i] # chain[1] PROVE chain[i] \in Range(rest)
      BY <1>1, <3>1 DEF Range
    <3> HIDE DEF n, rest, chain
    <3>4. i - 1 \in 1..(n - 1) /\ (i - 1) + 1 = i
      BY <3>1
    <3>5. rest[i - 1] = chain[i]
      BY <3>2, <3>4
    <3> QED BY <3>3, <3>4, <3>5 DEF Range
  <2>3. ASSUME k \notin cancelled, NEW model \in Range(modelChain(Task(k))) \ Range(Tail(chain)) PROVE Spent(k, model)'
    BY <1>5, <2>2, <2>3
  <2>4. Exhausted(k)'
    BY <1>2, <1>3, <2>1, <2>3 DEF Exhausted
  <2>5. result' = [result EXCEPT ![k] = result[k]]
    BY <1>2, <2>1 DEF ExhaustInv
  <2> QED BY <2>1, <2>4, <2>5, OneExhausts
<1> QED BY <1>6, <1>7

LEMMA EndAttemptExhausts ==
  ASSUME ChainInv, ExhaustInv, NEW k \in Calls, call[k].step = "calling", UNCHANGED <<llm, cancelled>>, NEW err,
         EndAttempt(k, err), Range(upstream[k]) \subseteq Range(upstream'[k]),
         \A n \in Calls \ {k} : upstream'[n] = upstream[n],
         NEW asked, asked = Model(k), NEW i, i = call[k].attempt,
         k \in cancelled \/ Tried(k, asked, i)'
  PROVE  ExhaustInv'
<1>1. call[k] \in CallColumns /\ i \in 1..maxAttemptsPerModel /\ DOMAIN call = Calls
  BY Calling DEF CallColumns, ChainInv
<1>2. ASSUME k \notin cancelled, NEW n \in 1..i PROVE Tried(k, asked, n)'
  <2>1. CASE n = i
    BY <1>2, <2>1
  <2>2. CASE n # i
    <3>1. n \in 1..(i - 1)
      BY <1>1, <2>2
    <3>2. Tried(k, asked, n)
      BY <1>2, <3>1 DEF ExhaustInv, Exhausted
    <3> QED BY <3>2, TriedStays
  <2> QED BY <2>1, <2>2
<1>3. CASE /\ NextModel(k, err)
           /\ k \in cancelled \/ call[k].attempt = maxAttemptsPerModel
  <2>1. k \in cancelled \/ \A n \in 1..maxAttemptsPerModel : Tried(k, asked, n)'
    BY <1>2, <1>3
  <2> QED BY <1>3, <2>1, NextModelExhausts
<1>4. CASE /\ ~(k \in cancelled \/ call[k].attempt = maxAttemptsPerModel)
           /\ call' = [call EXCEPT ![k].attempt = @ + 1, ![k].next = 1, ![k].err = err] /\ UNCHANGED result
  <2> DEFINE a == call[k].attempt + 1
             fields == [call[k] EXCEPT !.attempt = a, !.next = 1, !.err = err]
  <2>1. call' = [call EXCEPT ![k] = fields]
    BY <1>4
  <2>2. fields = [call[k] EXCEPT !.attempt = a, !.next = 1, !.err = err]
    OBVIOUS
  <2> HIDE DEF fields, a
  <2>3. \A r \in CallColumns : \A f : f = [r EXCEPT !.attempt = a, !.next = 1, !.err = err]
          => f.step = r.step /\ f.chain = r.chain /\ f.attempt = a /\ f.next = 1
    BY Zenon DEF CallColumns
  <2>4. fields.step = call[k].step /\ fields.chain = call[k].chain /\ fields.attempt = a /\ fields.next = 1
    BY <1>1, <2>2, <2>3, Zenon
  <2>5. /\ call'[k].step = "calling" /\ call'[k].chain = call[k].chain /\ call'[k].attempt = i + 1 /\ call'[k].next = 1
        /\ \A n \in Calls \ {k} : call'[n] = call[n]
    BY <1>1, <2>1, <2>4 DEF a
  <2>6. modelChain(Task(k))' = modelChain(Task(k)) /\ Model(k)' = asked
    BY <2>5 DEF modelChain, Task, Model
  <2>7. result[k].code = "none" /\ result'[k] = result[k] /\ result' = [result EXCEPT ![k] = result[k]]
    BY <1>4 DEF ExhaustInv, Exhausted
  <2>8. ASSUME k \notin cancelled, NEW model \in Range(modelChain(Task(k))) \ Range(call[k].chain) PROVE Spent(k, model)'
    <3>1. Spent(k, model)
      BY <2>8 DEF ExhaustInv, Exhausted
    <3> QED BY <3>1, TriedStays DEF Spent
  <2>9. ASSUME k \notin cancelled, NEW n \in 1..(call'[k].attempt - 1) PROVE Tried(k, asked, n)'
    BY <1>1, <1>2, <2>5, <2>9
  <2>10. Exhausted(k)'
    BY <2>5, <2>6, <2>7, <2>8, <2>9 DEF Exhausted
  <2> QED BY <2>5, <2>7, <2>10, OneExhausts
<1> QED BY <1>3, <1>4 DEF EndAttempt

(* The next provider: the one before it was asked, or does not know the model. *)
LEMMA NextProviderExhausts ==
  ASSUME ChainInv, ExhaustInv, NEW k \in Calls, call[k].step = "calling", UNCHANGED <<llm, cancelled, result>>,
         NEW fields, call' = [call EXCEPT ![k] = fields], fields.step = "calling", fields.chain = call[k].chain,
         fields.attempt = call[k].attempt, fields.next = call[k].next + 1,
         Range(upstream[k]) \subseteq Range(upstream'[k]), \A n \in Calls \ {k} : upstream'[n] = upstream[n],
         NEW asked, asked = Model(k), NEW i, i = call[k].attempt, NEW next, next = call[k].next,
         NEW p, p = Providers[next], Maps(p, asked) => TriedAt(k, asked, p, i)' # {}
  PROVE  ExhaustInv'
<1>1. call[k] \in CallColumns /\ next \in Nat /\ DOMAIN call = Calls
  BY Calling DEF CallColumns, ChainInv
<1>2. call'[k] = fields /\ \A n \in Calls \ {k} : call'[n] = call[n]
  BY <1>1
<1>3. modelChain(Task(k))' = modelChain(Task(k)) /\ Model(k)' = asked /\ Providers' = Providers
  BY <1>2 DEF modelChain, Task, Model, Providers
<1>4. result[k].code = "none" /\ result'[k] = result[k] /\ result' = [result EXCEPT ![k] = result[k]]
  BY DEF ExhaustInv, Exhausted
<1>5. ASSUME k \notin cancelled, NEW model \in Range(modelChain(Task(k))) \ Range(call[k].chain) PROVE Spent(k, model)'
  <2>1. Spent(k, model)
    BY <1>5 DEF ExhaustInv, Exhausted
  <2> QED BY <2>1, TriedStays DEF Spent
<1>6. ASSUME k \notin cancelled, NEW n \in 1..(i - 1) PROVE Tried(k, asked, n)'
  <2>1. Tried(k, asked, n)
    BY <1>6 DEF ExhaustInv, Exhausted
  <2> QED BY <2>1, TriedStays
<1>7. ASSUME k \notin cancelled, NEW j \in 1..next, NEW q, q = Providers[j], Maps(q, asked)
      PROVE  TriedAt(k, asked, q, i)' # {}
  <2>1. CASE j = next
    BY <1>7, <2>1
  <2>2. CASE j # next
    <3>1. j \in 1..(next - 1)
      BY <1>1, <2>2
    <3>2. TriedAt(k, asked, q, i) # {}
      BY <1>7, <3>1 DEF ExhaustInv, Exhausted
    <3> QED BY <3>2 DEF TriedAt
  <2> QED BY <2>1, <2>2
<1>8. Exhausted(k)'
  <2>1. fields.next - 1 = next
    BY <1>1
  <2>2. /\ call'[k].step = "calling" /\ call'[k].chain = call[k].chain /\ call'[k].attempt = i
        /\ call'[k].next - 1 = next
    BY <1>2, <2>1
  <2>4. ASSUME k \notin cancelled, NEW j \in 1..(call'[k].next - 1), Maps(Providers[j], Model(k))'
        PROVE  TriedAt(k, Model(k), Providers[j], call[k].attempt)' # {}
    <3>1. PICK q : q = Providers[j]
      OBVIOUS
    <3>2. j \in 1..next /\ Maps(q, asked)
      BY <1>3, <2>2, <2>4, <3>1 DEF Maps
    <3>3. TriedAt(k, asked, q, i)' # {}
      BY <1>7, <2>4, <3>1, <3>2
    <3> QED BY <1>3, <2>2, <3>1, <3>3 DEF TriedAt
  <2>5. k \notin cancelled' => \A n \in 1..(call'[k].attempt - 1) : Tried(k, Model(k), n)'
    BY <1>3, <1>6, <2>2
  <2>6. k \notin cancelled' => \A model \in Range(modelChain(Task(k)))' \ Range(call[k].chain)' : Spent(k, model)'
    BY <1>3, <1>5, <2>2 DEF Range
  <2> QED BY <1>4, <2>2, <2>4, <2>5, <2>6 DEF Exhausted
<1> QED BY <1>2, <1>4, <1>8, OneExhausts

LEMMA AskedMore ==
  ASSUME ChainInv, NEW k \in Calls, Reachable(k), NEW outcome, Reached(k, outcome)
  PROVE  /\ Range(upstream[k]) \subseteq Range(upstream'[k])
         /\ \E u \in Range(upstream'[k]) : IsAsked(u, k, outcome)
         /\ \A n \in Calls \ {k} : upstream'[n] = upstream[n]
<1>0. PICK requests \in 1..(maxRetries + 1) :
        upstream' = [upstream EXCEPT ![k] = Append(@, [model |-> Model(k), outcome |-> outcome,
                                                       provider |-> Providers[call[k].next].name,
                                                       attempt |-> call[k].attempt,
                                                       requests |-> requests])]
  BY DEF Reached
<1> DEFINE e == [model |-> Model(k), outcome |-> outcome, provider |-> Providers[call[k].next].name,
                 attempt |-> call[k].attempt, requests |-> requests]
           l == Len(upstream[k])
<1>1. call[k].step = "calling" /\ upstream[k] \in Seq(Entries)
  BY Calling DEF Reachable
<1>2. upstream'[k] = Append(upstream[k], e) /\ \A n \in Calls \ {k} : upstream'[n] = upstream[n]
  BY <1>0 DEF ChainInv
<1>21. IsAsked(e, k, outcome)
  BY DEF IsAsked
<1>3. upstream[k] \in Seq(Entries \cup {e}) /\ e \in Entries \cup {e}
  BY <1>1, SeqMonotonic
<1> HIDE DEF e
<1>4. /\ l \in Nat /\ DOMAIN upstream[k] = 1..l
      /\ upstream'[k] \in Seq(Entries \cup {e}) /\ Len(upstream'[k]) = l + 1
      /\ \A n \in 1..l : upstream'[k][n] = upstream[k][n]
      /\ upstream'[k][l + 1] = e
  BY <1>2, <1>3, AppendProperties, LenProperties
<1>5. DOMAIN upstream'[k] = 1..(l + 1)
  BY <1>4, LenProperties
<1> HIDE DEF l
<1>6. \A n \in 1..l : n \in 1..(l + 1) /\ l + 1 \in 1..(l + 1)
  BY <1>4
<1>7. l + 1 \in 1..(l + 1)
  BY <1>4
<1>8. Range(upstream[k]) \subseteq Range(upstream'[k]) /\ e \in Range(upstream'[k])
  BY <1>4, <1>5, <1>6, <1>7 DEF Range
<1> QED BY <1>2, <1>8, <1>21

LEMMA StartExhausts == ASSUME ChainInv, ExhaustInv, NEW k \in Calls, Complete(k) PROVE ExhaustInv'
<1>1. call[k].step = "new" /\ UNCHANGED <<llm, upstream, cancelled>> /\ call[k] \in CallColumns /\ DOMAIN call = Calls
  BY DEF Complete, ChainInv
<1>2. CASE Fail(k, "unknown task") \/ Fail(k, "model not allowed")
  <2>1. PICK err \in {"unknown task", "model not allowed"} : Fail(k, err)
    BY <1>2
  <2>2. mapError(err) # "Internal"
    BY <2>1 DEF mapError
  <2>3. call'[k].step = "done" /\ \A n \in Calls \ {k} : call'[n] = call[n]
    BY <1>1, <2>1 DEF Fail, CallColumns
  <2>4. result' = [result EXCEPT ![k] = [code |-> mapError(err)]]
    BY <2>1 DEF Fail
  <2>5. result'[k].code = mapError(err)
    BY <2>4 DEF ExhaustInv
  <2>6. Exhausted(k)'
    BY <2>2, <2>3, <2>5 DEF Exhausted
  <2> QED BY <1>1, <2>3, <2>4, <2>6, OneExhausts
<1>3. CASE /\ call' = [call EXCEPT ![k].step = "calling", ![k].chain = modelChain(Task(k))] /\ UNCHANGED result
  <2> DEFINE chain == modelChain(Task(k))
             fields == [call[k] EXCEPT !.step = "calling", !.chain = chain]
  <2>1. call' = [call EXCEPT ![k] = fields]
    BY <1>3
  <2>2. fields = [call[k] EXCEPT !.step = "calling", !.chain = chain]
    OBVIOUS
  <2> HIDE DEF fields, chain
  <2>3. \A r \in CallColumns : \A f : f = [r EXCEPT !.step = "calling", !.chain = chain]
          => f.step = "calling" /\ f.chain = chain /\ f.attempt = r.attempt /\ f.next = r.next
    BY Zenon DEF CallColumns
  <2>4. call'[k].chain = chain /\ call'[k].attempt = call[k].attempt /\ call'[k].next = call[k].next
        /\ call'[k].step = "calling" /\ \A n \in Calls \ {k} : call'[n] = call[n]
    <3>1. call'[k] = fields /\ \A n \in Calls \ {k} : call'[n] = call[n]
      BY <1>1, <2>1
    <3>2. fields.step = "calling" /\ fields.chain = chain /\ fields.attempt = call[k].attempt
          /\ fields.next = call[k].next
      BY <1>1, <2>2, <2>3, Zenon
    <3> QED BY <3>1, <3>2
  <2>5. call[k].attempt = 1 /\ call[k].next = 1
    BY <1>1 DEF ExhaustInv, Exhausted
  <2>6. result[k].code = "none" /\ result' = [result EXCEPT ![k] = result[k]] /\ result'[k] = result[k]
    BY <1>1, <1>3 DEF ExhaustInv, Exhausted
  <2>7. modelChain(Task(k))' = chain
    BY <1>1 DEF chain, modelChain, Task
  <2>8. Exhausted(k)'
    BY <2>4, <2>5, <2>6, <2>7 DEF Exhausted
  <2> QED BY <1>1, <2>4, <2>6, <2>8, OneExhausts
<1> QED BY <1>2, <1>3 DEF Complete

LEMMA SkipExhausts == ASSUME ChainInv, ExhaustInv, NEW k \in Calls, SkipProvider(k) PROVE ExhaustInv'
<1>1. /\ call[k].step = "calling" /\ UNCHANGED <<llm, upstream, cancelled, result>>
      /\ ~Maps(Providers[call[k].next], Model(k)) /\ call[k] \in CallColumns
  BY DEF SkipProvider, ChainInv
<1> DEFINE n == call[k].next + 1
           fields == [call[k] EXCEPT !.next = n]
<1>2. call' = [call EXCEPT ![k] = fields] /\ fields = [call[k] EXCEPT !.next = n]
  BY DEF SkipProvider
<1> HIDE DEF n, fields
<1>3. \A r \in CallColumns : \A f : f = [r EXCEPT !.next = n]
        => f.step = r.step /\ f.chain = r.chain /\ f.attempt = r.attempt /\ f.next = n
  BY Zenon DEF CallColumns
<1>4. fields.step = call[k].step /\ fields.chain = call[k].chain /\ fields.attempt = call[k].attempt /\ fields.next = n
  BY <1>1, <1>2, <1>3, Zenon
<1> QED BY <1>1, <1>2, <1>4, NextProviderExhausts DEF n

LEMMA CallExhausts == ASSUME ChainInv, ExhaustInv, NEW k \in Calls, CallProvider(k) PROVE ExhaustInv'
<1>1. /\ Reachable(k) /\ k \notin cancelled /\ UNCHANGED <<llm, cancelled>> /\ call[k].step = "calling"
      /\ call[k] \in CallColumns /\ DOMAIN call = Calls
  BY DEF CallProvider, Reachable, ChainInv
<1>2. PICK asked, i, p : asked = Model(k) /\ i = call[k].attempt /\ p = Providers[call[k].next]
  OBVIOUS
<1>3. i \in 1..maxAttemptsPerModel /\ Maps(p, asked)
  BY <1>1, <1>2 DEF CallColumns, Reachable
<1>4. ASSUME NEW outcome, Reached(k, outcome)
      PROVE  /\ Range(upstream[k]) \subseteq Range(upstream'[k]) /\ \A n \in Calls \ {k} : upstream'[n] = upstream[n]
             /\ \E u \in Range(upstream'[k]) :
                  u.model = asked /\ u.outcome = outcome /\ u.attempt = i /\ u.provider = p.name
  <2>1. /\ Range(upstream[k]) \subseteq Range(upstream'[k]) /\ \A n \in Calls \ {k} : upstream'[n] = upstream[n]
        /\ \E u \in Range(upstream'[k]) : IsAsked(u, k, outcome)
    BY <1>1, <1>4, AskedMore
  <2>2. \A u : IsAsked(u, k, outcome) =>
          u.model = asked /\ u.outcome = outcome /\ u.attempt = i /\ u.provider = p.name
    BY <1>2 DEF IsAsked
  <2> QED BY <2>1, <2>2
<1>5. CASE Succeed(k, Providers[call[k].next]) /\ Reached(k, "answer")
  <2>1. call'[k].step = "done" /\ \A n \in Calls \ {k} : call'[n] = call[n]
    BY <1>1, <1>5 DEF Succeed, CallColumns
  <2>2. PICK answer : result' = [result EXCEPT ![k] = answer] /\ answer.code = "OK"
    <3>1. PICK valid : result' = [result EXCEPT ![k] = [code |-> "OK", model |-> Model(k),
                                                        provider |-> Providers[call[k].next].name, valid |-> valid]]
      BY <1>5 DEF Succeed
    <3> DEFINE given == [code |-> "OK", model |-> Model(k), provider |-> Providers[call[k].next].name, valid |-> valid]
    <3>2. result' = [result EXCEPT ![k] = given] /\ given.code = "OK"
      BY <3>1
    <3> HIDE DEF given
    <3> QED BY <3>2
  <2>3. result'[k].code = "OK"
    BY <2>2 DEF ExhaustInv
  <2>4. Exhausted(k)'
    BY <2>1, <2>3 DEF Exhausted
  <2>5. \A n \in Calls \ {k} : upstream'[n] = upstream[n]
    BY <1>4, <1>5
  <2> QED BY <1>1, <2>1, <2>2, <2>4, <2>5, OneExhausts
<1>6. CASE NextModel(k, "empty response") /\ Reached(k, "empty")
  <2>1. /\ Range(upstream[k]) \subseteq Range(upstream'[k]) /\ \A n \in Calls \ {k} : upstream'[n] = upstream[n]
        /\ \E u \in Range(upstream'[k]) : u.model = asked /\ u.outcome = "empty" /\ u.attempt = i
    BY <1>4, <1>6
  <2>2. ASSUME NEW n \in 1..maxAttemptsPerModel PROVE Tried(k, asked, n)'
    <3>1. CASE n < i
      <4>1. n \in 1..(i - 1)
        BY <1>3, <3>1
      <4>2. Tried(k, asked, n)
        BY <1>1, <1>2, <4>1 DEF ExhaustInv, Exhausted
      <4> QED BY <1>1, <2>1, <4>2, TriedStays
    <3>2. CASE ~(n < i)
      <4>1. i <= n
        BY <1>3, <3>2
      <4> QED BY <2>1, <4>1 DEF Tried, Range
    <3> QED BY <3>1, <3>2
  <2> QED BY <1>1, <1>2, <1>6, <2>1, <2>2, NextModelExhausts
<1>7. CASE call' = [call EXCEPT ![k].next = @ + 1, ![k].err = "upstream"] /\ Reached(k, "error") /\ UNCHANGED result
  <2> DEFINE n == call[k].next + 1
             fields == [call[k] EXCEPT !.next = n, !.err = "upstream"]
  <2>1. call' = [call EXCEPT ![k] = fields] /\ fields = [call[k] EXCEPT !.next = n, !.err = "upstream"]
    BY <1>7
  <2> HIDE DEF n, fields
  <2>2. \A r \in CallColumns : \A f : f = [r EXCEPT !.next = n, !.err = "upstream"]
          => f.step = r.step /\ f.chain = r.chain /\ f.attempt = r.attempt /\ f.next = n
    BY Zenon DEF CallColumns
  <2>3. /\ fields.step = call[k].step /\ fields.chain = call[k].chain /\ fields.attempt = call[k].attempt
        /\ fields.next = n
    BY <1>1, <2>1, <2>2, Zenon
  <2>4. /\ Range(upstream[k]) \subseteq Range(upstream'[k]) /\ \A m \in Calls \ {k} : upstream'[m] = upstream[m]
        /\ \E u \in Range(upstream'[k]) : u.model = asked /\ u.attempt = i /\ u.provider = p.name
    BY <1>4, <1>7
  <2>5. TriedAt(k, asked, p, i)' # {}
    BY <2>4 DEF TriedAt, Range
  <2>6. fields.step = "calling" /\ fields.next = call[k].next + 1
    BY <1>1, <2>3 DEF n
  <2>7. UNCHANGED <<llm, cancelled, result>>
    BY <1>1, <1>7
  <2> QED BY <1>1, <1>2, <2>1, <2>3, <2>4, <2>5, <2>6, <2>7, NextProviderExhausts
<1>8. CASE EndAttempt(k, "deadline") /\ Reached(k, "deadline")
  <2>1. /\ Range(upstream[k]) \subseteq Range(upstream'[k]) /\ \A m \in Calls \ {k} : upstream'[m] = upstream[m]
        /\ \E u \in Range(upstream'[k]) : u.model = asked /\ u.outcome = "deadline" /\ u.attempt = i
    BY <1>4, <1>8
  <2>2. Tried(k, asked, i)'
    BY <2>1 DEF Tried, Range
  <2> QED BY <1>1, <1>2, <1>8, <2>1, <2>2, EndAttemptExhausts
<1> QED BY <1>5, <1>6, <1>7, <1>8 DEF CallProvider

LEMMA GiveUpExhausts ==
  ASSUME ChainInv, ExhaustInv, NEW k \in Calls, CallWithoutCaller(k) \/ NoProviderLeft(k)
  PROVE  ExhaustInv'
<1>1. call[k].step = "calling" /\ UNCHANGED <<llm, upstream, cancelled>>
  BY DEF CallWithoutCaller, NoProviderLeft, Reachable
<1>2. PICK asked, i : asked = Model(k) /\ i = call[k].attempt
  OBVIOUS
<1>3. CASE CallWithoutCaller(k)
  BY <1>1, <1>2, <1>3, NextModelExhausts DEF CallWithoutCaller
<1>4. CASE NoProviderLeft(k)
  <2>1. PICK err : EndAttempt(k, err)
    BY <1>4 DEF NoProviderLeft
  <2>2. call[k].next > Len(Providers) /\ call[k].next \in Nat /\ Len(Providers) \in Nat
        /\ DOMAIN Providers = 1..Len(Providers)
    BY <1>1, <1>4, ProvidersAre, Calling DEF NoProviderLeft, CallColumns
  <2>3. ASSUME k \notin cancelled, NEW p \in Range(Providers), Maps(p, asked) PROVE TriedAt(k, asked, p, i) # {}
    <3>1. PICK j \in DOMAIN Providers : p = Providers[j]
      BY DEF Range
    <3>2. j \in 1..(call[k].next - 1)
      BY <2>2
    <3> QED BY <1>1, <1>2, <2>3, <3>1, <3>2 DEF ExhaustInv, Exhausted
  <2>4. k \in cancelled \/ Tried(k, asked, i)
    BY <2>3 DEF Tried
  <2>5. k \in cancelled \/ Tried(k, asked, i)'
    BY <1>1, <2>4, TriedStays
  <2> QED BY <1>1, <1>2, <2>1, <2>5, EndAttemptExhausts
<1> QED BY <1>3, <1>4

LEMMA CompletionExhausts == ASSUME ChainInv, ExhaustInv, NEW k \in Calls, LlmStep(k) PROVE ExhaustInv'
BY StartExhausts, SkipExhausts, CallExhausts, GiveUpExhausts DEF LlmStep

LEMMA ExhaustNext == ChainInv /\ ExhaustInv /\ [Next]_vars => ExhaustInv'
<1>1. ASSUME ChainInv, ExhaustInv, UNCHANGED <<llm, call, result, upstream>>, cancelled \subseteq cancelled'
      PROVE  ExhaustInv'
  <2>1. \A k, model, i : Tried(k, model, i) <=> Tried(k, model, i)'
    BY <1>1 DEF Tried, TriedAt, Providers, Maps
  <2>2. \A k, model : Spent(k, model) <=> Spent(k, model)'
    BY <2>1 DEF Spent
  <2>3. \A k : modelChain(Task(k))' = modelChain(Task(k)) /\ Model(k)' = Model(k)
    BY <1>1 DEF modelChain, Task, Model
  <2>4. Providers' = Providers /\ Calls' = Calls /\ \A k, model, p, i : TriedAt(k, model, p, i)' = TriedAt(k, model, p, i)
    BY <1>1 DEF Providers, Calls, TriedAt
  <2>5. ASSUME NEW k \in Calls PROVE Exhausted(k)'
    <3>1. Exhausted(k)
      BY <1>1 DEF ExhaustInv
    <3> QED BY <1>1, <2>1, <2>2, <2>3, <2>4, <3>1 DEF Exhausted, Maps
  <2> QED BY <1>1, <2>4, <2>5 DEF ExhaustInv
<1> QED BY <1>1, OnlyCompletionsWalk, CompletionExhausts

(* A completion that fails upstream, for a caller that stays, has asked every   *)
(* provider that knows a model of its chain, in both attempts, up to a          *)
(* deadline or an empty answer: for every configuration of providers and        *)
(* tasks, whatever other completions and requests do.                           *)
THEOREM FailureIsAlwaysExhaustive == Spec => []FailureIsExhaustive
<1>1. ExhaustInv => FailureIsExhaustive
  BY DEF ExhaustInv, Exhausted, Spent, Tried, FailureIsExhaustive
<1> QED BY <1>1, ChainInit, ChainNext, ExhaustInit, ExhaustNext, PTL DEF Spec
-----------------------------------------------------------------------------
(* The names of a bundle are a fold over its items: a recursive function on   *)
(* the sets of their places.  What holds of it is shown of the smallest set   *)
(* of places it might not hold of.                                            *)
Family(C, S) == IsFiniteSet(S) /\ C \subseteq SUBSET S /\ C # {}
HasSmallest(C) == \E U \in C : \A V \in C : V \subseteq U => V = U

LEMMA SmallestSet ==
  ASSUME NEW S, NEW C, Family(C, S)
  PROVE  HasSmallest(C)
<1>5. IsFiniteSet(S) /\ C \subseteq SUBSET S /\ C # {}
  BY DEF Family
<1>1. C \subseteq FiniteSubsetsOf(S)
  BY <1>5, FS_Subset DEF FiniteSubsetsOf
<1>4. IsWellFoundedOn(StrictSubsetOrdering(S), FiniteSubsetsOf(S))
  BY <1>5, FS_StrictSubsetOrderingWellFounded
<1>2. PICK U \in C : \A V \in C : ~ (<<V, U>> \in StrictSubsetOrdering(S))
  <2>1. PICK T : T = FiniteSubsetsOf(S)
    OBVIOUS
  <2>2. PICK O : O = StrictSubsetOrdering(S)
    OBVIOUS
  <2>3. IsWellFoundedOn(O, T) /\ C \subseteq T /\ C # {}
    BY <1>1, <1>4, <1>5, <2>1, <2>2
  <2>4. \E U \in C : \A V \in C : ~ (<<V, U>> \in O)
    BY <2>3, WFMin
  <2> QED BY <2>2, <2>4
<1>3. \A V \in C : V \subseteq U => V = U
  BY <1>2, <1>5 DEF StrictSubsetOrdering
<1> QED BY <1>3 DEF HasSmallest

(* Of the sets of the numbers not below one of a set one is the smallest.     *)
LEMMA FiniteSetHasMax ==
  ASSUME NEW S, S \subseteq Int, IsFiniteSet(S), S # {}
  PROVE  Max(S) \in S
<1> DEFINE Above(x) == {y \in S : y >= x}
           T == {Above(x) : x \in S}
<1>1. Family(T, S)
  BY DEF Family
<1>2. PICK U \in T : \A V \in T : V \subseteq U => V = U
  <2> HIDE DEF T
  <2> QED BY <1>1, SmallestSet DEF HasSmallest
<1>3. PICK m \in S : U = Above(m)
  BY <1>2
<1>4. ASSUME NEW y \in S PROVE m >= y
  <2>1. CASE y > m
    <3>1. \A z \in Above(y) : z \in Above(m)
      <4> SUFFICES ASSUME NEW z \in S, z >= y PROVE z >= m
        OBVIOUS
      <4>1. m \in Int /\ y \in Int /\ z \in Int
        OBVIOUS
      <4> QED BY <2>1, <4>1
    <3>2. m \in Above(m) /\ m \notin Above(y)
      BY <2>1
    <3>3. Above(y) \in T
      OBVIOUS
    <3> HIDE DEF Above, T
    <3>4. Above(y) = U
      BY <1>2, <1>3, <3>1, <3>3
    <3> QED BY <1>3, <3>2, <3>4
  <2>2. m \in Int /\ y \in Int
    OBVIOUS
  <2> QED BY <2>1, <2>2
<1> HIDE DEF Above, T
<1> QED BY <1>4 DEF Max

FoldOn(h, base, items, S) ==
  h = [s \in SUBSET S |-> IF s = {} THEN base ELSE WithItem(h[s \ {Max(s)}], items[Max(s)])]

LEMMA IndexIsFold ==
  ASSUME NEW base, base = [index |-> commit.resolved, drafts |-> {}],
         NEW items, items = Bundle.entities \o Bundle.candidates
  PROVE  IndexedNames = (CHOOSE h : FoldOn(h, base, items, DOMAIN items))[DOMAIN items]
BY Zenon DEF IndexedNames, FoldLeft, MapThenFoldSet, FoldOn

ContainedIn(s, S) == s \in SUBSET S
FoldedAt(h, base, items, s) ==
  h[s] = IF s = {} THEN base ELSE WithItem(h[s \ {Max(s)}], items[Max(s)])

LEMMA FoldStep ==
  ASSUME NEW base, NEW items, NEW S, NEW h, NEW s, FoldOn(h, base, items, S), ContainedIn(s, S)
  PROVE  FoldedAt(h, base, items, s)
BY Zenon DEF FoldOn, ContainedIn, FoldedAt

LEMMA FoldsAgree ==
  ASSUME NEW base, NEW items, NEW U, NEW V, NEW h, NEW g, ContainedIn(U, Int), IsFiniteSet(V), ContainedIn(V, U),
         FoldOn(h, base, items, V), FoldOn(g, base, items, U)
  PROVE  h[V] = g[V]
<1> DEFINE C == {W \in SUBSET V : h[W] # g[W]}
<1>1. CASE C = {}
  BY <1>1
<1>2. CASE C # {}
  <2>1. PICK W \in C : \A X \in C : X \subseteq W => X = W
    <3>1. Family(C, V)
      BY <1>2 DEF Family
    <3> HIDE DEF C
    <3> QED BY <3>1, SmallestSet DEF HasSmallest
  <2>2. W \subseteq V /\ ContainedIn(W, V) /\ ContainedIn(W, U) /\ h[W] # g[W] /\ W \subseteq Int
    BY DEF ContainedIn
  <2>7. FoldedAt(h, base, items, W) /\ FoldedAt(g, base, items, W)
    BY <2>2, FoldStep
  <2>3. W # {} /\ IsFiniteSet(W)
    <3>1. W # {}
      BY <2>2, <2>7 DEF FoldedAt
    <3>2. IsFiniteSet(W)
      BY <2>2, FS_Subset
    <3> QED BY <3>1, <3>2
  <2> DEFINE R == W \ {Max(W)}
  <2>4. R \subseteq W /\ R # W /\ R \subseteq V
    BY <2>2, <2>3, FiniteSetHasMax
  <2>5. h[R] = g[R]
    BY <2>1, <2>4
  <2>6. h[W] = WithItem(h[R], items[Max(W)]) /\ g[W] = WithItem(g[R], items[Max(W)])
    BY <2>3, <2>7 DEF FoldedAt
  <2> QED BY <2>2, <2>5, <2>6
<1> QED BY <1>1, <1>2

TheFold(base, items, S) == CHOOSE h : FoldOn(h, base, items, S)
Foldable(base, items, S) == \E h : FoldOn(h, base, items, S)

LEMMA TheFoldIsOne ==
  ASSUME NEW base, NEW items, NEW S, Foldable(base, items, S)
  PROVE  FoldOn(TheFold(base, items, S), base, items, S)
BY Zenon DEF Foldable, TheFold

(* The folds over the subsets that lack a place make up the one over the set. *)
LEMMA FoldExtends ==
  ASSUME NEW base, NEW items, NEW U, U \subseteq Int, IsFiniteSet(U),
         \A V \in SUBSET U : V # U => Foldable(base, items, V)
  PROVE  Foldable(base, items, U)
<1> DEFINE Rest(s) == s \ {Max(s)}
           F(s) == TheFold(base, items, s)
           h == [s \in SUBSET U |-> IF s = {} THEN base ELSE WithItem(F(Rest(s))[Rest(s)], items[Max(s)])]
<1>1. ASSUME NEW s \in SUBSET U, s # {}
      PROVE  /\ Rest(s) \in SUBSET U /\ IsFiniteSet(Rest(s)) /\ Rest(s) \subseteq Int
             /\ FoldOn(F(Rest(s)), base, items, Rest(s))
  <2>1. Max(s) \in s /\ Max(s) \in U
    BY <1>1, FiniteSetHasMax, FS_Subset
  <2>2. Rest(s) \subseteq U /\ Rest(s) # U
    BY <2>1
  <2> QED BY <2>2, TheFoldIsOne, FS_Subset
<1>2. ASSUME NEW s \in SUBSET U, s # {} PROVE F(Rest(s))[Rest(s)] = h[Rest(s)]
  <2> DEFINE t == Rest(s)
  <2>1. t \in SUBSET U /\ IsFiniteSet(t) /\ t \subseteq Int /\ FoldOn(F(t), base, items, t)
    BY <1>1, <1>2
  <2>2. CASE t = {}
    <3>1. F(t)[t] = base
      <4>1. ContainedIn(t, t)
        BY DEF ContainedIn
      <4> HIDE DEF t, F
      <4>2. FoldedAt(F(t), base, items, t)
        BY <2>1, <4>1, FoldStep
      <4> QED BY <2>2, <4>2 DEF FoldedAt
    <3> QED BY <2>1, <2>2, <3>1
  <2>3. CASE t # {}
    <3>1. IsFiniteSet(Rest(t)) /\ FoldOn(F(Rest(t)), base, items, Rest(t)) /\ Rest(t) \subseteq t
      BY <1>1, <2>1, <2>3
    <3>2. FoldOn(F(t), base, items, t) /\ t \in SUBSET U /\ t \subseteq Int
      BY <2>1
    <3>5. h[t] = WithItem(F(Rest(t))[Rest(t)], items[Max(t)])
      BY <2>3, <3>2
    <3> HIDE DEF t, F, h
    <3>3. F(t)[t] = WithItem(F(t)[Rest(t)], items[Max(t)])
      <4>1. ContainedIn(t, t)
        BY DEF ContainedIn
      <4>2. FoldedAt(F(t), base, items, t)
        BY <3>2, <4>1, FoldStep
      <4> QED BY <2>3, <4>2 DEF FoldedAt
    <3>4. F(Rest(t))[Rest(t)] = F(t)[Rest(t)]
      <4> DEFINE u == Rest(t)
      <4>1. IsFiniteSet(u) /\ FoldOn(F(u), base, items, u) /\ ContainedIn(u, t) /\ ContainedIn(t, Int)
        BY <3>1, <3>2 DEF ContainedIn
      <4> HIDE DEF u
      <4>2. F(u)[u] = F(t)[u]
        BY <3>2, <4>1, FoldsAgree
      <4> QED BY <4>2 DEF u
    <3> HIDE DEF Rest
    <3>6. F(t)[t] = h[t]
      BY <3>3, <3>4, <3>5
    <3> QED BY <3>6 DEF t
  <2> QED BY <2>2, <2>3
<1>3. \A s \in SUBSET U : h[s] = IF s = {} THEN base ELSE WithItem(h[Rest(s)], items[Max(s)])
  <2> HIDE DEF F
  <2> QED BY <1>2
<1>4. h = [s \in SUBSET U |-> h[s]]
  OBVIOUS
<1>5. FoldOn(h, base, items, U)
  <2> HIDE DEF h
  <2> QED BY <1>3, <1>4, Zenon DEF FoldOn
<1> QED BY <1>5 DEF Foldable

LEMMA FoldExists ==
  ASSUME NEW base, NEW items, NEW S, S \subseteq Int, IsFiniteSet(S)
  PROVE  Foldable(base, items, S)
<1> DEFINE C == {V \in SUBSET S : ~ Foldable(base, items, V)}
<1>1. CASE C = {}
  BY <1>1
<1>2. CASE C # {}
  <2>1. PICK U \in C : \A V \in C : V \subseteq U => V = U
    <3>1. Family(C, S)
      BY <1>2 DEF Family
    <3> HIDE DEF C
    <3> QED BY <3>1, SmallestSet DEF HasSmallest
  <2>2. U \subseteq S /\ ~ Foldable(base, items, U) /\ U \subseteq Int
    OBVIOUS
  <2>3. IsFiniteSet(U)
    BY <2>2, FS_Subset
  <2>4. \A V \in SUBSET U : V # U => Foldable(base, items, V)
    BY <2>1, <2>2
  <2> QED BY <2>2, <2>3, <2>4, FoldExtends
<1> QED BY <1>1, <1>2

(* Every name of the index is that of an entity or of a draft.                *)
NamesStand(names) ==
  /\ names = [index |-> names.index, drafts |-> names.drafts]
  /\ \A n \in DOMAIN names.index : names.index[n] \in DOMAIN entities \cup names.drafts

LEMMA RefStands ==
  ASSUME NEW names, NEW name, NEW etype, NamesStand(names)
  PROVE  NamesStand(resolveRef(names, name, etype))
<1>1. PICK slug : slug = slugify(entityTypeAndName(etype, name)[2], entityTypeAndName(etype, name)[1])
  OBVIOUS
<1>2. \/ resolveRef(names, name, etype) = names
      \/ resolveRef(names, name, etype) =
           [index |-> [n \in DOMAIN names.index \cup {name, slug} |->
                         IF n \in {name, slug} THEN slug ELSE names.index[n]],
            drafts |-> names.drafts \cup {slug}]
  BY <1>1 DEF resolveRef
<1>3. PICK after : after = resolveRef(names, name, etype)
  OBVIOUS
<1>4. CASE after # names
  <2>1. /\ after = [index |-> after.index, drafts |-> after.drafts]
        /\ DOMAIN after.index = DOMAIN names.index \cup {name, slug}
        /\ \A n \in DOMAIN after.index : after.index[n] = IF n \in {name, slug} THEN slug ELSE names.index[n]
        /\ after.drafts = names.drafts \cup {slug}
    BY <1>2, <1>3, <1>4
  <2> QED BY <1>3, <2>1 DEF NamesStand
<1> QED BY <1>3, <1>4

LEMMA ItemStands ==
  ASSUME NEW names, NEW x, NamesStand(names)
  PROVE  NamesStand(WithItem(names, x))
BY RefStands DEF WithItem, WithCandidate, WithEntity

LEMMA FoldStands ==
  ASSUME NEW base, NEW items, NEW S, NEW h, NamesStand(base), S \subseteq Int, IsFiniteSet(S),
         FoldOn(h, base, items, S)
  PROVE  NamesStand(h[S])
<1> DEFINE C == {W \in SUBSET S : ~NamesStand(h[W])}
<1>1. CASE C = {}
  BY <1>1
<1>2. CASE C # {}
  <2>1. PICK W \in C : \A X \in C : X \subseteq W => X = W
    <3>1. Family(C, S)
      BY <1>2 DEF Family
    <3> HIDE DEF C
    <3> QED BY <3>1, SmallestSet DEF HasSmallest
  <2>2. W \subseteq S /\ ContainedIn(W, S) /\ ~NamesStand(h[W]) /\ W \subseteq Int
    BY DEF ContainedIn
  <2>8. FoldedAt(h, base, items, W)
    BY <2>2, FoldStep
  <2>3. W # {} /\ IsFiniteSet(W)
    <3>1. W # {}
      BY <2>2, <2>8 DEF FoldedAt
    <3>2. IsFiniteSet(W)
      BY <2>2, FS_Subset
    <3> QED BY <3>1, <3>2
  <2> DEFINE R == W \ {Max(W)}
  <2>4. R \subseteq W /\ R # W /\ R \subseteq S
    BY <2>2, <2>3, FiniteSetHasMax
  <2>5. NamesStand(h[R])
    BY <2>1, <2>4
  <2>6. h[W] = WithItem(h[R], items[Max(W)])
    BY <2>3, <2>8 DEF FoldedAt
  <2> HIDE DEF R
  <2>7. PICK names : names = h[R]
    OBVIOUS
  <2> QED BY <2>2, <2>5, <2>6, <2>7, ItemStands
<1> QED BY <1>1, <1>2

LEMMA IndexStands ==
  ASSUME scene \in Scenes, commit.at \in DOMAIN scene.deliveries,
         \A n \in DOMAIN commit.resolved : commit.resolved[n] \in DOMAIN entities
  PROVE  \A n \in DOMAIN nameIndex : nameIndex[n] \in DOMAIN entities \cup newEntities
<1>1. PICK base : base = [index |-> commit.resolved, drafts |-> {}]
  OBVIOUS
<1>2. PICK items : items = Bundle.entities \o Bundle.candidates
  OBVIOUS
<1>3. \E S : items \in Seq(S)
  <2>1. PICK a, b : a = Bundle.entities /\ b = Bundle.candidates
    OBVIOUS
  <2>2. a \in Seq(Range(a)) /\ b \in Seq(Range(b))
    BY <2>1, BundlesAssumption DEF Bundle
  <2>3. a \in Seq(Range(a) \cup Range(b)) /\ b \in Seq(Range(a) \cup Range(b))
    BY <2>2, SeqMonotonic
  <2>4. a \o b \in Seq(Range(a) \cup Range(b))
    BY <2>3, ConcatProperties
  <2> QED BY <1>2, <2>1, <2>4
<1>4. DOMAIN items \subseteq Int /\ IsFiniteSet(DOMAIN items)
  <2>1. PICK S : items \in Seq(S)
    BY <1>3
  <2>2. PICK n \in Nat : DOMAIN items = 1..n
    BY <2>1, LenProperties
  <2>3. IsFiniteSet(1..n)
    BY FS_Interval
  <2> QED BY <2>2, <2>3
<1>5. NamesStand(base)
  BY <1>1 DEF NamesStand
<1>6. FoldOn(TheFold(base, items, DOMAIN items), base, items, DOMAIN items)
  BY <1>4, FoldExists, TheFoldIsOne
<1>7. IndexedNames = TheFold(base, items, DOMAIN items)[DOMAIN items]
  BY <1>1, <1>2, IndexIsFold DEF TheFold
<1>8. NamesStand(IndexedNames)
  BY <1>4, <1>5, <1>6, <1>7, FoldStands
<1> QED BY <1>8 DEF NamesStand, nameIndex, newEntities
-----------------------------------------------------------------------------
(* A ranking by a strict order: the places are those from the first to the    *)
(* last, and who is not among the first n was crowded out by n others.        *)
StrictOrder(R, Q) ==
  /\ \A f \in Q : <<f, f>> \notin R
  /\ \A f, g, h \in Q : <<f, g>> \in R /\ <<g, h>> \in R => <<f, h>> \in R
  /\ \A f, g \in Q : f # g => <<f, g>> \in R \/ <<g, f>> \in R
PlacesIn(R, Q) == [f \in Q |-> 1 + Cardinality({g \in Q : <<g, f>> \in R})]

LEMMA PlacesAreTaken ==
  ASSUME NEW Q, NEW R, NEW place, IsFiniteSet(Q), StrictOrder(R, Q), place = PlacesIn(R, Q)
  PROVE  place \in Injection(Q, 1..Cardinality(Q)) /\ Range(place) = 1..Cardinality(Q)
<1> USE DEF StrictOrder, PlacesIn
<1> DEFINE Over(f) == {g \in Q : <<g, f>> \in R}
<1>1. Cardinality(Q) \in Nat /\ \A f \in Q : IsFiniteSet(Over(f)) /\ Cardinality(Over(f)) \in Nat
  BY FS_Subset, FS_CardinalityType
<1>2. ASSUME NEW f \in Q, NEW S, S \subseteq Q, Over(f) \subseteq S, f \in S
      PROVE  Cardinality(Over(f)) + 1 <= Cardinality(S)
  <2>1. f \notin Over(f) /\ Over(f) \cup {f} \subseteq S
    BY <1>2
  <2>2. Cardinality(Over(f) \cup {f}) = Cardinality(Over(f)) + 1
    <3> HIDE DEF Over
    <3> QED BY <1>1, <2>1, FS_AddElement
  <2>3. IsFiniteSet(S)
    BY <1>2, FS_Subset
  <2>4. Cardinality(Over(f) \cup {f}) <= Cardinality(S)
    <3> HIDE DEF Over
    <3> QED BY <2>1, <2>3, FS_Subset
  <2> QED BY <2>2, <2>4
<1>3. ASSUME NEW f \in Q PROVE place[f] \in 1..Cardinality(Q)
  <2>1. place[f] = 1 + Cardinality(Over(f))
    OBVIOUS
  <2>2. Over(f) \subseteq Q
    OBVIOUS
  <2> HIDE DEF Over
  <2>3. Cardinality(Over(f)) + 1 <= Cardinality(Q)
    BY <1>2, <2>2
  <2> QED BY <1>1, <2>1, <2>3
<1>4. ASSUME NEW f \in Q, NEW g \in Q, <<f, g>> \in R PROVE place[f] < place[g]
  <2>1. Over(f) \subseteq Over(g) /\ f \in Over(g) /\ Over(g) \subseteq Q
    BY <1>4
  <2>2. place[f] = 1 + Cardinality(Over(f)) /\ place[g] = 1 + Cardinality(Over(g))
    OBVIOUS
  <2> HIDE DEF Over
  <2>3. Cardinality(Over(f)) + 1 <= Cardinality(Over(g))
    BY <1>2, <2>1
  <2> QED BY <1>1, <2>2, <2>3
<1>5. \A f \in Q : place[f] \in Int
  BY <1>3
<1>6. ASSUME NEW f \in Q, NEW g \in Q, place[f] = place[g] PROVE f = g
  <2>1. CASE <<f, g>> \in R
    BY <1>4, <1>5, <1>6, <2>1
  <2>2. CASE <<g, f>> \in R
    BY <1>4, <1>5, <1>6, <2>2
  <2> QED BY <2>1, <2>2
<1>7. place \in Injection(Q, 1..Cardinality(Q))
  <2>1. place = [f \in Q |-> place[f]] /\ DOMAIN place = Q
    OBVIOUS
  <2> QED BY <1>3, <1>6, <2>1 DEF Injection, IsInjective
<1>8. Range(place) \subseteq 1..Cardinality(Q) /\ place \in Bijection(Q, Range(place))
  <2>1. place = [f \in Q |-> place[f]] /\ DOMAIN place = Q
    OBVIOUS
  <2>2. PICK m : m = Cardinality(Q)
    OBVIOUS
  <2>3. \A f \in Q : place[f] \in 1..m
    BY <1>3, <2>2
  <2>4. Range(place) \subseteq 1..m
    <3> SUFFICES ASSUME NEW y \in Range(place) PROVE y \in 1..m
      OBVIOUS
    <3>1. PICK f \in DOMAIN place : y = place[f]
      BY DEF Range
    <3> HIDE DEF PlacesIn
    <3> QED BY <2>1, <2>3, <3>1
  <2>5. \A f, g \in Q : place[f] = place[g] => f = g
    BY <1>6
  <2>6. place \in [Q -> Range(place)] /\ \A y \in Range(place) : \E f \in Q : place[f] = y
    BY <2>1 DEF Range
  <2>7. place \in Bijection(Q, Range(place))
    BY <2>1, <2>5, <2>6 DEF Bijection, Surjection, Injection, IsInjective
  <2> QED BY <2>2, <2>4, <2>7
<1>9. Cardinality(Range(place)) = Cardinality(Q)
  BY <1>8, FS_Bijection DEF ExistsBijection
<1>10. IsFiniteSet(1..Cardinality(Q)) /\ Cardinality(1..Cardinality(Q)) = Cardinality(Q)
  BY <1>1, FS_Interval
<1>11. Range(place) = 1..Cardinality(Q)
  <2>1. PICK T, S : T = Range(place) /\ S = 1..Cardinality(Q)
    OBVIOUS
  <2>2. T \in SUBSET S /\ IsFiniteSet(S) /\ Cardinality(S) = Cardinality(T)
    BY <1>8, <1>9, <1>10, <2>1
  <2>3. S = T
    BY <2>2, FS_Subset
  <2> QED BY <2>1, <2>3
<1> QED BY <1>7, <1>11

LEMMA CrowdedOut ==
  ASSUME NEW Q, NEW m \in Nat, NEW place \in Injection(Q, 1..m), Range(place) = 1..m,
         NEW n \in Nat, NEW found, found = First(n, AntiFunction(place)),
         NEW f \in Q, f \notin Range(found)
  PROVE  Cardinality(Range(found)) = n
<1>1. DOMAIN place = Q /\ (\A g \in Q : place[g] \in 1..m) /\ \A g, h \in Q : place[g] = place[h] => g = h
  BY DEF Injection, IsInjective
<1>2. PICK ranked : ranked = AntiFunction(place)
  OBVIOUS
<1>3. DOMAIN ranked = 1..m /\ \A i \in 1..m : ranked[i] \in Q /\ place[ranked[i]] = i
  BY <1>1, <1>2 DEF AntiFunction, Inverse, Range
<1>4. DOMAIN found = {i \in 1..m : i <= n} /\ \A i \in DOMAIN found : found[i] = ranked[i]
  BY <1>2, <1>3 DEF First
<1>5. ranked[place[f]] = f
  BY <1>1, <1>3
<1>6. place[f] > n
  <2>1. CASE place[f] <= n
    <3>1. place[f] \in DOMAIN found /\ found[place[f]] = f
      BY <1>1, <1>4, <1>5, <2>1
    <3> QED BY <3>1 DEF Range
  <2> QED BY <1>1, <2>1
<1>7. DOMAIN found = 1..n
  <2>1. place[f] \in 1..m
    BY <1>1
  <2> QED BY <1>4, <1>6, <2>1
<1>8. \A i, j \in 1..n : found[i] = found[j] => i = j
  BY <1>3, <1>4, <1>7
<1>9. found \in Bijection(1..n, Range(found))
  <2>1. found = [i \in 1..n |-> found[i]]
    BY <1>7 DEF First
  <2> QED BY <1>7, <1>8, <2>1 DEF Bijection, Injection, Surjection, IsInjective, Range
<1>10. IsFiniteSet(1..n) /\ Cardinality(1..n) = n
  BY FS_Interval
<1> QED BY <1>9, <1>10, FS_Bijection DEF ExistsBijection

RanksAbove(f, g, slugs) ==
  \/ score(f, slugs) > score(g, slugs)
  \/ score(f, slugs) = score(g, slugs) /\ facts[f].confidence > facts[g].confidence
  \/ score(f, slugs) = score(g, slugs) /\ facts[f].confidence = facts[g].confidence /\ facts[f].id < facts[g].id

LEMMA RankIsByPlace ==
  ASSUME NEW Q, NEW slugs
  PROVE  rankFacts(Q, slugs) = AntiFunction([f \in Q |-> 1 + Cardinality({g \in Q : RanksAbove(g, f, slugs)})])
BY Zenon DEF rankFacts, Sorted, RanksAbove

LEMMA ScoreIsNumber ==
  ASSUME NEW f, NEW slugs, facts[f].confidence \in Int, KnownYear(facts[f].year)
  PROVE  score(f, slugs) \in Int
<1>1. PICK match : match = IF {facts[f].subject, facts[f].parameter} \cap slugs # {} THEN 100 ELSE 60
  OBVIOUS
<1>2. PICK fresh : fresh = IF facts[f].year = 0 THEN 50 ELSE Freshness[CurrentYear - facts[f].year]
  OBVIOUS
<1>3. PICK rel : rel = sourceReliability(facts[f].docType)
  OBVIOUS
<1>4. PICK val : val = validationLevel(facts[f].status)
  OBVIOUS
<1>5. PICK conf : conf = facts[f].confidence
  OBVIOUS
<1>6. match \in Int /\ conf \in Int
  BY <1>1, <1>5
<1>7. fresh \in Int
  BY <1>2, RankingAssumption DEF KnownYear
<1>8. rel \in Int
  BY <1>3 DEF sourceReliability
<1>9. val \in Int
  BY <1>4 DEF validationLevel
<1>10. score(f, slugs) = (35 * match + 25 * (50 + ((conf + 1) \div 2)) + 15 * rel + 15 * val + 10 * fresh + 50) \div 100
  BY <1>1, <1>2, <1>3, <1>4, <1>5 DEF score
<1>11. PICK half \in Int : half = (conf + 1) \div 2
  BY <1>6
<1>12. PICK sum \in Int : sum = 35 * match + 25 * (50 + half) + 15 * rel + 15 * val + 10 * fresh + 50
  BY <1>6, <1>7, <1>8, <1>9
<1>13. sum \div 100 \in Int
  OBVIOUS
<1> QED BY <1>10, <1>11, <1>12, <1>13

(* By score, confidence and id no two facts are equal.                        *)
LEMMA RankedOrCrowdedOut ==
  ASSUME NEW Q, Q \subseteq DOMAIN facts, IsFiniteSet(Q), NEW slugs, FinalTop \in Nat,
         \A f \in Q : facts[f].confidence \in Int /\ KnownYear(facts[f].year) /\ facts[f].id \in Int,
         \A f, g \in Q : facts[f].id = facts[g].id => f = g,
         NEW found, found = First(FinalTop, rankFacts(Q, slugs)),
         NEW f \in Q, f \notin Range(found)
  PROVE  Cardinality(Range(found)) = FinalTop
<1> DEFINE R == {p \in Q \X Q : RanksAbove(p[1], p[2], slugs)}
           place == [g \in Q |-> 1 + Cardinality({h \in Q : <<h, g>> \in R})]
<1>1. \A g, h \in Q : <<g, h>> \in R <=> RanksAbove(g, h, slugs)
  OBVIOUS
<1>2. \A g \in Q : score(g, slugs) \in Int
  BY ScoreIsNumber
<1>3. \A g \in Q : ~RanksAbove(g, g, slugs)
  BY <1>2 DEF RanksAbove
<1>4. \A g, h \in Q : g # h => RanksAbove(g, h, slugs) \/ RanksAbove(h, g, slugs)
  BY <1>2 DEF RanksAbove
<1>5. \A g, h, k \in Q : RanksAbove(g, h, slugs) /\ RanksAbove(h, k, slugs) => RanksAbove(g, k, slugs)
  BY <1>2 DEF RanksAbove
<1>6. rankFacts(Q, slugs) = AntiFunction(place)
  <2>1. \A g \in Q : {h \in Q : <<h, g>> \in R} = {h \in Q : RanksAbove(h, g, slugs)}
    BY <1>1
  <2>2. place = [g \in Q |-> 1 + Cardinality({h \in Q : RanksAbove(h, g, slugs)})]
    <3> HIDE DEF R
    <3> QED BY <2>1
  <2> QED BY <2>2, RankIsByPlace
<1>7. place = PlacesIn(R, Q)
  BY Zenon DEF PlacesIn
<1>10. StrictOrder(R, Q)
  <2>1. \A g \in Q : <<g, g>> \notin R
    <3> HIDE DEF R
    <3> QED BY <1>1, <1>3
  <2>2. \A g, h \in Q : g # h => <<g, h>> \in R \/ <<h, g>> \in R
    <3> HIDE DEF R
    <3> QED BY <1>1, <1>4
  <2>3. \A g, h, k \in Q : <<g, h>> \in R /\ <<h, k>> \in R => <<g, k>> \in R
    <3> HIDE DEF R
    <3> QED BY <1>1, <1>5
  <2> HIDE DEF R
  <2> QED BY <2>1, <2>2, <2>3 DEF StrictOrder
<1> HIDE DEF R, place
<1>8. place \in Injection(Q, 1..Cardinality(Q)) /\ Range(place) = 1..Cardinality(Q)
  BY <1>7, <1>10, PlacesAreTaken
<1>9. Cardinality(Q) \in Nat
  BY FS_CardinalityType
<1> QED BY <1>6, <1>8, <1>9, CrowdedOut
-----------------------------------------------------------------------------
(* What a search counts on, whatever is committed or merged meanwhile: facts   *)
(* and edges are about entities that exist, and a fact's id is its own.        *)
LinkColumns == {"subject", "parameter", "id", "confidence", "year"}

Linked(row, known) ==
  /\ LinkColumns \subseteq DOMAIN row
  /\ row.subject \in known /\ row.parameter \in known
  /\ row.confidence \in Int /\ KnownYear(row.year)

OwnId(f, id) ==
  IF f \in DOMAIN scene.facts THEN id = scene.facts[f].id ELSE \E x \in Delivered : x.row = f /\ id = x.said.id

EndsKnown(g, known) == {"src", "dst"} \subseteq DOMAIN g /\ g.src \in known /\ g.dst \in known

LinksInv ==
  /\ IsFiniteSet(DOMAIN facts)
  /\ \A f \in DOMAIN facts : Linked(facts[f], DOMAIN entities) /\ OwnId(f, facts[f].id)
  /\ commit.step = "commit" => \A n \in DOMAIN commit.resolved : commit.resolved[n] \in DOMAIN entities
  /\ \A d \in DOMAIN docs : "year" \in DOMAIN docs[d] /\ KnownYear(docs[d].year)
  /\ \A g \in edges : EndsKnown(g, DOMAIN entities)

LEMMA LinksInit == Init => LinksInv
<1> SUFFICES ASSUME Init PROVE LinksInv
  OBVIOUS
<1>1. /\ scene \in Scenes /\ facts = scene.facts /\ entities = scene.entities /\ edges = scene.edges
      /\ docs = scene.docs /\ commit.step = "fetch"
  BY DEF Init, GatewayInit, DecisionsInit, UploadsInit, ExtractionInit
<1>2. IsFiniteSet(DOMAIN facts)
  BY <1>1, KeysAssumption
<1>3. ASSUME NEW f \in DOMAIN facts PROVE Linked(facts[f], DOMAIN entities) /\ OwnId(f, facts[f].id)
  BY <1>1, <1>3, KeysAssumption, FactsAssumption, RankingAssumption DEF Linked, LinkColumns, OwnId
<1>4. \A d \in DOMAIN docs : "year" \in DOMAIN docs[d] /\ KnownYear(docs[d].year)
  BY <1>1, DocumentsAssumption, RankingAssumption
<1>5. \A g \in edges : EndsKnown(g, DOMAIN entities)
  BY <1>1, KeysAssumption DEF EndsKnown
<1> QED BY <1>1, <1>2, <1>3, <1>4, <1>5 DEF LinksInv

OwnIds == \A f, id : OwnId(f, id) => OwnId(f, id)'

LEMMA IdsStand == ASSUME scene' = scene PROVE OwnIds
BY DEF OwnIds, OwnId, Delivered

LEMMA LinkedStands ==
  ASSUME NEW row, NEW known, NEW more, Linked(row, known), known \subseteq more
  PROVE  Linked(row, more)
BY DEF Linked

(* What a step does to the rows, to the edges and to the documents.           *)
RowsLinked ==
  /\ IsFiniteSet(DOMAIN facts')
  /\ \A f \in DOMAIN facts' : \E row : row = facts'[f] /\ Linked(row, DOMAIN entities') /\ OwnId(f, row.id)

LEMMA SameRowsLinked ==
  ASSUME LinksInv, facts' = facts, DOMAIN entities \subseteq DOMAIN entities'
  PROVE  RowsLinked
<1>1. PICK known : known = DOMAIN entities
  OBVIOUS
<1>2. PICK more : more = DOMAIN entities'
  OBVIOUS
<1>3. \A f \in DOMAIN facts : Linked(facts[f], known) /\ OwnId(f, facts[f].id)
  BY <1>1 DEF LinksInv
<1>4. \A f \in DOMAIN facts : Linked(facts[f], more) /\ OwnId(f, facts[f].id)
  BY <1>1, <1>2, <1>3, LinkedStands
<1> QED BY <1>2, <1>4 DEF RowsLinked, LinksInv

LEMMA StatusKeepsLinks ==
  ASSUME NEW row, NEW known, NEW status, NEW after, Linked(row, known),
         after = [row EXCEPT !.status = status]
  PROVE  Linked(after, known) /\ after.id = row.id
BY DEF Linked, LinkColumns

MovedTo(after, row, s, p) == after = [row EXCEPT !.subject = s, !.parameter = p]

LEMMA MoveKeepsLinks ==
  ASSUME NEW row, NEW known, NEW s, NEW p, NEW after, Linked(row, known), s \in known, p \in known,
         MovedTo(after, row, s, p)
  PROVE  Linked(after, known) /\ after.id = row.id
BY DEF Linked, LinkColumns, MovedTo

LEMMA DecidedRowsLinked ==
  ASSUME LinksInv, NEW c, NEW level, facts' = WithDecision(c, level), entities' = entities
  PROVE  RowsLinked
<1>1. PICK known : known = DOMAIN entities
  OBVIOUS
<1>2. /\ DOMAIN facts' = DOMAIN facts
      /\ \A f \in DOMAIN facts : \/ facts'[f] = facts[f]
                                 \/ facts'[f] = [facts[f] EXCEPT !.status = Body(c).status]
  BY DEF WithDecision
<1>3. \A f \in DOMAIN facts : Linked(facts[f], known) /\ OwnId(f, facts[f].id)
  BY <1>1 DEF LinksInv
<1>4. ASSUME NEW f \in DOMAIN facts
      PROVE  \E row : row = facts'[f] /\ Linked(row, known) /\ OwnId(f, row.id)
  <2>1. PICK row : row = facts[f]
    OBVIOUS
  <2>2. PICK after : after = facts'[f]
    OBVIOUS
  <2>3. after = row \/ after = [row EXCEPT !.status = Body(c).status]
    BY <1>2, <2>1, <2>2
  <2>4. Linked(row, known) /\ OwnId(f, row.id)
    BY <1>3, <2>1
  <2>5. Linked(after, known) /\ after.id = row.id
    BY <2>3, <2>4, StatusKeepsLinks
  <2> QED BY <2>2, <2>4, <2>5
<1> QED BY <1>1, <1>2, <1>4 DEF RowsLinked, LinksInv

LEMMA MergedRowsLinked ==
  ASSUME LinksInv, NEW x, NEW into, NEW level, into \in DOMAIN entities,
         facts' = FactsAfter(x, into, level), DOMAIN entities' = DOMAIN entities
  PROVE  RowsLinked
<1>1. PICK known : known = DOMAIN entities
  OBVIOUS
<1>2. /\ DOMAIN facts' = DOMAIN facts
      /\ \A f \in DOMAIN facts :
           \/ facts'[f] = facts[f]
           \/ facts'[f] = [facts[f] EXCEPT !.subject = Moved(facts[f].subject, x, into),
                                           !.parameter = Moved(facts[f].parameter, x, into)]
  BY DEF FactsAfter
<1>3. \A f \in DOMAIN facts : Linked(facts[f], known) /\ OwnId(f, facts[f].id)
  BY <1>1 DEF LinksInv
<1>4. ASSUME NEW f \in DOMAIN facts
      PROVE  \E row : row = facts'[f] /\ Linked(row, known) /\ OwnId(f, row.id)
  <2>1. PICK row : row = facts[f]
    OBVIOUS
  <2>2. PICK after : after = facts'[f]
    OBVIOUS
  <2>3. PICK s, p : s = Moved(row.subject, x, into) /\ p = Moved(row.parameter, x, into)
    OBVIOUS
  <2>4. Linked(row, known) /\ OwnId(f, row.id)
    BY <1>3, <2>1
  <2>5. s \in known /\ p \in known
    BY <1>1, <2>3, <2>4 DEF Moved, Linked
  <2>6. after = row \/ MovedTo(after, row, s, p)
    BY <1>2, <2>1, <2>2, <2>3 DEF MovedTo
  <2>7. Linked(after, known) /\ after.id = row.id
    <3>1. CASE after = row
      BY <2>4, <3>1
    <3>2. CASE MovedTo(after, row, s, p)
      BY <2>4, <2>5, <3>2, MoveKeepsLinks
    <3> QED BY <2>6, <3>1, <3>2
  <2> QED BY <2>2, <2>4, <2>7
<1> QED BY <1>1, <1>2, <1>4 DEF RowsLinked, LinksInv

LEMMA MergedEdgesLinked ==
  ASSUME LinksInv, NEW x, NEW into \in DOMAIN entities
  PROVE  \A g \in EdgesAfter(x, into) : EndsKnown(g, DOMAIN entities)
<1> SUFFICES ASSUME NEW edge \in EdgesAfter(x, into) PROVE EndsKnown(edge, DOMAIN entities)
  OBVIOUS
<1>1. PICK g \in edges : edge = [g EXCEPT !.src = Moved(@, x, into), !.dst = Moved(@, x, into)]
  BY DEF EdgesAfter
<1>2. PICK s, d : s = Moved(g.src, x, into) /\ d = Moved(g.dst, x, into)
  OBVIOUS
<1>3. EndsKnown(g, DOMAIN entities)
  BY DEF LinksInv
<1>4. s \in DOMAIN entities /\ d \in DOMAIN entities
  BY <1>2, <1>3 DEF EndsKnown, Moved
<1>5. edge = [g EXCEPT !.src = s, !.dst = d]
  BY <1>1, <1>2
<1> QED BY <1>3, <1>4, <1>5 DEF EndsKnown

(* What a delivery brings: rows whose names are entities by then.             *)
LEMMA OneAfterAnother ==
  ASSUME scene \in Scenes, commit.at \in Nat \ {0}, commit.at <= Len(scene.deliveries)
  PROVE  commit.at \in DOMAIN scene.deliveries
<1>1. scene.deliveries \in Seq(Range(scene.deliveries))
  BY BundlesAssumption
<1>2. Len(scene.deliveries) \in Nat /\ DOMAIN scene.deliveries = 1..Len(scene.deliveries)
  BY <1>1, LenProperties
<1> QED BY <1>2

LEMMA BoundsKeepSaid ==
  ASSUME NEW said, NEW normal, normal = NormalizeBounds(said), {"id", "confidence"} \subseteq DOMAIN said
  PROVE  DOMAIN normal = DOMAIN said /\ normal.id = said.id /\ normal.confidence = said.confidence
<1>1. PICK a, b, d, e : normal = [said EXCEPT !.vmin = a, !.vmax = b, !.siMin = d, !.siMax = e]
  BY DEF NormalizeBounds
<1> QED BY <1>1

LEMMA ClassIsNumber ==
  ASSUME NEW said, NEW def, said.confidence \in Int
  PROVE  ClassifyFact(said, def).confidence \in Int
<1>1. PICK n \in Int : n = said.confidence
  OBVIOUS
<1>2. Min({n, 50}) \in Int
  <2>1. \E m \in {n, 50} : \A y \in {n, 50} : m <= y
    BY <1>1
  <2>2. Min({n, 50}) \in {n, 50}
    BY <2>1 DEF Min
  <2> QED BY <2>2
<1>3. PICK m : m = Min({n, 50})
  OBVIOUS
<1>4. PICK class : class = ClassifyFact(said, def)
  OBVIOUS
<1>5. class.confidence = n \/ class.confidence = m
  BY <1>1, <1>3, <1>4 DEF ClassifyFact
<1> QED BY <1>2, <1>3, <1>4, <1>5

LEMMA NewRowLinked ==
  ASSUME NEW x, NEW row, NEW known, row = FactFrom(x), {"id", "confidence"} \subseteq DOMAIN x.said,
         x.said.confidence \in Int, KnownYear(docs[Doc].year),
         nameIndex[x.subject] \in known, nameIndex[x.parameter] \in known
  PROVE  Linked(row, known) /\ row.id = x.said.id
<1>1. PICK said : said = NormalizeBounds(x.said)
  OBVIOUS
<1>2. "id" \in DOMAIN said /\ said.id = x.said.id /\ said.confidence \in Int
  BY <1>1, BoundsKeepSaid
<1>3. PICK class : class = ClassifyFact(said, ParameterDef(x.parameter))
  OBVIOUS
<1>4. PICK n : n = class.confidence
  OBVIOUS
<1>5. n \in Int
  BY <1>2, <1>3, <1>4, ClassIsNumber
<1>6. PICK context : context = docs[Doc]
  OBVIOUS
<1>7. PICK s, p, y : s = nameIndex[x.subject] /\ p = nameIndex[x.parameter] /\ y = context.year
  OBVIOUS
<1>8. PICK columns : columns = [kind |-> "numeric", doc |-> Doc, access |-> context.access, docType |-> context.docType,
                  status |-> class.status, confidence |-> n, year |-> y,
                  geography |-> IF said.geography = "" THEN context.geography ELSE said.geography,
                  subject |-> s, parameter |-> p]
  OBVIOUS
<1>9. row = [k \in DOMAIN columns \cup DOMAIN said |-> IF k \in DOMAIN columns THEN columns[k] ELSE said[k]]
  BY <1>1, <1>3, <1>4, <1>6, <1>7, <1>8 DEF FactFrom
<1>10. /\ {"subject", "parameter", "confidence", "year"} \subseteq DOMAIN columns /\ "id" \notin DOMAIN columns
       /\ columns.subject = s /\ columns.parameter = p /\ columns.confidence = n /\ columns.year = y
  BY <1>8
<1> HIDE <1>8
<1>11. /\ {"subject", "parameter", "id", "confidence", "year"} \subseteq DOMAIN row
       /\ row.subject = s /\ row.parameter = p /\ row.confidence = n /\ row.year = y /\ row.id = said.id
  BY <1>2, <1>9, <1>10
<1> QED BY <1>2, <1>5, <1>6, <1>7, <1>11 DEF Linked, LinkColumns

LEMMA FewNewRows ==
  ASSUME scene \in Scenes, commit.at \in DOMAIN scene.deliveries
  PROVE  IsFiniteSet({x.row : x \in NewRows})
<1>1. PICK xs : xs = Bundle.candidates
  OBVIOUS
<1>2. xs \in Seq(Range(xs))
  BY <1>1, BundlesAssumption DEF Bundle
<1>3. PICK n \in Nat : DOMAIN xs = 1..n
  BY <1>2, LenProperties
<1>4. PICK F : F = [i \in 1..n |-> xs[i].row]
  OBVIOUS
<1>5. PICK T : T = {xs[i].row : i \in 1..n}
  OBVIOUS
<1>6. F \in Surjection(1..n, T)
  BY <1>4, <1>5 DEF Surjection
<1>8. IsFiniteSet(1..n)
  BY FS_Interval
<1>9. IsFiniteSet(T)
  <2>1. PICK Ns : Ns = 1..n
    OBVIOUS
  <2>2. IsFiniteSet(Ns) /\ F \in Surjection(Ns, T)
    BY <1>6, <1>8, <2>1
  <2> QED BY <2>2, FS_Surjection
<1>10. \A x \in NewRows : \E i \in 1..n : x = xs[i]
  BY <1>1, <1>3 DEF NewRows
<1>11. {x.row : x \in NewRows} \subseteq T
  <2> HIDE DEF NewRows
  <2> QED BY <1>5, <1>10
<1> QED BY <1>9, <1>11, FS_Subset

LEMMA CommittedRowsLinked ==
  ASSUME LinksInv, HistoryInv, scene \in Scenes, commit.at \in DOMAIN scene.deliveries, commit.step = "commit",
         ~CommitFails, facts' = InsertedFacts, entities' = InsertedEntities
  PROVE  RowsLinked
<1>1. PICK known : known = DOMAIN entities'
  OBVIOUS
<1>2. known = DOMAIN entities \cup newEntities
  BY <1>1 DEF InsertedEntities
<1>3. /\ DOMAIN facts' = DOMAIN facts \cup {x.row : x \in NewRows}
      /\ \A f \in DOMAIN facts : facts'[f] = facts[f]
      /\ \A f \in DOMAIN facts' \ DOMAIN facts : \E x \in NewRows : x.row = f /\ facts'[f] = FactFrom(x)
  <2> HIDE DEF NewRows, FactFrom
  <2> QED BY DEF InsertedFacts
<1>4. IsFiniteSet(DOMAIN facts')
  <2>1. IsFiniteSet({x.row : x \in NewRows})
    BY FewNewRows
  <2>2. PICK T : T = {x.row : x \in NewRows}
    OBVIOUS
  <2>3. PICK D : D = DOMAIN facts
    OBVIOUS
  <2>4. IsFiniteSet(D) /\ IsFiniteSet(T)
    BY <2>1, <2>2, <2>3 DEF LinksInv
  <2>5. IsFiniteSet(D \cup T)
    BY <2>4, FS_Union
  <2> QED BY <1>3, <2>2, <2>3, <2>5
<1>5. ASSUME NEW f \in DOMAIN facts
      PROVE  \E row : row = facts'[f] /\ Linked(row, known) /\ OwnId(f, row.id)
  <2>1. PICK row, some : row = facts[f] /\ some = DOMAIN entities
    OBVIOUS
  <2>2. Linked(row, some) /\ OwnId(f, row.id)
    BY <2>1 DEF LinksInv
  <2>3. Linked(row, known)
    BY <1>2, <2>1, <2>2, LinkedStands
  <2> QED BY <1>3, <2>1, <2>2, <2>3
<1>6. ASSUME NEW f \in DOMAIN facts' \ DOMAIN facts
      PROVE  \E row : row = facts'[f] /\ Linked(row, known) /\ OwnId(f, row.id)
  <2>1. PICK x \in NewRows : x.row = f /\ facts'[f] = FactFrom(x)
    BY <1>3, <1>6
  <2>2. /\ x \in Range(Bundle.candidates) /\ x.subject \in DOMAIN nameIndex /\ x.parameter \in DOMAIN nameIndex
    BY <2>1 DEF NewRows, Range, Committable
  <2>3. {"id", "confidence"} \subseteq DOMAIN x.said /\ x.said.confidence \in Int
    BY <2>2, BundlesAssumption DEF Bundle
  <2>4. nameIndex[x.subject] \in known /\ nameIndex[x.parameter] \in known
    BY <1>2, <2>2, IndexStands DEF LinksInv
  <2>5. KnownYear(docs[Doc].year)
    BY DEF LinksInv, CommitFails
  <2>6. PICK row : row = FactFrom(x)
    OBVIOUS
  <2>7. Linked(row, known) /\ row.id = x.said.id
    BY <2>3, <2>4, <2>5, <2>6, NewRowLinked
  <2>8. f \notin DOMAIN scene.facts /\ x \in Delivered
    BY <1>6, <2>2 DEF HistoryInv, Delivered, Bundle
  <2>9. OwnId(f, row.id)
    BY <2>1, <2>7, <2>8 DEF OwnId
  <2> QED BY <2>1, <2>6, <2>7, <2>9
<1> QED BY <1>1, <1>4, <1>5, <1>6 DEF RowsLinked

LEMMA IdsOwned ==
  ASSUME RowsLinked, scene' = scene
  PROVE  (\A f \in DOMAIN facts : OwnId(f, facts[f].id))'
<1>1. ASSUME NEW f \in DOMAIN facts' PROVE \E p : p = facts'[f].id /\ OwnId(f, p)
  BY DEF RowsLinked
<1>2. ASSUME NEW f \in DOMAIN facts' PROVE OwnId(f, facts[f].id)'
  <2>1. PICK p : p = facts'[f].id /\ OwnId(f, p)
    BY <1>1
  <2>2. OwnId(f, p)'
    BY <2>1, IdsStand DEF OwnIds
  <2> QED BY <2>1, <2>2 DEF OwnId
<1> QED BY <1>2

LEMMA CommittedLinks ==
  ASSUME LinksInv, HistoryInv, scene \in Scenes, commit.at \in DOMAIN scene.deliveries, commit.step = "commit",
         ~CommitFails, facts' = InsertedFacts, entities' = InsertedEntities, scene' = scene,
         edges' = edges \cup recomputeEdges(facts'), docs' = [docs EXCEPT ![Doc].status = "indexed"],
         commit' = NextDelivery
  PROVE  LinksInv'
<1>1. RowsLinked
  BY CommittedRowsLinked
<1>2. DOMAIN entities \subseteq DOMAIN entities'
  BY DEF InsertedEntities
<1>3. \A d \in DOMAIN docs' : "year" \in DOMAIN docs'[d] /\ KnownYear(docs'[d].year)
  <2>1. PICK doc : doc = Doc
    OBVIOUS
  <2>2. docs' = [docs EXCEPT ![doc].status = "indexed"]
    BY <2>1
  <2>3. \A d \in DOMAIN docs : "year" \in DOMAIN docs[d] /\ KnownYear(docs[d].year)
    BY DEF LinksInv
  <2>4. \A d \in DOMAIN docs' : d \in DOMAIN docs /\ "year" \in DOMAIN docs'[d] /\ docs'[d].year = docs[d].year
    BY <2>2, <2>3
  <2> QED BY <2>3, <2>4
<1>4. \A g \in edges' : EndsKnown(g, DOMAIN entities')
  <2>1. PICK rows : rows = facts'
    OBVIOUS
  <2>2. PICK known : known = DOMAIN entities'
    OBVIOUS
  <2>3. \A f \in DOMAIN rows : Linked(rows[f], known)
    BY <1>1, <2>1, <2>2 DEF RowsLinked
  <2>4. ASSUME NEW g \in recomputeEdges(rows) PROVE EndsKnown(g, known)
    <3>1. PICK f \in DOMAIN rows : g = [src |-> rows[f].subject, dst |-> rows[f].parameter, rel |-> "OPERATES_AT"]
      BY DEF recomputeEdges
    <3> QED BY <2>3, <3>1 DEF EndsKnown, Linked
  <2>5. \A g \in edges : EndsKnown(g, known)
    BY <1>2, <2>2 DEF LinksInv, EndsKnown
  <2> QED BY <2>1, <2>2, <2>4, <2>5
<1>5. commit'.step = "fetch"
  BY DEF NextDelivery
<1>6. \A f \in DOMAIN facts' : Linked(facts'[f], DOMAIN entities')
  BY <1>1 DEF RowsLinked
<1>7. (\A f \in DOMAIN facts : OwnId(f, facts[f].id))'
  BY <1>1, IdsOwned
<1> QED BY <1>1, <1>3, <1>4, <1>5, <1>6, <1>7 DEF LinksInv, RowsLinked

(* A step that commits nothing.                                               *)
LEMMA LinksStand ==
  ASSUME LinksInv, scene' = scene, RowsLinked, DOMAIN entities \subseteq DOMAIN entities',
         \A g \in edges' : EndsKnown(g, DOMAIN entities'),
         \A d \in DOMAIN docs' : "year" \in DOMAIN docs'[d] /\ KnownYear(docs'[d].year),
         commit' = commit \/ (commit'.step = "commit" =>
                                \A n \in DOMAIN commit'.resolved : commit'.resolved[n] \in DOMAIN entities)
  PROVE  LinksInv'
<1>1. \A f \in DOMAIN facts' : Linked(facts'[f], DOMAIN entities')
  BY DEF RowsLinked
<1>2. (\A f \in DOMAIN facts : OwnId(f, facts[f].id))'
  BY IdsOwned
<1>3. commit'.step = "commit" => \A n \in DOMAIN commit'.resolved : commit'.resolved[n] \in DOMAIN entities'
  BY DEF LinksInv
<1> QED BY <1>1, <1>2, <1>3 DEF LinksInv, RowsLinked

LEMMA EdgesStand ==
  ASSUME LinksInv, DOMAIN entities \subseteq DOMAIN entities', edges' = edges
  PROVE  \A g \in edges' : EndsKnown(g, DOMAIN entities')
BY DEF LinksInv, EndsKnown

LEMMA YearsStand ==
  ASSUME LinksInv, docs' = docs
  PROVE  \A d \in DOMAIN docs' : "year" \in DOMAIN docs'[d] /\ KnownYear(docs'[d].year)
BY DEF LinksInv

LEMMA DecisionLinks ==
  ASSUME LinksInv, scene' = scene, Columns, NEW c \in Players, DecisionStep(c), UNCHANGED <<docs, commit>>
  PROVE  LinksInv'
<1>1. CASE UpdateFactStatus(c)
  <2>1. /\ facts' = facts \/ \E level : facts' = WithDecision(c, level)
        /\ entities' = entities /\ edges' = edges
    BY <1>1 DEF UpdateFactStatus, updateFactStatusHandler, Refuse, decisions
  <2>2. RowsLinked
    BY <2>1, SameRowsLinked, DecidedRowsLinked
  <2> QED BY <2>1, <2>2, LinksStand, EdgesStand, YearsStand
<1>2. CASE updateEntityStatus(c)
  <2>1. /\ facts' = facts /\ edges' = edges
        /\ \/ entities' = entities
           \/ \E e, status : entities' = [entities EXCEPT ![e].status = status]
    BY <1>2 DEF updateEntityStatus, Refuse, decisions
  <2>2. DOMAIN entities' = DOMAIN entities
    BY <2>1
  <2> QED BY <2>1, <2>2, SameRowsLinked, LinksStand, EdgesStand, YearsStand
<1>3. CASE MergeEntities(c)
  <2>1. \/ facts' = facts /\ entities' = entities /\ edges' = edges
        \/ \E x, into \in DOMAIN entities, level \in {"internal", "public"} :
             facts' = FactsAfter(x, into, level) /\ entities' = EntitiesAfter(x, into) /\ edges' = EdgesAfter(x, into)
    BY <1>3 DEF MergeEntities, mergeEntityHandler, Refuse, decisions
  <2>2. CASE facts' = facts /\ entities' = entities /\ edges' = edges
    BY <2>2, SameRowsLinked, LinksStand, EdgesStand, YearsStand
  <2>3. ASSUME NEW x \in DOMAIN entities, NEW into \in DOMAIN entities, NEW level,
               facts' = FactsAfter(x, into, level), entities' = EntitiesAfter(x, into), edges' = EdgesAfter(x, into)
        PROVE  LinksInv'
    <3>1. DOMAIN entities' = DOMAIN entities
      BY <2>3 DEF EntitiesAfter
    <3>2. RowsLinked
      BY <2>3, <3>1, MergedRowsLinked
    <3>3. \A g \in edges' : EndsKnown(g, DOMAIN entities')
      BY <2>3, <3>1, MergedEdgesLinked
    <3> QED BY <3>1, <3>2, <3>3, LinksStand, YearsStand
  <2> QED BY <2>1, <2>2, <2>3
<1>4. CASE DecideContradiction(c) \/ reviewQueue(c)
  <2>1. facts' = facts /\ entities' = entities /\ edges' = edges
    BY <1>4 DEF DecideContradiction, decideContradictionHandler, reviewQueue, Refuse, decisions
  <2> QED BY <2>1, SameRowsLinked, LinksStand, EdgesStand, YearsStand
<1> QED BY <1>1, <1>2, <1>3, <1>4 DEF DecisionStep

LEMMA ExtractionLinks ==
  ASSUME LinksInv, HistoryInv, RowsInv, scene \in Scenes, scene' = scene, ExtractionNext
  PROVE  LinksInv'
<1>1. CASE /\ Consuming("commit") /\ ~CommitFails /\ entities' = InsertedEntities /\ facts' = InsertedFacts
           /\ edges' = edges \cup recomputeEdges(facts') /\ docs' = [docs EXCEPT ![Doc].status = "indexed"]
           /\ commit' = NextDelivery
  <2>1. commit.at \in DOMAIN scene.deliveries /\ commit.step = "commit"
    BY <1>1, OneAfterAnother DEF Consuming, RowsInv
  <2> QED BY <1>1, <2>1, CommittedLinks
<1>2. CASE commit' = NextDelivery /\ UNCHANGED <<docs, facts, entities, edges>>
  <2>1. commit'.step = "fetch"
    BY <1>2 DEF NextDelivery
  <2> QED BY <1>2, <2>1, SameRowsLinked, LinksStand, EdgesStand, YearsStand
<1>3. ASSUME NEW step, NEW resolved, commit' = Following(step, resolved), UNCHANGED <<docs, facts, entities, edges>>,
             step = "commit" => resolved \in Resolutions
      PROVE  LinksInv'
  <2>1. commit'.step = step /\ commit'.resolved = resolved
    <3>1. commit = [at |-> commit.at, step |-> commit.step, resolved |-> commit.resolved]
      BY DEF RowsInv
    <3> QED BY <1>3, <3>1 DEF Following
  <2>2. commit'.step = "commit" => \A n \in DOMAIN commit'.resolved : commit'.resolved[n] \in DOMAIN entities
    BY <1>3, <2>1 DEF Resolutions
  <2> QED BY <1>3, <2>2, SameRowsLinked, LinksStand, EdgesStand, YearsStand
<1>4. \/ /\ Consuming("commit") /\ ~CommitFails /\ entities' = InsertedEntities /\ facts' = InsertedFacts
         /\ edges' = edges \cup recomputeEdges(facts') /\ docs' = [docs EXCEPT ![Doc].status = "indexed"]
         /\ commit' = NextDelivery
      \/ commit' = NextDelivery /\ UNCHANGED <<docs, facts, entities, edges>>
      \/ \E step, resolved : /\ commit' = Following(step, resolved) /\ UNCHANGED <<docs, facts, entities, edges>>
                             /\ step = "commit" => resolved \in Resolutions
  <2>1. fetchBundle => \/ commit' = NextDelivery /\ UNCHANGED <<docs, facts, entities, edges>>
                       \/ commit' = Following("resolve", << >>) /\ UNCHANGED <<docs, facts, entities, edges>>
    BY DEF fetchBundle, Nak
  <2>2. ResolveByNames => \/ commit' = NextDelivery /\ UNCHANGED <<docs, facts, entities, edges>>
                          \/ \E r \in Resolutions : /\ commit' = Following("commit", r)
                                                    /\ UNCHANGED <<docs, facts, entities, edges>>
    BY DEF ResolveByNames, Nak
  <2>3. Commit => \/ /\ Consuming("commit") /\ ~CommitFails /\ entities' = InsertedEntities /\ facts' = InsertedFacts
                     /\ edges' = edges \cup recomputeEdges(facts') /\ docs' = [docs EXCEPT ![Doc].status = "indexed"]
                     /\ commit' = NextDelivery
                  \/ commit' = NextDelivery /\ UNCHANGED <<docs, facts, entities, edges>>
    BY Zenon DEF Commit, Nak
  <2>4. fetchBundle \/ ResolveByNames \/ Commit
    BY DEF ExtractionNext
  <2>5. CASE fetchBundle
    <3>1. CASE commit' = Following("resolve", << >>) /\ UNCHANGED <<docs, facts, entities, edges>>
      BY <3>1
    <3> QED BY <2>1, <2>5, <3>1
  <2>6. CASE ResolveByNames
    <3>1. ASSUME NEW r \in Resolutions, commit' = Following("commit", r) /\ UNCHANGED <<docs, facts, entities, edges>>
          PROVE  \E step, resolved : /\ commit' = Following(step, resolved) /\ UNCHANGED <<docs, facts, entities, edges>>
                                     /\ step = "commit" => resolved \in Resolutions
      BY <3>1
    <3> QED BY <2>2, <2>6, <3>1
  <2>7. CASE Commit
    BY <2>3, <2>7, Zenon
  <2> QED BY <2>4, <2>5, <2>6, <2>7
<1> QED BY <1>1, <1>2, <1>3, <1>4

LEMMA LinksNext ==
  ASSUME LinksInv, HistoryInv, RowsInv, HoldInv, Columns, scene \in Scenes, [Next]_vars
  PROVE  LinksInv'
<1>0. scene' = scene
  BY SceneStays
<1>1. CASE UNCHANGED <<facts, entities, edges, docs, commit>>
  BY <1>0, <1>1, SameRowsLinked, LinksStand, EdgesStand, YearsStand
<1>2. ASSUME NEW c \in Players, DecisionStep(c), UNCHANGED <<uploads, commit>> PROVE LinksInv'
  BY <1>0, <1>2, DecisionLinks DEF uploads
<1>3. ASSUME NEW c \in Players, UploadStep(c), UNCHANGED <<decisions, commit>> PROVE LinksInv'
  <2>1. \A d \in DOMAIN docs' : "year" \in DOMAIN docs'[d] /\ KnownYear(docs'[d].year)
    <3>1. CASE docs' = docs
      BY <3>1, YearsStand
    <3>2. CASE Register(c) /\ docs' # docs
      <4>1. /\ DOMAIN docs' = DOMAIN docs \cup {c}
            /\ \A d \in DOMAIN docs \ {c} : docs'[d] = docs[d]
            /\ "year" \in DOMAIN docs'[c] /\ docs'[c].year = 0
        BY <3>2 DEF Register
      <4> QED BY <4>1 DEF LinksInv, KnownYear
    <3> QED BY <1>3, <3>1, <3>2 DEF UploadStep, collectParts, uploadDocument, FindIDBySHA256,
              registerDocumentResponse, GetStatus, ListDocuments, documentFile, uploads
  <2>2. UNCHANGED <<facts, entities, edges, commit>>
    BY <1>3 DEF decisions
  <2> QED BY <1>0, <2>1, <2>2, SameRowsLinked, LinksStand, EdgesStand
<1>4. CASE ExtractionNext
  BY <1>0, <1>4, ExtractionLinks
<1>5. CASE Background /\ ~ExtractionNext
  BY <1>1, <1>5 DEF Background, vars, decisions, uploads
<1>6. CASE GatewayNext /\ UNCHANGED <<uploads, decisions, commit>>
  BY <1>1, <1>6 DEF decisions, uploads
<1>8. ASSUME NEW c \in Players, Acts(c) PROVE LinksInv'
  <2>1. CASE DecisionStep(c) /\ UNCHANGED <<uploads, commit>>
    BY <1>2, <2>1
  <2>2. CASE UploadStep(c) /\ UNCHANGED <<decisions, commit>>
    BY <1>3, <2>2
  <2>3. CASE UNCHANGED <<uploads, commit>> /\ ~DecisionStep(c)
    <3>1. UNCHANGED decisions
      BY <1>8, <2>3, OnlyDecisionsDecide
    <3> QED BY <1>1, <2>3, <3>1 DEF decisions, uploads
  <2> QED BY <1>8, <2>1, <2>2, <2>3 DEF Acts
<1> QED BY <1>4, <1>5, <1>6, <1>8, Steps
-----------------------------------------------------------------------------
(* The decisions since the n-th.                                              *)
NamedSince(n, f) == \E i \in n + 1..Len(history) : history[i].id = f /\ history[i].kind = "numeric"
MergedSince(n) == \E i \in n + 1..Len(history) : history[i].kind = "entity"

(* What a step does to the rows that are there: it changes a numeric fact    *)
(* only if it names the fact or merges an entity, and leaves its kind.        *)
NewlyNamed(f) == \E i \in Len(history) + 1..Len(history') : history'[i].id = f /\ history'[i].kind = "numeric"
NewlyMerged == \E i \in Len(history) + 1..Len(history') : history'[i].kind = "entity"

Rewritten(f) ==
  /\ f \in DOMAIN facts' /\ facts'[f].kind = facts[f].kind
  /\ NewlyMerged \/ (facts'[f].subject = facts[f].subject /\ facts'[f].parameter = facts[f].parameter)
  /\ facts[f].kind = "numeric" => NewlyNamed(f) \/ facts'[f].status = facts[f].status
  /\ facts[f].kind = "numeric" => NewlyNamed(f) \/ NewlyMerged \/ facts'[f] = facts[f]

HistoryGrows ==
  /\ Len(history) \in Nat /\ Len(history') \in Nat /\ Len(history) <= Len(history')
  /\ \A i \in 1..Len(history) : history'[i] = history[i]

LEMMA GrowsByOne ==
  ASSUME NEW row, \E S : history \in Seq(S), history' = Append(history, row)
  PROVE  /\ HistoryGrows
         /\ row.kind = "numeric" => NewlyNamed(row.id)
         /\ row.kind = "entity" => NewlyMerged
<1>1. PICK S : history \in Seq(S)
  OBVIOUS
<1>2. history \in Seq(S \cup {row}) /\ row \in S \cup {row}
  BY <1>1, SeqMonotonic
<1>3. /\ history' \in Seq(S \cup {row}) /\ Len(history') = Len(history) + 1
      /\ \A i \in 1..Len(history) : history'[i] = history[i]
      /\ history'[Len(history) + 1] = row
  BY <1>2, AppendProperties
<1>4. Len(history) \in Nat
  BY <1>1, LenProperties
<1>5. PICK n \in Nat : n = Len(history)
  BY <1>4
<1>6. PICK m \in Nat : m = n + 1 /\ m = Len(history') /\ m \in n + 1..Len(history') /\ history'[m] = row
  BY <1>3, <1>5
<1> QED BY <1>3, <1>4, <1>5, <1>6 DEF HistoryGrows, NewlyNamed, NewlyMerged

LEMMA NothingRewritten ==
  ASSUME \E S : history \in Seq(S), history' = history, DOMAIN facts \subseteq DOMAIN facts',
         \A f \in DOMAIN facts : facts'[f] = facts[f]
  PROVE  HistoryGrows /\ \A f \in DOMAIN facts : Rewritten(f)
<1>1. Len(history) \in Nat
  BY LenProperties
<1> QED BY <1>1 DEF HistoryGrows, Rewritten

LEMMA DecisionRewrites ==
  ASSUME HistoryInv, LinksInv, \E S : history \in Seq(S), NEW c, NEW level, facts' = WithDecision(c, level),
         history' = Append(history, [kind |-> Kind(c), id |-> Id(c), client |-> c])
  PROVE  HistoryGrows /\ \A f \in DOMAIN facts : Rewritten(f)
<1>1. PICK row : row = [kind |-> Kind(c), id |-> Id(c), client |-> c]
  OBVIOUS
<1>2. row.kind = Kind(c) /\ row.id = Id(c)
  BY <1>1
<1>3. HistoryGrows /\ (row.kind = "numeric" => NewlyNamed(row.id))
  BY <1>1, GrowsByOne
<1>4. ASSUME NEW f \in DOMAIN facts PROVE Rewritten(f)
  <2>1. PICK r : r = facts[f]
    OBVIOUS
  <2>2. PICK s : s = facts'[f]
    OBVIOUS
  <2>3. f \in DOMAIN facts' /\ (IF f = Id(c) /\ Touches(f, level) /\ r.kind = Kind(c)
                                THEN s = [r EXCEPT !.status = Body(c).status] ELSE s = r)
    BY <2>1, <2>2 DEF WithDecision
  <2>4. {"kind", "subject", "parameter", "status"} \subseteq DOMAIN r
    BY <2>1 DEF HistoryInv, LinksInv, Linked, StatusColumns, LinkColumns
  <2>5. s.kind = r.kind /\ s.subject = r.subject /\ s.parameter = r.parameter
    BY <2>3, <2>4
  <2>6. r.kind = "numeric" => NewlyNamed(f) \/ s = r
    <3>1. CASE f = Id(c) /\ r.kind = Kind(c)
      BY <1>2, <1>3, <3>1
    <3> QED BY <2>3, <3>1
  <2> QED BY <2>1, <2>2, <2>3, <2>5, <2>6 DEF Rewritten
<1> QED BY <1>3, <1>4

LEMMA MergeRewrites ==
  ASSUME HistoryInv, LinksInv, \E S : history \in Seq(S), NEW c, NEW x, NEW into, NEW level,
         facts' = facts \/ facts' = FactsAfter(x, into, level),
         history' = Append(history, [kind |-> "entity", id |-> x, client |-> c])
  PROVE  HistoryGrows /\ \A f \in DOMAIN facts : Rewritten(f)
<1>1. PICK row : row = [kind |-> "entity", id |-> x, client |-> c]
  OBVIOUS
<1>2. row.kind = "entity"
  BY <1>1
<1>3. HistoryGrows /\ NewlyMerged
  BY <1>1, <1>2, GrowsByOne
<1>4. \A f \in DOMAIN facts : f \in DOMAIN facts' /\ facts'[f].kind = facts[f].kind /\ facts'[f].status = facts[f].status
  <2>1. CASE facts' = facts
    BY <2>1
  <2>2. CASE facts' = FactsAfter(x, into, level)
    BY <2>2, MergeTells DEF KindsStay
  <2> QED BY <2>1, <2>2
<1>5. ASSUME NEW f \in DOMAIN facts PROVE Rewritten(f)
  <2>1. f \in DOMAIN facts' /\ facts'[f].kind = facts[f].kind /\ facts'[f].status = facts[f].status
    BY <1>4
  <2> QED BY <1>3, <2>1 DEF Rewritten
<1> QED BY <1>3, <1>5

LEMMA CommitRewrites ==
  ASSUME \E S : history \in Seq(S), history' = history, facts' = facts \/ facts' = InsertedFacts
  PROVE  HistoryGrows /\ \A f \in DOMAIN facts : Rewritten(f)
<1>1. DOMAIN facts \subseteq DOMAIN facts' /\ \A f \in DOMAIN facts : facts'[f] = facts[f]
  <2> HIDE DEF NewRows, FactFrom
  <2> QED BY DEF InsertedFacts
<1> QED BY <1>1, NothingRewritten

LEMMA StepRewrites ==
  ASSUME HistoryInv, LinksInv, \E S : history \in Seq(S), [Next]_vars
  PROVE  HistoryGrows /\ \A f \in DOMAIN facts : Rewritten(f)
<1>1. CASE UNCHANGED <<facts, history>>
  BY <1>1, NothingRewritten
<1>2. ASSUME NEW c \in Players, DecisionStep(c)
      PROVE  HistoryGrows /\ \A f \in DOMAIN facts : Rewritten(f)
  <2>1. CASE updateEntityStatus(c) \/ DecideContradiction(c) \/ reviewQueue(c)
    BY <1>1, <2>1 DEF updateEntityStatus, DecideContradiction, decideContradictionHandler, reviewQueue, Refuse, decisions
  <2>2. CASE UpdateFactStatus(c)
    <3>1. \/ UNCHANGED <<facts, history>>
          \/ /\ \E level \in {"internal", "public"} : facts' = WithDecision(c, level)
             /\ history' = Append(history, [kind |-> Kind(c), id |-> Id(c), client |-> c])
      BY <2>2 DEF UpdateFactStatus, updateFactStatusHandler, Refuse, decisions
    <3> QED BY <1>1, <3>1, DecisionRewrites
  <2>3. CASE MergeEntities(c)
    <3>1. \/ UNCHANGED <<facts, history>>
          \/ /\ facts' = facts \/ \E into, level : facts' = FactsAfter(Id(c), into, level)
             /\ history' = Append(history, [kind |-> "entity", id |-> Id(c), client |-> c])
      BY <2>3 DEF MergeEntities, mergeEntityHandler, Refuse, decisions
    <3> QED BY <1>1, <3>1, MergeRewrites
  <2> QED BY <1>2, <2>1, <2>2, <2>3 DEF DecisionStep
<1>3. CASE ExtractionNext
  <2>1. facts' = facts \/ facts' = InsertedFacts
    BY <1>3 DEF ExtractionNext, fetchBundle, ResolveByNames, Commit, Nak
  <2> QED BY <1>3, <2>1, CommitRewrites DEF ExtractionNext
<1>4. CASE Background /\ ~ExtractionNext
  BY <1>1, <1>4 DEF Background, vars, decisions
<1>5. CASE GatewayNext /\ UNCHANGED decisions
  BY <1>1, <1>5 DEF decisions
<1>6. ASSUME NEW c \in Players, Acts(c), ~DecisionStep(c)
      PROVE  HistoryGrows /\ \A f \in DOMAIN facts : Rewritten(f)
  BY <1>1, <1>6, OnlyDecisionsDecide DEF decisions
<1> QED BY <1>2, <1>3, <1>4, <1>5, <1>6, Steps

(* What a search of these fields has to answer for.                           *)
NamesReached(q, f) == {facts[f].subject, facts[f].parameter} \cap Range(q.plan.entities) \subseteq q.ids
Sought(q, level, f) == f \in queryFacts(Range(q.plan.entities), factFilter(q.plan), level)
Holding(q, f) == f \in Range(q.pack.facts)

FoundStands(q, f) ==
  f \in DOMAIN facts /\ facts[f].kind = "numeric" /\ (facts[f].status \in Hidden => NamedSince(q.since, f))

Overtaken(q, f) ==
  NamedSince(q.since, f) \/ MergedSince(q.since) \/ Cardinality(Range(q.pack.facts)) = FinalTop

Finds(q, level) ==
  /\ \A f \in Range(q.pack.facts) : FoundStands(q, f)
  /\ \A f \in q.before : Sought(q, level, f) => Holding(q, f) \/ Overtaken(q, f)

Answerable(q, level) ==
  /\ q.since \in 0..Len(history)
  /\ q.before \subseteq DOMAIN facts
  /\ q.step = "expand" => Range(q.pack.facts) = {}
  /\ q.step \notin {"expand", "failed"} => \A f \in q.before : MergedSince(q.since) \/ NamesReached(q, f)
  /\ q.step \notin {"expand", "facts", "failed"} => Finds(q, level)

FindInv == \A c \in Players : search[c].step # "none" => Answerable(search[c], Level(c))

LEMMA SinceGrows ==
  ASSUME HistoryGrows, NEW n \in 0..Len(history)
  PROVE  /\ n \in 0..Len(history')
         /\ \A f : NamedSince(n, f) => NamedSince(n, f)'
         /\ \A f : NewlyNamed(f) => NamedSince(n, f)'
         /\ MergedSince(n) => MergedSince(n)'
         /\ NewlyMerged => MergedSince(n)'
<1>1. PICK m \in Nat, k \in Nat : m = Len(history) /\ k = Len(history') /\ m <= k /\ n <= m /\ n \in Nat
  BY DEF HistoryGrows
<1>2. n \in 0..k
  BY <1>1
<1>3. \A i \in n + 1..m : i \in n + 1..k /\ history'[i] = history[i]
  BY <1>1 DEF HistoryGrows
<1>4. \A i \in m + 1..k : i \in n + 1..k
  BY <1>1
<1>5. \A f : NamedSince(n, f)' <=> \E i \in n + 1..k : history'[i].id = f /\ history'[i].kind = "numeric"
  BY <1>1 DEF NamedSince
<1>6. MergedSince(n)' <=> \E i \in n + 1..k : history'[i].kind = "entity"
  BY <1>1 DEF MergedSince
<1>7. \A f : NamedSince(n, f) => NamedSince(n, f)'
  BY <1>1, <1>3, <1>5 DEF NamedSince
<1>8. \A f : NewlyNamed(f) => NamedSince(n, f)'
  BY <1>1, <1>4, <1>5 DEF NewlyNamed
<1>9. MergedSince(n) => MergedSince(n)'
  BY <1>1, <1>3, <1>6 DEF MergedSince
<1>10. NewlyMerged => MergedSince(n)'
  BY <1>1, <1>4, <1>6 DEF NewlyMerged
<1> QED BY <1>1, <1>2, <1>7, <1>8, <1>9, <1>10

LEMMA SoughtByRow ==
  ASSUME NEW q, NEW level, NEW f \in DOMAIN facts, f \in DOMAIN facts', facts'[f] = facts[f], Sought(q, level, f)'
  PROVE  Sought(q, level, f)
BY DEF Sought, queryFacts, Considered, VisibleFact, RangesFor, siRange

LEMMA SoughtIsNumeric ==
  ASSUME NEW q, NEW level, NEW f, Sought(q, level, f)
  PROVE  f \in DOMAIN facts /\ facts[f].kind = "numeric"
BY DEF Sought, queryFacts, Considered, VisibleFact

(* A search stays answerable while others decide and commit.                  *)
LEMMA AnswerableStands ==
  ASSUME HistoryGrows, \A f \in DOMAIN facts : Rewritten(f), NEW q, NEW level, Answerable(q, level)
  PROVE  Answerable(q, level)'
<1>1. PICK n \in 0..Len(history) : n = q.since
  BY DEF Answerable
<1>2. /\ n \in 0..Len(history')
      /\ \A f : NamedSince(n, f) => NamedSince(n, f)'
      /\ \A f : NewlyNamed(f) => NamedSince(n, f)'
      /\ MergedSince(n) => MergedSince(n)'
      /\ NewlyMerged => MergedSince(n)'
  BY SinceGrows
<1>3. q.before \subseteq DOMAIN facts /\ q.before \subseteq DOMAIN facts'
  BY DEF Answerable, Rewritten
<1>4. ASSUME q.step \notin {"expand", "failed"}, NEW f \in q.before
      PROVE  MergedSince(n)' \/ NamesReached(q, f)'
  <2>1. MergedSince(n) \/ NamesReached(q, f)
    BY <1>1, <1>4 DEF Answerable
  <2>2. Rewritten(f)
    BY <1>3, <1>4
  <2> QED BY <1>2, <2>1, <2>2 DEF Rewritten, NamesReached
<1>5. ASSUME q.step \notin {"expand", "facts", "failed"}, NEW f \in Range(q.pack.facts)
      PROVE  FoundStands(q, f)'
  <2>1. FoundStands(q, f)
    BY <1>5 DEF Answerable, Finds
  <2>2. Rewritten(f)
    BY <2>1 DEF FoundStands
  <2> QED BY <1>1, <1>2, <2>1, <2>2 DEF FoundStands, Rewritten
<1>6. ASSUME q.step \notin {"expand", "facts", "failed"}, NEW f \in q.before, Sought(q, level, f)'
      PROVE  Holding(q, f) \/ Overtaken(q, f)'
  <2>1. Rewritten(f) /\ f \in DOMAIN facts
    BY <1>3, <1>6
  <2>2. facts'[f].kind = "numeric"
    BY <1>6 DEF Sought, queryFacts, Considered, VisibleFact
  <2>3. CASE NewlyNamed(f) \/ NewlyMerged
    BY <1>1, <1>2, <2>3 DEF Overtaken
  <2>4. CASE facts'[f] = facts[f]
    <3>1. Sought(q, level, f)
      BY <1>6, <2>1, <2>4, SoughtByRow DEF Rewritten
    <3>2. Holding(q, f) \/ Overtaken(q, f)
      BY <1>6, <3>1 DEF Answerable, Finds
    <3> QED BY <1>1, <1>2, <3>2 DEF Overtaken
  <2> QED BY <2>1, <2>2, <2>3, <2>4 DEF Rewritten
<1>7. q.step \notin {"expand", "facts", "failed"} => Finds(q, level)'
  <2> SUFFICES ASSUME q.step \notin {"expand", "facts", "failed"} PROVE Finds(q, level)'
    OBVIOUS
  <2>1. \A f \in Range(q.pack.facts) : FoundStands(q, f)'
    BY <1>5
  <2>2. \A f \in q.before : Sought(q, level, f)' => Holding(q, f) \/ Overtaken(q, f)'
    BY <1>6
  <2> QED BY <2>1, <2>2 DEF Finds, Holding
<1> QED BY <1>1, <1>2, <1>3, <1>4, <1>7 DEF Answerable

(* Two facts have two ids.                                                    *)
LEMMA IdsAreOne ==
  ASSUME LinksInv, scene \in Scenes, NEW f \in DOMAIN facts, NEW g \in DOMAIN facts, facts[f].id = facts[g].id
  PROVE  f = g /\ facts[f].id \in Int
<1>1. OwnId(f, facts[f].id) /\ OwnId(g, facts[g].id)
  BY DEF LinksInv
<1>2. \A x \in Delivered : \E i \in DOMAIN scene.deliveries : x \in Range(scene.deliveries[i].candidates)
  BY DEF Delivered
<1>3. \A x, y \in Delivered : x.said.id = y.said.id => x.row = y.row
  BY <1>2, RowsAssumption
<1>4. \A x \in Delivered : \A h \in DOMAIN scene.facts : x.said.id # scene.facts[h].id
  BY <1>2, RowsAssumption
<1>5. \A x \in Delivered : x.said.id \in Int
  BY <1>2, BundlesAssumption
<1>6. \A h, k \in DOMAIN scene.facts : scene.facts[h].id \in Int /\ (scene.facts[h].id = scene.facts[k].id => h = k)
  BY KeysAssumption, FactsAssumption
<1> QED BY <1>1, <1>3, <1>4, <1>5, <1>6 DEF OwnId

-----------------------------------------------------------------------------
(* A read of a search: the plan, and the moment it began, stay.               *)
SameRequest(q, old) == q.plan = old.plan /\ q.since = old.since /\ q.before = old.before

BecomesSearch(c, q) ==
  /\ search' = [d \in Players |-> search'[d]]
  /\ \A d \in Players \ {c} : search'[d] = search[d]
  /\ search'[c] = q

LEMMA ThenKeeps ==
  ASSUME PackInv, NEW c \in Players, search[c].step \in Range(ReadSteps) \ {"expand"}, NEW pack, Then(c, pack)
  PROVE  \E q : /\ BecomesSearch(c, q) /\ SameRequest(q, search[c]) /\ q.ids = search[c].ids /\ q.pack = pack
                /\ q.step \in {"ready", "chunks", "consensus", "contradictions", "gaps", "experts", "graph"}
<1>1. PICK i \in 1..8 : i = CHOOSE j \in DOMAIN ReadSteps : ReadSteps[j] = search[c].step
  BY DEF ReadSteps, Range
<1>2. ReadSteps[i] = search[c].step
  BY <1>1 DEF Range
<1>3. i # 1 /\ Len(ReadSteps) = 8
  BY <1>2 DEF ReadSteps
<1>4. PICK next : next = IF i = Len(ReadSteps) THEN "ready" ELSE ReadSteps[i + 1]
  OBVIOUS
<1>5. next \in {"ready", "chunks", "consensus", "contradictions", "gaps", "experts", "graph"}
  <2>1. i = 2 \/ i = 3 \/ i = 4 \/ i = 5 \/ i = 6 \/ i = 7 \/ i = 8
    BY <1>3
  <2> QED BY <1>3, <1>4, <2>1 DEF ReadSteps
<1>6. search' = [search EXCEPT ![c].pack = pack, ![c].step = next]
  BY <1>1, <1>4 DEF Then
<1>7. PICK q : q = search'[c]
  OBVIOUS
<1>8. BecomesSearch(c, q)
  BY <1>6, <1>7 DEF PackInv, BecomesSearch
<1>9. SameRequest(q, search[c]) /\ q.ids = search[c].ids /\ q.pack = pack /\ q.step = next
  BY <1>6, <1>7 DEF PackInv, SearchFields, SameRequest
<1> QED BY <1>5, <1>8, <1>9

LEMMA StartAnswers ==
  ASSUME NEW S, history \in Seq(S), NEW level, NEW q, q.since = Len(history), q.before = DOMAIN facts,
         q.ids = {}, q.pack = EmptyPack, q.step = IF q.plan.entities = << >> THEN "ready" ELSE "expand"
  PROVE  Answerable(q, level)
<1>1. Len(history) \in Nat
  BY LenProperties
<1>2. q.since \in 0..Len(history)
  BY <1>1
<1>3. Range(q.pack.facts) = {}
  BY DEF EmptyPack, Range
<1>4. q.step = "ready" => Range(q.plan.entities) = {}
  BY DEF Range
<1>5. ASSUME q.step = "ready" PROVE Finds(q, level)
  <2>1. \A f : ~Sought(q, level, f)
    BY <1>4, <1>5 DEF Sought, queryFacts, Considered
  <2> QED BY <1>3, <2>1 DEF Finds
<1>6. ASSUME q.step = "ready", NEW f PROVE NamesReached(q, f)
  BY <1>4, <1>6 DEF NamesReached
<1> QED BY <1>2, <1>3, <1>5, <1>6 DEF Answerable

LEMMA ExpandAnswers ==
  ASSUME LinksInv, NEW level, NEW old, old.step = "expand", Answerable(old, level), NEW q, SameRequest(q, old),
         q.pack = old.pack, q.ids = expandEntityIDs(Range(old.plan.entities)),
         q.step = IF q.ids = {} THEN "ready" ELSE "facts"
  PROVE  Answerable(q, level)
<1>1. q.since \in 0..Len(history) /\ q.before \subseteq DOMAIN facts /\ Range(q.pack.facts) = {}
  BY DEF Answerable, SameRequest
<1>2. \A f \in DOMAIN facts : {facts[f].subject, facts[f].parameter} \subseteq DOMAIN entities
  BY DEF LinksInv, Linked
<1>3. Range(old.plan.entities) \cap DOMAIN entities \subseteq q.ids
  BY DEF expandEntityIDs
<1>4. \A f \in DOMAIN facts : NamesReached(q, f)
  BY <1>2, <1>3 DEF NamesReached, SameRequest
<1>5. ASSUME q.ids = {} PROVE Finds(q, level)
  <2>1. \A f \in DOMAIN facts : ~Sought(q, level, f)
    BY <1>4, <1>5 DEF NamesReached, Sought, queryFacts, Considered
  <2> QED BY <1>1, <2>1 DEF Finds
<1>6. q.step = "ready" => q.ids = {}
  OBVIOUS
<1>7. q.step \in {"ready", "facts"}
  OBVIOUS
<1> QED BY <1>1, <1>4, <1>5, <1>6, <1>7 DEF Answerable

LEMMA FactsAnswer ==
  ASSUME LinksInv, scene \in Scenes, NEW level, NEW old, old.step = "facts", Answerable(old, level),
         NEW q, SameRequest(q, old), q.ids = old.ids,
         q.step \in {"ready", "chunks", "consensus", "contradictions", "gaps", "experts", "graph"},
         q.pack.facts = First(FinalTop, rankFacts(queryFacts(old.ids, factFilter(old.plan), level), Range(old.plan.entities)))
  PROVE  Answerable(q, level)
<1>1. PICK slugs : slugs = Range(old.plan.entities)
  OBVIOUS
<1>2. PICK filter : filter = factFilter(old.plan)
  OBVIOUS
<1>3. PICK Q : Q = queryFacts(q.ids, filter, level)
  OBVIOUS
<1>4. PICK found : found = q.pack.facts
  OBVIOUS
<1>5. found = First(FinalTop, rankFacts(Q, slugs))
  BY <1>1, <1>2, <1>3, <1>4
<1>6. Q \subseteq DOMAIN facts /\ \A f \in Q : facts[f].kind = "numeric" /\ facts[f].status \notin Hidden
  BY <1>3 DEF queryFacts, Considered, VisibleFact
<1>7. Range(found) \subseteq Q
  BY <1>5, FirstRange, RankedAreFound
<1>8. \A f \in Range(q.pack.facts) : FoundStands(q, f)
  BY <1>4, <1>6, <1>7 DEF FoundStands
<1>9. ASSUME NEW f \in q.before PROVE MergedSince(q.since) \/ NamesReached(q, f)
  <2>1. MergedSince(old.since) \/ NamesReached(old, f)
    BY <1>9 DEF Answerable, SameRequest
  <2> QED BY <2>1 DEF SameRequest, NamesReached
<1>10. ASSUME NEW f \in q.before, Sought(q, level, f), NamesReached(q, f) PROVE f \in Q
  <2>1. f \in queryFacts(slugs, filter, level)
    BY <1>1, <1>2, <1>10 DEF Sought, SameRequest
  <2>2. {facts[f].subject, facts[f].parameter} \cap slugs \subseteq q.ids
    BY <1>1, <1>10 DEF NamesReached, SameRequest
  <2> QED BY <1>3, <2>1, <2>2 DEF queryFacts, Considered
<1>11. ASSUME NEW f \in Q, f \notin Range(found) PROVE Cardinality(Range(found)) = FinalTop
  <2>1. IsFiniteSet(Q)
    BY <1>6, FS_Subset DEF LinksInv
  <2>2. \A g \in Q : facts[g].confidence \in Int /\ KnownYear(facts[g].year)
    BY <1>6 DEF LinksInv, Linked
  <2>3. \A g, h \in Q : facts[g].id \in Int /\ (facts[g].id = facts[h].id => g = h)
    BY <1>6, IdsAreOne
  <2> QED BY <1>5, <1>6, <1>11, <2>1, <2>2, <2>3, RankedOrCrowdedOut, RankingAssumption
<1>12. ASSUME NEW f \in q.before, Sought(q, level, f) PROVE Holding(q, f) \/ Overtaken(q, f)
  BY <1>4, <1>9, <1>10, <1>11, <1>12 DEF Holding, Overtaken
<1>13. Finds(q, level)
  BY <1>8, <1>12 DEF Finds
<1> QED BY <1>9, <1>13 DEF Answerable, SameRequest

(* The other reads add to the pack; an end of the search changes its step.    *)
LEMMA LaterReadAnswers ==
  ASSUME NEW level, NEW old, old.step \notin {"expand", "facts", "failed"}, Answerable(old, level), NEW q, SameRequest(q, old),
         q.ids = old.ids, q.pack.facts = old.pack.facts, q.step \notin {"expand", "facts"}
  PROVE  Answerable(q, level)
<1>1. \A f : FoundStands(q, f) <=> FoundStands(old, f)
  BY DEF FoundStands, SameRequest
<1>2. \A f : Sought(q, level, f) <=> Sought(old, level, f)
  BY DEF Sought, SameRequest
<1>3. \A f : /\ Holding(q, f) <=> Holding(old, f)
             /\ Overtaken(q, f) <=> Overtaken(old, f)
             /\ NamesReached(q, f) <=> NamesReached(old, f)
  BY DEF Holding, Overtaken, NamesReached, SameRequest
<1>4. Finds(q, level)
  BY <1>1, <1>2, <1>3 DEF Finds, Answerable, SameRequest
<1> QED BY <1>3, <1>4 DEF Answerable, SameRequest

LEMMA FailedAnswers ==
  ASSUME NEW level, NEW old, Answerable(old, level), NEW q, SameRequest(q, old), q.step = "failed"
  PROVE  Answerable(q, level)
<1>1. q.since \in 0..Len(history) /\ q.before \subseteq DOMAIN facts
  BY DEF Answerable, SameRequest
<1>2. q.step = "expand" => Range(q.pack.facts) = {}
  OBVIOUS
<1>3. q.step \notin {"expand", "failed"} => \A f \in q.before : MergedSince(q.since) \/ NamesReached(q, f)
  OBVIOUS
<1>4. q.step \notin {"expand", "facts", "failed"} => Finds(q, level)
  OBVIOUS
<1> QED BY <1>1, <1>2, <1>3, <1>4 DEF Answerable

LEMMA ReadKeeps ==
  ASSUME LinksInv, PackInv, scene \in Scenes, NEW c \in Players, buildPack(c), Answerable(search[c], Level(c))
  PROVE  \E q : BecomesSearch(c, q) /\ q.step # "none" /\ Answerable(q, Level(c))
<1>0. PICK level : level = Level(c)
  OBVIOUS
<1>1. PICK old : old = search[c]
  OBVIOUS
<1>2. Answerable(old, level) /\ DOMAIN old = SearchFields
  BY <1>0, <1>1 DEF PackInv
<1>3. PICK q : q = search'[c]
  OBVIOUS
<1>4. CASE ExpandEntityIDs(c)
  <2>1. PICK ids, next : /\ ids = expandEntityIDs(Range(old.plan.entities)) /\ next = IF ids = {} THEN "ready" ELSE "facts"
                         /\ search' = [search EXCEPT ![c].ids = ids, ![c].step = next]
    BY <1>1, <1>4 DEF ExpandEntityIDs, planSlugs
  <2>2. BecomesSearch(c, q)
    BY <1>3, <2>1 DEF PackInv, BecomesSearch
  <2>3. SameRequest(q, old) /\ q.ids = ids /\ q.step = next /\ q.pack = old.pack
    BY <1>1, <1>3, <2>1 DEF PackInv, SearchFields, SameRequest
  <2>4. old.step = "expand"
    BY <1>1, <1>4 DEF ExpandEntityIDs, Reading
  <2>5. Answerable(q, level)
    BY <1>2, <2>1, <2>3, <2>4, ExpandAnswers
  <2> QED BY <1>0, <2>1, <2>2, <2>3, <2>5
<1>5. ASSUME search' = [search EXCEPT ![c].step = "failed"]
      PROVE  \E r : BecomesSearch(c, r) /\ r.step # "none" /\ Answerable(r, Level(c))
  <2>1. BecomesSearch(c, q)
    BY <1>3, <1>5 DEF PackInv, BecomesSearch
  <2>2. SameRequest(q, old) /\ q.step = "failed"
    BY <1>1, <1>3, <1>5 DEF PackInv, SearchFields, SameRequest
  <2>3. Answerable(q, level)
    BY <1>2, <2>2, FailedAnswers
  <2> QED BY <1>0, <2>1, <2>2, <2>3
<1>6. CASE Facts(c)
  <2>1. PICK found : found = First(FinalTop, rankFacts(queryFacts(old.ids, factFilter(old.plan), level), Range(old.plan.entities)))
    OBVIOUS
  <2>2. old.step = "facts"
    BY <1>1, <1>6 DEF Facts, Reading
  <2>3. CASE search' # [search EXCEPT ![c].step = "failed"]
    <3>1. PICK subjects : Then(c, [old.pack EXCEPT !.facts = found, !.subjects = subjects])
      BY <1>0, <1>1, <1>6, <2>1, <2>3 DEF Facts, planSlugs
    <3>2. PICK pack : pack = [old.pack EXCEPT !.facts = found, !.subjects = subjects]
      OBVIOUS
    <3>3. pack.facts = found
      <4>1. "facts" \in DOMAIN old.pack
        BY <1>1, <2>2 DEF PackInv, Packed, PackFits, PackParts
      <4> QED BY <3>2, <4>1
    <3>4. search[c].step \in Range(ReadSteps) \ {"expand"}
      BY <1>1, <2>2, ReadsAre
    <3>5. PICK r : /\ BecomesSearch(c, r) /\ SameRequest(r, old) /\ r.ids = old.ids /\ r.pack = pack
                   /\ r.step \in {"ready", "chunks", "consensus", "contradictions", "gaps", "experts", "graph"}
      BY <1>1, <3>1, <3>2, <3>4, ThenKeeps
    <3>6. Answerable(r, level)
      BY <1>2, <2>1, <2>2, <3>3, <3>5, FactsAnswer
    <3> QED BY <1>0, <3>5, <3>6
  <2> QED BY <1>5, <2>3
<1>7. CASE SearchFails(c)
  BY <1>5, <1>7 DEF SearchFails
<1>8. CASE FTSChunks(c) \/ Consensus(c) \/ Contradictions(c) \/ Gaps(c) \/ Experts(c) \/ EgoGraph(c)
  <2>1. old.step \in {"chunks", "consensus", "contradictions", "gaps", "experts", "graph"}
    BY <1>1, <1>8 DEF FTSChunks, Consensus, Contradictions, Gaps, Experts, EgoGraph, Reading
  <2>2. \/ \E v : \/ Then(c, [old.pack EXCEPT !.chunks = v]) \/ Then(c, [old.pack EXCEPT !.consensus = v])
                \/ Then(c, [old.pack EXCEPT !.gaps = v]) \/ Then(c, [old.pack EXCEPT !.experts = v])
                \/ Then(c, [old.pack EXCEPT !.contradictions = v])
        \/ \E v, w, u : Then(c, [old.pack EXCEPT !.nodes = v, !.edges = w, !.stats = u])
    BY <1>1, <1>8 DEF FTSChunks, Consensus, Contradictions, Gaps, Experts, EgoGraph
  <2>3. PICK pack : Then(c, pack) /\ pack.facts = old.pack.facts
    <3>1. "facts" \in DOMAIN old.pack
      BY <1>1, <2>1 DEF PackInv, Packed, PackFits, PackParts
    <3>2. CASE \E v, w, u : Then(c, [old.pack EXCEPT !.nodes = v, !.edges = w, !.stats = u])
      <4>1. PICK v, w, u : Then(c, [old.pack EXCEPT !.nodes = v, !.edges = w, !.stats = u])
        BY <3>2
      <4>2. PICK pack : pack = [old.pack EXCEPT !.nodes = v, !.edges = w, !.stats = u]
        OBVIOUS
      <4>3. pack.facts = old.pack.facts
        BY <3>1, <4>2
      <4> QED BY <4>1, <4>2, <4>3
    <3>3. CASE \E v : \/ Then(c, [old.pack EXCEPT !.chunks = v]) \/ Then(c, [old.pack EXCEPT !.consensus = v])
                      \/ Then(c, [old.pack EXCEPT !.gaps = v]) \/ Then(c, [old.pack EXCEPT !.experts = v])
                      \/ Then(c, [old.pack EXCEPT !.contradictions = v])
      <4>1. PICK v : \/ Then(c, [old.pack EXCEPT !.chunks = v]) \/ Then(c, [old.pack EXCEPT !.consensus = v])
                     \/ Then(c, [old.pack EXCEPT !.gaps = v]) \/ Then(c, [old.pack EXCEPT !.experts = v])
                     \/ Then(c, [old.pack EXCEPT !.contradictions = v])
        BY <3>3
      <4>2. PICK part \in {"chunks", "consensus", "gaps", "experts", "contradictions"} :
              Then(c, [k \in DOMAIN old.pack |-> IF k = part THEN v ELSE old.pack[k]])
        BY <4>1
      <4>3. PICK pack : pack = [k \in DOMAIN old.pack |-> IF k = part THEN v ELSE old.pack[k]]
        OBVIOUS
      <4>4. pack.facts = old.pack.facts
        BY <3>1, <4>3
      <4> QED BY <4>2, <4>3, <4>4
    <3> QED BY <2>2, <3>2, <3>3
  <2>4. search[c].step \in Range(ReadSteps) \ {"expand"}
    BY <1>1, <2>1, ReadsAre
  <2>5. PICK r : /\ BecomesSearch(c, r) /\ SameRequest(r, old) /\ r.ids = old.ids /\ r.pack = pack
                 /\ r.step \in {"ready", "chunks", "consensus", "contradictions", "gaps", "experts", "graph"}
    BY <1>1, <2>3, <2>4, ThenKeeps
  <2>6. Answerable(r, level)
    BY <1>2, <2>1, <2>3, <2>5, LaterReadAnswers
  <2> QED BY <1>0, <2>5, <2>6
<1> QED BY <1>4, <1>6, <1>7, <1>8 DEF buildPack

LEMMA MoveKeeps ==
  ASSUME LinksInv, PackInv, FindInv, scene \in Scenes, \E S : history \in Seq(S), NEW c \in Players, SearchMove(c)
  PROVE  \E q : BecomesSearch(c, q) /\ q.step # "none" /\ Answerable(q, Level(c))
<1>1. PICK old : old = search[c]
  OBVIOUS
<1>2. PICK q : q = search'[c]
  OBVIOUS
<1>3. ASSUME NEW plan, StartSearch(c, plan)
      PROVE  BecomesSearch(c, q) /\ q.step # "none" /\ Answerable(q, Level(c))
  <2>1. PICK next : next = IF plan.entities = << >> THEN "ready" ELSE "expand"
    OBVIOUS
  <2>2. search' = [search EXCEPT ![c] = [step |-> next, plan |-> plan, since |-> Len(history), before |-> DOMAIN facts,
                                         ids |-> {}, pack |-> EmptyPack]]
    BY <1>3, <2>1 DEF StartSearch
  <2>3. BecomesSearch(c, q)
    BY <1>2, <2>2 DEF PackInv, BecomesSearch
  <2>4. /\ q.since = Len(history) /\ q.before = DOMAIN facts /\ q.ids = {} /\ q.pack = EmptyPack
        /\ q.plan = plan /\ q.step = next
    BY <1>2, <2>2 DEF PackInv
  <2>5. Answerable(q, Level(c))
    BY <2>1, <2>4, StartAnswers
  <2> QED BY <2>1, <2>3, <2>4, <2>5
<1>4. CASE buildPack(c)
  <2>1. search[c].step \in Range(ReadSteps)
    BY <1>4, ReadsAre DEF buildPack, ExpandEntityIDs, Facts, FTSChunks, Consensus, Contradictions, Gaps, Experts,
                    EgoGraph, SearchFails, Reading
  <2>2. Answerable(search[c], Level(c))
    BY <2>1, ReadsAre DEF FindInv
  <2> QED BY <1>4, <2>2, ReadKeeps
<1>5. ASSUME search[c].step = "ready", search' = [search EXCEPT ![c].step = "done"]
      PROVE  BecomesSearch(c, q) /\ q.step # "none" /\ Answerable(q, Level(c))
  <2>1. BecomesSearch(c, q)
    BY <1>2, <1>5 DEF PackInv, BecomesSearch
  <2>2. SameRequest(q, old) /\ q.ids = old.ids /\ q.pack = old.pack /\ q.step = "done"
    BY <1>1, <1>2, <1>5 DEF PackInv, SearchFields, SameRequest
  <2>3. Answerable(old, Level(c)) /\ old.step = "ready"
    BY <1>1, <1>5 DEF FindInv
  <2>4. q.pack.facts = old.pack.facts
    BY <2>2
  <2>5. Answerable(q, Level(c))
    BY <2>2, <2>3, <2>4, LaterReadAnswers
  <2> QED BY <2>1, <2>2, <2>5
<1> QED BY <1>3, <1>4, <1>5 DEF SearchMove

LEMMA FindInit == Init => FindInv
BY DEF Init, SearchInit, FindInv, Nothing

LEMMA SearchStands ==
  ASSUME HistoryGrows, \A f \in DOMAIN facts : Rewritten(f), NEW d, Answerable(search[d], Level(d)),
         search'[d] = search[d], caller'[d] = caller[d]
  PROVE  Answerable(search[d], Level(d))'
<1>1. PICK q : q = search[d]
  OBVIOUS
<1>2. PICK level : level = Level(d)
  OBVIOUS
<1>3. Answerable(q, level)'
  BY <1>1, <1>2, AnswerableStands
<1>4. search'[d] = q /\ Level(d)' = level
  BY <1>1, <1>2 DEF Level
<1> QED BY <1>3, <1>4

LEMMA FindNext ==
  ASSUME DrainInv, PackInv, LinksInv, HistoryInv, FindInv, scene \in Scenes, \E S : history \in Seq(S), [Next]_vars
  PROVE  FindInv'
<1>0. Players' = Players /\ HistoryGrows /\ \A f \in DOMAIN facts : Rewritten(f)
  BY StepRewrites, SceneStays DEF Players
<1>1. CASE UNCHANGED search /\ \A c \in Players : caller[c] # None => caller'[c] = caller[c]
  <2>1. ASSUME NEW c \in Players, search[c].step # "none" PROVE Answerable(search[c], Level(c))'
    <3>1. caller'[c] = caller[c]
      BY <1>1, <2>1 DEF PackInv, Packed
    <3>2. Answerable(search[c], Level(c))
      BY <2>1 DEF FindInv
    <3> QED BY <1>0, <1>1, <3>1, <3>2, SearchStands
  <2> QED BY <1>0, <1>1, <2>1 DEF FindInv
<1>2. ASSUME NEW c \in Players, Acts(c), SearchMove(c) PROVE FindInv'
  <2>1. UNCHANGED caller
    BY <1>2, ActsLeaveCallers
  <2>2. PICK q : BecomesSearch(c, q) /\ q.step # "none" /\ Answerable(q, Level(c))
    BY <1>2, MoveKeeps
  <2>3. PICK level : level = Level(c)
    OBVIOUS
  <2>4. Answerable(q, level)'
    BY <1>0, <2>2, <2>3, AnswerableStands
  <2>5. search'[c] = q /\ Level(c)' = level
    BY <2>1, <2>2, <2>3 DEF BecomesSearch, Level
  <2>6. Answerable(search[c], Level(c))'
    BY <2>4, <2>5
  <2>7. ASSUME NEW d \in Players \ {c}, search'[d].step # "none" PROVE Answerable(search[d], Level(d))'
    <3>1. search'[d] = search[d]
      BY <2>2 DEF BecomesSearch
    <3>2. Answerable(search[d], Level(d))
      BY <2>7, <3>1 DEF FindInv
    <3> QED BY <1>0, <2>1, <3>1, <3>2, SearchStands
  <2> QED BY <1>0, <2>6, <2>7 DEF FindInv
<1>3. CASE GatewayNext /\ UNCHANGED search
  <2>1. \A c \in Players : caller[c] # None => caller'[c] = caller[c]
    BY <1>3 DEF GatewayNext, authorize, emitAuditEvent, recordAudit, HangUp, RuntimeStep, Problem, Respond, DrainInv
  <2> QED BY <1>1, <1>3, <2>1
<1>4. CASE Background
  <2>1. UNCHANGED <<search, caller>>
    BY <1>4, BackgroundIsSilent DEF Background, Silent, vars
  <2> QED BY <1>1, <2>1
<1>5. ASSUME NEW c \in Players, Acts(c), UNCHANGED search PROVE FindInv'
  BY <1>1, <1>5, ActsLeaveCallers
<1> QED BY <1>2, <1>3, <1>4, <1>5, Steps, SearchMoves

(* What the invariant says in terms of the decisions since a search began.    *)
LEMMA SinceIsPart ==
  ASSUME NEW S, history \in Seq(S), NEW c, search[c].since \in 0..Len(history)
  PROVE  /\ \A f : NamedSince(search[c].since, f) => Changed(c, f)
         /\ MergedSince(search[c].since) => \E i \in DOMAIN Since(c) : Since(c)[i].kind = "entity"
<1>1. PICK n \in Nat, m \in Nat : n = search[c].since /\ m = Len(history) /\ n <= m
  BY LenProperties
<1>2. n + 1 \in 1..m + 1 /\ m \in n..m
  BY <1>1
<1>3. PICK part : part = Since(c)
  OBVIOUS
<1>4. part = SubSeq(history, n + 1, m)
  BY <1>1, <1>3 DEF Since
<1>5. DOMAIN part = 1..m - n /\ \A i \in 1..m - n : part[i] = history[n + i]
  <2>1. part = [i \in 1..(m - (n + 1) + 1) |-> history[i + (n + 1) - 1]]
    BY <1>4
  <2>2. m - (n + 1) + 1 = m - n /\ \A i \in 1..m - n : i + (n + 1) - 1 = n + i
    BY <1>1
  <2> QED BY <2>1, <2>2
<1>6. ASSUME NEW i \in n + 1..m PROVE \E j \in DOMAIN part : part[j] = history[i]
  <2>1. PICK j \in 1..m - n : j = i - n /\ n + j = i
    BY <1>6
  <2> QED BY <1>5, <2>1
<1> QED BY <1>1, <1>3, <1>6 DEF NamedSince, MergedSince, Changed

(* What a search finds was not hidden when it began, and what it does not     *)
(* find although the plan asks for it was crowded out by as many facts as a   *)
(* pack holds, came later, or was changed or merged meanwhile.                *)
THEOREM FindsWhatStands == Spec => []SearchFindsWhatStands
<1>1. PackInv /\ FindInv /\ AuditInv => SearchFindsWhatStands
  <2> SUFFICES ASSUME PackInv, FindInv, AuditInv, NEW c \in Players, Searched(c)
               PROVE  /\ \A f \in Range(search[c].pack.facts) : facts[f].status \in Hidden => Changed(c, f)
                      /\ \A f \in queryFacts(planSlugs(c), factFilter(search[c].plan), Level(c)) \ Range(search[c].pack.facts) :
                           \/ Changed(c, f) \/ f \notin search[c].before
                           \/ \E i \in DOMAIN Since(c) : Since(c)[i].kind = "entity"
                           \/ Cardinality(Range(search[c].pack.facts)) = FinalTop
    BY DEF SearchFindsWhatStands
  <2>1. search[c].step = "done"
    BY DEF Searched
  <2>2. Answerable(search[c], Level(c))
    BY <2>1 DEF FindInv
  <2>3. Finds(search[c], Level(c)) /\ search[c].since \in 0..Len(history)
    BY <2>1, <2>2 DEF Answerable
  <2>4. /\ \A f : NamedSince(search[c].since, f) => Changed(c, f)
        /\ MergedSince(search[c].since) => \E i \in DOMAIN Since(c) : Since(c)[i].kind = "entity"
    BY <2>3, SinceIsPart DEF AuditInv
  <2>5. ASSUME NEW f \in Range(search[c].pack.facts), facts[f].status \in Hidden PROVE Changed(c, f)
    BY <2>3, <2>4, <2>5 DEF Finds, FoundStands
  <2>6. ASSUME NEW f \in queryFacts(planSlugs(c), factFilter(search[c].plan), Level(c)) \ Range(search[c].pack.facts)
        PROVE  \/ Changed(c, f) \/ f \notin search[c].before
               \/ \E i \in DOMAIN Since(c) : Since(c)[i].kind = "entity"
               \/ Cardinality(Range(search[c].pack.facts)) = FinalTop
    BY <2>3, <2>4, <2>6 DEF Finds, Sought, Holding, Overtaken, planSlugs
  <2> QED BY <2>5, <2>6
<1>2. Init => /\ DrainInv /\ AuditInv /\ ReviewInv /\ HoldInv /\ AcceptInv /\ RowsInv
              /\ PackInv /\ HistoryInv /\ LinksInv /\ FindInv
  BY DrainInit, AuditInit, ReviewInit, HoldInit, AcceptInit, RowsInit, PackInit, HistoryInit, LinksInit, FindInit
<1>3. /\ DrainInv /\ AuditInv /\ ReviewInv /\ HoldInv /\ AcceptInv /\ RowsInv
      /\ PackInv /\ HistoryInv /\ LinksInv /\ FindInv /\ [Next]_vars
      => (/\ DrainInv /\ AuditInv /\ ReviewInv /\ HoldInv /\ AcceptInv /\ RowsInv
          /\ PackInv /\ HistoryInv /\ LinksInv /\ FindInv)'
  <2> SUFFICES ASSUME DrainInv, AuditInv, ReviewInv, HoldInv, AcceptInv, RowsInv, PackInv, HistoryInv, LinksInv, FindInv, [Next]_vars
               PROVE  (/\ DrainInv /\ AuditInv /\ ReviewInv /\ HoldInv /\ AcceptInv /\ RowsInv
                       /\ PackInv /\ HistoryInv /\ LinksInv /\ FindInv)'
    OBVIOUS
  <2>1. scene \in Scenes /\ (\E S : history \in Seq(S)) /\ Columns
    BY DEF AcceptInv, AuditInv, ReviewInv
  <2>2. DrainInv' /\ AuditInv'
    BY DrainNext, AuditNext
  <2>3. ReviewInv'
    BY ReviewNext
  <2>4. HoldInv' /\ AcceptInv'
    BY HoldNext, AcceptNext
  <2>5. RowsInv' /\ PackInv'
    BY <2>1, RowsStep, PackNext
  <2>6. HistoryInv'
    BY <2>1, HistoryNext
  <2>7. LinksInv'
    BY <2>1, LinksNext
  <2>8. FindInv'
    BY <2>1, FindNext
  <2> QED BY <2>2, <2>3, <2>4, <2>5, <2>6, <2>7, <2>8
<1> QED BY <1>1, <1>2, <1>3, PTL DEF Spec

-----------------------------------------------------------------------------
(* The types of the whole.  Of the gateway: who is announced asked, and the   *)
(* process is in a known state.                                               *)
GateInv ==
  /\ left \subseteq Players
  /\ \A e \in announced : e.client \in Players
  /\ process \in [state : {"serving", "draining", "closing", "stopped"}, late : BOOLEAN]

LEMMA GateInit == Init => GateInv
BY DEF Init, GatewayInit, GateInv

LEMMA UploadsAnnounceNothing == ASSUME NEW c \in Players, UploadStep(c) PROVE announced' = announced
BY DEF UploadStep, collectParts, uploadDocument, FindIDBySHA256, Register, registerDocumentResponse, GetStatus,
       ListDocuments, documentFile, Problem, Respond, Registered, Existing, gateway

LEMMA DecisionsAnnounceNothing == ASSUME NEW c \in Players, DecisionStep(c) PROVE announced' = announced
<1>1. UpdateFactStatus(c) => announced' = announced
  BY DEF UpdateFactStatus, updateFactStatusHandler, Refuse, Answer, Problem, Respond
<1>2. updateEntityStatus(c) => announced' = announced
  BY DEF updateEntityStatus, Refuse, Problem, Respond
<1>3. MergeEntities(c) => announced' = announced
  BY DEF MergeEntities, mergeEntityHandler, Refuse, Answer, Problem, Respond
<1>4. DecideContradiction(c) => announced' = announced
  BY DEF DecideContradiction, decideContradictionHandler, Refuse, Answer, Problem, Respond
<1>5. reviewQueue(c) => announced' = announced
  BY DEF reviewQueue, Problem, Respond
<1> QED BY <1>1, <1>2, <1>3, <1>4, <1>5 DEF DecisionStep

LEMMA SearchAnnouncesNothing == ASSUME NEW c \in Players, SearchStep(c) PROVE announced' = announced
BY DEF SearchStep, searchHandler, ListEntities, GetEntity, ListEntityFacts, EntityGraph, ListExperts,
       ListExperiments, Shows, Problem, Respond, gateway

LEMMA BrowsingAnnouncesNothing == ASSUME NEW c \in Players, BrowseStep(c) PROVE announced' = announced
BY DEF BrowseStep, GetCoverage, GetContradictions, dictionaryUnits, dictionarySynonyms, Shows, Reads, Problem, Respond, gateway

LEMMA QuestionsAnnounceNothing == ASSUME NEW c \in Players, AskStep(c) PROVE announced' = announced
<1>1. queryParse(c) \/ askHandler(c) \/ planAndTerms(c) \/ cacheGet(c) => announced' = announced
  BY DEF queryParse, askHandler, planAndTerms, cacheGet, writeSSEProblem, EndStream, Problem, Respond, gateway
<1>2. augmentFacts(c) \/ searchFailed(c) \/ augmentChunks(c) \/ runSynthesis(c) => announced' = announced
  BY DEF augmentFacts, searchFailed, augmentChunks, runSynthesis, writeSSEProblem, EndStream, Problem, Respond, gateway
<1>3. emitDelta(c) \/ cachePut(c) \/ emitDone(c) \/ askAborted(c) => announced' = announced
  BY DEF emitDelta, cachePut, emitDone, askAborted, writeSSEProblem, EndStream, Problem, Respond, gateway
<1> QED BY <1>1, <1>2, <1>3 DEF AskStep

LEMMA GateNext == ASSUME GateInv, [Next]_vars PROVE GateInv'
<1>0. Players' = Players
  BY SceneStays DEF Players
<1>1. ASSUME NEW c \in Players, Acts(c) PROVE GateInv'
  <2>1. announced' = announced
    BY <1>1, UploadsAnnounceNothing, DecisionsAnnounceNothing, SearchAnnouncesNothing, BrowsingAnnouncesNothing,
       QuestionsAnnounceNothing DEF Acts
  <2>2. UNCHANGED <<left, process>>
    BY <1>1, ActsAreHandled DEF Handled, Silent, Answers, Reviews, Respond
  <2> QED BY <1>0, <2>1, <2>2 DEF GateInv
<1>2. CASE Background
  <2>1. UNCHANGED <<left, process, announced>>
    BY <1>2, BackgroundIsSilent DEF Background, ExtractionNext, Silent, vars, gateway
  <2> QED BY <1>0, <2>1 DEF GateInv
<1>3. CASE GatewayNext
  <2>1. ASSUME NEW c \in Players, authorize(c) PROVE GateInv'
    BY <1>0, <2>1 DEF authorize, Problem, Respond, GateInv
  <2>2. ASSUME NEW c \in Players, emitAuditEvent(c) PROVE GateInv'
    BY <1>0, <2>2 DEF emitAuditEvent, GateInv
  <2>3. ASSUME NEW c \in Players, recordAudit(c) \/ HangUp(c) PROVE GateInv'
    BY <1>0, <2>3 DEF recordAudit, HangUp, GateInv
  <2>4. CASE RuntimeStep
    <3>1. PICK state \in {"serving", "draining", "closing", "stopped"}, late \in BOOLEAN :
            process = [state |-> state, late |-> late]
      BY DEF GateInv
    <3>2. \/ \E next \in {"draining", "closing", "stopped"} : process' = [process EXCEPT !.state = next]
          \/ \E next \in {"closing", "stopped"} : process' = [state |-> next, late |-> TRUE]
      BY <2>4 DEF RuntimeStep, signal, listenerFails, shutdown, closeResources
    <3>3. \/ \E next \in {"draining", "closing", "stopped"} : process' = [state |-> next, late |-> late]
          \/ \E next \in {"closing", "stopped"} : process' = [state |-> next, late |-> TRUE]
      BY <3>1, <3>2
    <3>4. process' \in [state : {"serving", "draining", "closing", "stopped"}, late : BOOLEAN]
      <4>1. PICK next \in {"serving", "draining", "closing", "stopped"}, l \in BOOLEAN : process' = [state |-> next, late |-> l]
        <5>1. CASE \E next \in {"draining", "closing", "stopped"} : process' = [state |-> next, late |-> late]
          BY <5>1
        <5>2. CASE \E next \in {"closing", "stopped"} : process' = [state |-> next, late |-> TRUE]
          BY <5>2
        <5> QED BY <3>3, <5>1, <5>2
      <4> QED BY <4>1
    <3> QED BY <1>0, <2>4, <3>4 DEF RuntimeStep, GateInv
  <2> QED BY <1>3, <2>1, <2>2, <2>3, <2>4 DEF GatewayNext
<1> QED BY <1>1, <1>2, <1>3, Steps

(* Of the uploads: a document has a level of access and its object, and a     *)
(* handler is at a part of its body.                                          *)
Filed(d) == docs[d].access \in Range(AccessLevels) /\ docs[d].blob \in DOMAIN blobs \cup {None}

FilesInv ==
  /\ \A d \in DOMAIN docs : Filed(d)
  /\ \A c \in Players :
       /\ work[c].at \in 1..Len(Request(c).parts) + 1
       /\ work[c].step = "insert" => ValidMeta(NormalizeMeta(c))

LEMMA PartsAreCounted == ASSUME scene \in Scenes, NEW c \in Players PROVE Len(Request(c).parts) \in Nat
<1>1. PICK parts : parts = Request(c).parts /\ parts \in Seq(Range(parts))
  BY PartsAssumption DEF Request, Players
<1> QED BY <1>1, LenProperties

LEMMA FilesInit == Init => FilesInv
<1> SUFFICES ASSUME Init PROVE FilesInv
  OBVIOUS
<1>1. /\ scene \in Scenes /\ docs = scene.docs /\ blobs = scene.blobs
      /\ \A c \in Players : work[c].at = 1 /\ work[c].step = "parts"
  BY DEF Init, GatewayInit, UploadsInit
<1>2. \A d \in DOMAIN docs : Filed(d)
  BY <1>1, DocumentsAssumption DEF Filed
<1>3. \A c \in Players : work[c].at \in 1..Len(Request(c).parts) + 1
  BY <1>1, PartsAreCounted
<1> QED BY <1>1, <1>2, <1>3 DEF FilesInv

(* What a step of an upload does to the rows, the objects and the locals.     *)
LEMMA FilesStand ==
  ASSUME FilesInv, scene' = scene, DOMAIN blobs \subseteq DOMAIN blobs', \A d \in DOMAIN docs' : Filed(d)',
         \A c \in Players : \/ work'[c] = work[c]
                            \/ /\ work'[c].at \in 1..Len(Request(c).parts) + 1
                               /\ work'[c].step # "insert" \/ ValidMeta(NormalizeMeta(c))'
  PROVE  FilesInv'
<1>1. Players' = Players /\ \A c : (Request(c))' = Request(c)
  BY DEF Players, Request
<1>2. ASSUME NEW c \in Players, work'[c] = work[c]
      PROVE  work'[c].at \in 1..Len(Request(c).parts) + 1 /\ (work'[c].step = "insert" => ValidMeta(NormalizeMeta(c))')
  BY <1>2 DEF FilesInv, ValidMeta, NormalizeMeta, Declared
<1>3. \A c \in Players : work'[c].at \in 1..Len(Request(c).parts) + 1 /\ (work'[c].step = "insert" => ValidMeta(NormalizeMeta(c))')
  BY <1>2
<1>4. \A c \in Players : (Len(Request(c).parts))' = Len(Request(c).parts)
  BY <1>1
<1> QED BY <1>1, <1>3, <1>4 DEF FilesInv

LEMMA SameFiles ==
  ASSUME FilesInv, docs' = docs, DOMAIN blobs \subseteq DOMAIN blobs'
  PROVE  \A d \in DOMAIN docs' : Filed(d)'
BY DEF FilesInv, Filed

LEMMA PartFiles ==
  ASSUME FilesInv, HoldInv, scene \in Scenes, scene' = scene, NEW c \in Players, collectParts(c)
  PROVE  FilesInv'
<1>1. PICK n \in Nat : n = Len(Request(c).parts)
  BY PartsAreCounted
<1>2. PICK i \in Nat : i = work[c].at /\ i \in 1..n + 1
  BY <1>1 DEF FilesInv
<1>3. /\ work[c].step = "parts" /\ i <= n /\ docs' = docs
      /\ blobs' = blobs \/ DOMAIN blobs' = DOMAIN blobs \cup {Key(c, i)}
      /\ \/ work' = work
         \/ \E key : work' = [work EXCEPT ![c].at = i + 1, ![c].key = key]
         \/ \E meta : work' = [work EXCEPT ![c].at = i + 1, ![c].meta = meta]
         \/ work' = [work EXCEPT ![c].at = i + 1]
  BY <1>1, <1>2 DEF collectParts, At, Parts
<1>4. ASSUME NEW d \in Players \ {c} PROVE work'[d] = work[d]
  <2>1. CASE work' = work
    BY <2>1
  <2>2. ASSUME NEW key, work' = [work EXCEPT ![c].at = i + 1, ![c].key = key] PROVE work'[d] = work[d]
    BY <2>2 DEF HoldInv
  <2>3. ASSUME NEW meta, work' = [work EXCEPT ![c].at = i + 1, ![c].meta = meta] PROVE work'[d] = work[d]
    BY <2>3 DEF HoldInv
  <2>4. CASE work' = [work EXCEPT ![c].at = i + 1]
    BY <2>4 DEF HoldInv
  <2> QED BY <1>3, <2>1, <2>2, <2>3, <2>4
<1>5. work' = work \/ (work'[c].at = i + 1 /\ work'[c].step = "parts")
  BY <1>3 DEF HoldInv
<1>6. i + 1 \in 1..n + 1
  BY <1>2, <1>3
<1>7. \A d \in DOMAIN docs' : Filed(d)'
  BY <1>3, SameFiles
<1> QED BY <1>1, <1>3, <1>4, <1>5, <1>6, <1>7, FilesStand

LEMMA GotoFiles ==
  ASSUME FilesInv, HoldInv, scene' = scene, NEW c \in Players, NEW next, Goto(c, next), blobs' = blobs,
         \A d \in DOMAIN docs' : Filed(d)', next = "insert" => ValidMeta(NormalizeMeta(c))
  PROVE  FilesInv'
<1>1. \A d \in Players \ {c} : work'[d] = work[d]
  BY DEF Goto
<1>2. work'[c].at = work[c].at /\ work'[c].step = next /\ work'[c].meta = work[c].meta
  BY DEF Goto, HoldInv
<1>3. next = "insert" => ValidMeta(NormalizeMeta(c))'
  BY <1>2 DEF ValidMeta, NormalizeMeta, Declared
<1>4. work'[c].at \in 1..Len(Request(c).parts) + 1
  BY <1>2 DEF FilesInv
<1> QED BY <1>1, <1>2, <1>3, <1>4, FilesStand

LEMMA FilesNext ==
  ASSUME FilesInv, HoldInv, RowsInv, HistoryInv, scene \in Scenes, [Next]_vars
  PROVE  FilesInv'
<1>0. scene' = scene
  BY SceneStays
<1>1. CASE UNCHANGED <<docs, blobs, work>>
  BY <1>0, <1>1, SameFiles, FilesStand
<1>2. ASSUME NEW c \in Players, UploadStep(c) PROVE FilesInv'
  <2>1. CASE collectParts(c)
    BY <1>0, <2>1, PartFiles
  <2>2. CASE uploadDocument(c) \/ FindIDBySHA256(c)
    <3>1. \/ UNCHANGED <<docs, blobs, work>>
          \/ \E next : Goto(c, next) /\ UNCHANGED <<docs, blobs>> /\ (next = "insert" => ValidMeta(NormalizeMeta(c)))
      BY <2>2 DEF uploadDocument, FindIDBySHA256
    <3> QED BY <1>0, <1>1, <3>1, SameFiles, GotoFiles
  <2>3. CASE Register(c)
    <3>1. CASE UNCHANGED <<docs, work>>
      BY <1>1, <2>3, <3>1 DEF Register
    <3>2. CASE ~UNCHANGED <<docs, work>>
      <4>1. /\ DOMAIN docs' = DOMAIN docs \cup {c} /\ \A d \in DOMAIN docs \ {c} : docs'[d] = docs[d]
            /\ docs'[c].access = NormalizeMeta(c).access /\ docs'[c].blob = work[c].key
            /\ Goto(c, "committed") /\ blobs' = blobs /\ work[c].step = "insert"
        BY <2>3, <3>2 DEF Register, At
      <4>2. ValidMeta(NormalizeMeta(c)) /\ work[c].key \in DOMAIN blobs \cup {None}
        BY <4>1 DEF FilesInv, HoldInv
      <4>3. \A d \in DOMAIN docs' : Filed(d)'
        BY <4>1, <4>2 DEF Filed, ValidMeta, FilesInv
      <4> QED BY <1>0, <4>1, <4>3, GotoFiles
    <3> QED BY <3>1, <3>2
  <2>4. CASE registerDocumentResponse(c) \/ GetStatus(c) \/ ListDocuments(c) \/ documentFile(c)
    BY <1>1, <2>4 DEF registerDocumentResponse, GetStatus, ListDocuments, documentFile, uploads
  <2> QED BY <1>2, <2>1, <2>2, <2>3, <2>4 DEF UploadStep
<1>3. CASE ExtractionNext
  <2>1. UNCHANGED <<blobs, work>> /\ (docs' = docs \/ docs' = [docs EXCEPT ![Doc].status = "indexed"])
    BY <1>3 DEF ExtractionNext, fetchBundle, ResolveByNames, Commit, Nak, uploads
  <2>2. \A d \in DOMAIN docs : {"access", "blob"} \subseteq DOMAIN docs[d]
    BY DEF HoldInv
  <2>3. DOMAIN docs' = DOMAIN docs /\ \A d \in DOMAIN docs : docs'[d].access = docs[d].access /\ docs'[d].blob = docs[d].blob
    BY <2>1, <2>2
  <2>4. \A d \in DOMAIN docs' : Filed(d)'
    BY <2>1, <2>3 DEF Filed, FilesInv
  <2> QED BY <1>0, <2>1, <2>4, FilesStand
<1>4. CASE Background /\ ~ExtractionNext
  BY <1>1, <1>4 DEF Background, vars, uploads
<1>5. CASE GatewayNext /\ UNCHANGED uploads
  BY <1>1, <1>5 DEF uploads
<1>6. ASSUME NEW c \in Players, Acts(c), ~UploadStep(c) PROVE FilesInv'
  BY <1>1, <1>6 DEF Acts, uploads
<1> QED BY <1>2, <1>3, <1>4, <1>5, <1>6, Steps

(* Of the decisions: facts and entities have a status of the schema, a merged *)
(* entity a target that exists, and the history names requests; the consumer  *)
(* is at a delivery or behind the last one.                                   *)
Placed(row, known) == row.status \in EntityStatus /\ row.mergedInto \in known \cup {None}

KnownInv ==
  /\ commit.at <= Len(scene.deliveries) + 1
  /\ commit.step \in {"fetch", "resolve", "commit"}
  /\ \A f \in DOMAIN facts : facts[f].status \in ValidationStatus
  /\ \A i \in DOMAIN history : history[i].client \in Players
  /\ \A e \in DOMAIN entities : Placed(entities[e], DOMAIN entities)
  /\ DOMAIN disputes = DOMAIN scene.disputes

LEMMA DeliveriesAreCounted == ASSUME scene \in Scenes PROVE Len(scene.deliveries) \in Nat
<1>1. PICK list : list = scene.deliveries /\ list \in Seq(Range(list))
  BY BundlesAssumption
<1> QED BY <1>1, LenProperties

LEMMA KnownInit == Init => KnownInv
<1> SUFFICES ASSUME Init PROVE KnownInv
  OBVIOUS
<1>1. /\ scene \in Scenes /\ facts = scene.facts /\ entities = scene.entities /\ disputes = scene.disputes
      /\ history = << >> /\ commit = [at |-> 1, step |-> "fetch", resolved |-> << >>]
  BY DEF Init, GatewayInit, DecisionsInit, ExtractionInit
<1>2. commit.at = 1 /\ commit.step = "fetch" /\ 1 <= Len(scene.deliveries) + 1
  BY <1>1, DeliveriesAreCounted
<1>3. \A f \in DOMAIN facts : facts[f].status \in ValidationStatus
  BY <1>1, FactsAssumption
<1>4. \A e \in DOMAIN entities : Placed(entities[e], DOMAIN entities)
  BY <1>1, EntitiesAssumption DEF Placed
<1> QED BY <1>1, <1>2, <1>3, <1>4 DEF KnownInv

(* What a step does to the statuses and to the history.                       *)
StatusesKnown == \A f \in DOMAIN facts' : facts'[f].status \in ValidationStatus
EntitiesPlaced == \A e \in DOMAIN entities' : Placed(entities'[e], DOMAIN entities')
ClientsKnown == \A i \in DOMAIN history' : history'[i].client \in Players

LEMMA KnownStands ==
  ASSUME KnownInv, scene' = scene, StatusesKnown, EntitiesPlaced, ClientsKnown, DOMAIN disputes' = DOMAIN disputes,
         \/ commit' = commit
         \/ commit'.at <= Len(scene.deliveries) + 1 /\ commit'.step \in {"fetch", "resolve", "commit"}
  PROVE  KnownInv'
<1>1. Players' = Players
  BY DEF Players
<1>2. commit'.at <= Len(scene.deliveries) + 1 /\ commit'.step \in {"fetch", "resolve", "commit"}
  BY DEF KnownInv
<1>3. \A e \in DOMAIN entities' : Placed(entities[e], DOMAIN entities)'
  BY DEF EntitiesPlaced, Placed
<1> QED BY <1>1, <1>2, <1>3 DEF KnownInv, StatusesKnown, ClientsKnown

LEMMA SameStatuses == ASSUME KnownInv, facts' = facts PROVE StatusesKnown
BY DEF KnownInv, StatusesKnown

LEMMA SameEntities == ASSUME KnownInv, entities' = entities PROVE EntitiesPlaced
BY DEF KnownInv, EntitiesPlaced

LEMMA SameHistoryClients == ASSUME KnownInv, history' = history PROVE ClientsKnown
BY DEF KnownInv, ClientsKnown

LEMMA OneMoreClient ==
  ASSUME KnownInv, \E S : history \in Seq(S), NEW row, row.client \in Players, history' = Append(history, row)
  PROVE  ClientsKnown
<1>1. PICK S : history \in Seq(S)
  OBVIOUS
<1>2. history \in Seq(S \cup {row}) /\ row \in S \cup {row}
  BY <1>1, SeqMonotonic
<1>3. /\ history' \in Seq(S \cup {row}) /\ Len(history') = Len(history) + 1
      /\ \A i \in 1..Len(history) : history'[i] = history[i]
      /\ history'[Len(history) + 1] = row
  BY <1>2, AppendProperties
<1>4. Len(history) \in Nat /\ DOMAIN history = 1..Len(history) /\ DOMAIN history' = 1..Len(history) + 1
  BY <1>2, <1>3, LenProperties
<1> QED BY <1>3, <1>4 DEF KnownInv, ClientsKnown

LEMMA DecidedStatus ==
  ASSUME KnownInv, HistoryInv, NEW c, NEW level, Body(c).status \in ValidationStatus, facts' = WithDecision(c, level)
  PROVE  StatusesKnown
<1>1. PICK status : status = Body(c).status /\ status \in ValidationStatus
  OBVIOUS
<1>2. /\ DOMAIN facts' = DOMAIN facts
      /\ \A f \in DOMAIN facts : facts'[f] = facts[f] \/ facts'[f] = [facts[f] EXCEPT !.status = status]
  BY <1>1 DEF WithDecision
<1>3. \A f \in DOMAIN facts : "status" \in DOMAIN facts[f] /\ facts[f].status \in ValidationStatus
  BY DEF HistoryInv, StatusColumns, KnownInv
<1>4. \A f \in DOMAIN facts' : facts'[f].status \in ValidationStatus
  BY <1>1, <1>2, <1>3
<1> QED BY <1>4 DEF StatusesKnown

LEMMA MergedStatus ==
  ASSUME KnownInv, HistoryInv, NEW x, NEW into, NEW level, facts' = FactsAfter(x, into, level)
  PROVE  StatusesKnown
BY MergeTells DEF KindsStay, StatusesKnown, KnownInv

LEMMA CommittedStatus ==
  ASSUME KnownInv, facts' = InsertedFacts
  PROVE  StatusesKnown
<1>1. /\ DOMAIN facts' = DOMAIN facts \cup {x.row : x \in NewRows}
      /\ \A f \in DOMAIN facts : facts'[f] = facts[f]
      /\ \A f \in DOMAIN facts' \ DOMAIN facts : \E x \in NewRows : x.row = f /\ facts'[f] = FactFrom(x)
  <2> HIDE DEF NewRows, FactFrom
  <2> QED BY DEF InsertedFacts
<1>2. ASSUME NEW x PROVE FactFrom(x).status \in ValidationStatus
  <2>1. PICK class : class = ClassifyFact(NormalizeBounds(x.said), ParameterDef(x.parameter))
    OBVIOUS
  <2>2. FactFrom(x).status = class.status
    BY <2>1 DEF FactFrom
  <2>3. class.status \in {"needs_unit_review", "rejected", "weak_evidence", "machine_extracted"}
    BY <2>1 DEF ClassifyFact
  <2> QED BY <2>2, <2>3 DEF ValidationStatus
<1> QED BY <1>1, <1>2 DEF StatusesKnown, KnownInv

LEMMA ReviewedPlaced ==
  ASSUME KnownInv, Columns, NEW e, NEW status \in {"active", "deprecated"}, entities' = [entities EXCEPT ![e].status = status]
  PROVE  EntitiesPlaced
<1>1. /\ DOMAIN entities' = DOMAIN entities
      /\ \A d \in DOMAIN entities : /\ entities'[d].status = entities[d].status \/ entities'[d].status = status
                                    /\ entities'[d].mergedInto = entities[d].mergedInto
  BY DEF Columns
<1> QED BY <1>1 DEF KnownInv, EntitiesPlaced, Placed, EntityStatus

LEMMA MergedPlaced ==
  ASSUME KnownInv, Columns, NEW x \in DOMAIN entities, NEW into \in DOMAIN entities, entities' = EntitiesAfter(x, into)
  PROVE  EntitiesPlaced
<1> DEFINE One == [entities EXCEPT ![x].status = "merged"]
           Two == [One EXCEPT ![x].mergedInto = into]
           Three == [Two EXCEPT ![x].aliases = IF x = into THEN @ ELSE {}]
           Four == [Three EXCEPT ![into].aliases = @ \cup entities[x].aliases]
<1>1. entities' = Four
  BY DEF EntitiesAfter
<1>2. /\ DOMAIN One = DOMAIN entities
      /\ \A e \in DOMAIN entities : /\ DOMAIN One[e] = DOMAIN entities[e]
                                    /\ One[e].status \in {"merged", entities[e].status}
                                    /\ One[e].mergedInto = entities[e].mergedInto
  BY DEF Columns
<1>3. /\ DOMAIN Two = DOMAIN entities
      /\ \A e \in DOMAIN entities : /\ DOMAIN Two[e] = DOMAIN entities[e] /\ Two[e].status = One[e].status
                                    /\ Two[e].mergedInto \in {into, One[e].mergedInto}
  BY <1>2 DEF Columns
<1>4. /\ DOMAIN Three = DOMAIN entities
      /\ \A e \in DOMAIN entities : /\ DOMAIN Three[e] = DOMAIN entities[e] /\ Three[e].status = Two[e].status
                                    /\ Three[e].mergedInto = Two[e].mergedInto
  BY <1>3 DEF Columns
<1>5. /\ DOMAIN Four = DOMAIN entities
      /\ \A e \in DOMAIN entities : Four[e].status = Three[e].status /\ Four[e].mergedInto = Three[e].mergedInto
  BY <1>4 DEF Columns
<1> HIDE DEF One, Two, Three, Four
<1>6. \A e \in DOMAIN entities : Four[e].status \in EntityStatus /\ Four[e].mergedInto \in DOMAIN entities \cup {None}
  BY <1>2, <1>3, <1>4, <1>5 DEF KnownInv, Placed, EntityStatus
<1> QED BY <1>1, <1>5, <1>6 DEF EntitiesPlaced, Placed

LEMMA CommittedPlaced ==
  ASSUME KnownInv, Columns, entities' = InsertedEntities
  PROVE  EntitiesPlaced
<1>1. /\ DOMAIN entities \subseteq DOMAIN entities'
      /\ \A e \in DOMAIN entities : /\ entities'[e].status = entities[e].status
                                    /\ entities'[e].mergedInto = entities[e].mergedInto
      /\ \A e \in DOMAIN entities' \ DOMAIN entities :
           entities'[e].status = "pending_review" /\ entities'[e].mergedInto = None
  BY DEF InsertedEntities, Columns
<1> QED BY <1>1 DEF KnownInv, EntitiesPlaced, Placed, EntityStatus

LEMMA DecisionKnown ==
  ASSUME KnownInv, HistoryInv, Columns, \E S : history \in Seq(S), scene' = scene, NEW c \in Players, DecisionStep(c),
         commit' = commit
  PROVE  KnownInv'
<1>1. CASE UpdateFactStatus(c)
  <2>1. /\ \/ UNCHANGED <<facts, history>>
           \/ /\ Body(c).status \in ValidationStatus
              /\ \E level \in {"internal", "public"} : facts' = WithDecision(c, level)
              /\ history' = Append(history, [kind |-> Kind(c), id |-> Id(c), client |-> c])
        /\ entities' = entities /\ disputes' = disputes
    BY <1>1 DEF UpdateFactStatus, updateFactStatusHandler, Refuse, decisions
  <2>2. ASSUME Body(c).status \in ValidationStatus, NEW level, facts' = WithDecision(c, level),
               history' = Append(history, [kind |-> Kind(c), id |-> Id(c), client |-> c])
        PROVE  StatusesKnown /\ ClientsKnown
    <3>1. PICK row : row = [kind |-> Kind(c), id |-> Id(c), client |-> c]
      OBVIOUS
    <3>2. row.client = c
      BY <3>1
    <3> QED BY <2>2, <3>1, <3>2, DecidedStatus, OneMoreClient
  <2>3. StatusesKnown /\ ClientsKnown
    BY <2>1, <2>2, SameStatuses, SameHistoryClients
  <2> QED BY <2>1, <2>3, SameEntities, KnownStands
<1>2. CASE updateEntityStatus(c)
  <2>1. /\ facts' = facts /\ history' = history /\ disputes' = disputes
        /\ \/ entities' = entities
           \/ /\ Body(c).status \in DOMAIN Target
              /\ entities' = [entities EXCEPT ![Id(c)].status = Target[Body(c).status]]
    BY <1>2 DEF updateEntityStatus, Refuse, decisions
  <2>2. EntitiesPlaced
    BY <2>1, TargetIsDecided, SameEntities, ReviewedPlaced
  <2> QED BY <2>1, <2>2, SameStatuses, SameHistoryClients, KnownStands
<1>3. CASE MergeEntities(c)
  <2>1. /\ disputes' = disputes
        /\ \/ facts' = facts /\ entities' = entities
           \/ \E x, into \in DOMAIN entities, level \in {"internal", "public"} :
                facts' = FactsAfter(x, into, level) /\ entities' = EntitiesAfter(x, into)
        /\ history' = history \/ history' = Append(history, [kind |-> "entity", id |-> Id(c), client |-> c])
    BY <1>3 DEF MergeEntities, mergeEntityHandler, Refuse, decisions
  <2>2. StatusesKnown /\ EntitiesPlaced
    BY <2>1, SameStatuses, SameEntities, MergedStatus, MergedPlaced
  <2>3. ASSUME history' = Append(history, [kind |-> "entity", id |-> Id(c), client |-> c]) PROVE ClientsKnown
    <3>1. PICK row : row = [kind |-> "entity", id |-> Id(c), client |-> c]
      OBVIOUS
    <3>2. row.client = c
      BY <3>1
    <3> QED BY <2>3, <3>1, <3>2, OneMoreClient
  <2>4. ClientsKnown
    BY <2>1, <2>3, SameHistoryClients
  <2> QED BY <2>1, <2>2, <2>4, KnownStands
<1>4. CASE DecideContradiction(c) \/ reviewQueue(c)
  <2>1. /\ UNCHANGED <<facts, entities, history>>
        /\ \/ disputes' = disputes
           \/ \E k, s, decided : disputes' = [disputes EXCEPT ![k].status = s, ![k].decided = decided]
    BY <1>4 DEF DecideContradiction, decideContradictionHandler, reviewQueue, Refuse, decisions
  <2>2. DOMAIN disputes' = DOMAIN disputes
    BY <2>1
  <2> QED BY <2>1, <2>2, SameStatuses, SameEntities, SameHistoryClients, KnownStands
<1> QED BY <1>1, <1>2, <1>3, <1>4 DEF DecisionStep

LEMMA ExtractionKnown ==
  ASSUME KnownInv, RowsInv, Columns, scene \in Scenes, scene' = scene, ExtractionNext
  PROVE  KnownInv'
<1>1. facts' = facts \/ facts' = InsertedFacts
  BY DEF ExtractionNext, fetchBundle, ResolveByNames, Commit, Nak
<1>2. entities' = entities \/ entities' = InsertedEntities
  BY DEF ExtractionNext, fetchBundle, ResolveByNames, Commit, Nak
<1>3. history' = history /\ disputes' = disputes
  BY DEF ExtractionNext
<1>4. StatusesKnown /\ EntitiesPlaced /\ ClientsKnown
  BY <1>1, <1>2, <1>3, SameStatuses, SameEntities, SameHistoryClients, CommittedStatus, CommittedPlaced
<1>5. /\ commit.at <= Len(scene.deliveries)
      /\ commit' = NextDelivery \/ \E step \in {"resolve", "commit"} : \E resolved : commit' = Following(step, resolved)
  BY DEF ExtractionNext, fetchBundle, ResolveByNames, Commit, Consuming, Nak
<1>6. commit'.at <= Len(scene.deliveries) + 1 /\ commit'.step \in {"fetch", "resolve", "commit"}
  <2>1. commit.at \in Nat /\ Len(scene.deliveries) \in Nat
    BY DeliveriesAreCounted DEF RowsInv
  <2>2. CASE commit' = NextDelivery
    BY <1>5, <2>1, <2>2 DEF NextDelivery
  <2>3. ASSUME NEW step \in {"resolve", "commit"}, NEW resolved, commit' = Following(step, resolved)
        PROVE  commit'.at = commit.at /\ commit'.step = step
    <3>1. commit = [at |-> commit.at, step |-> commit.step, resolved |-> commit.resolved]
      BY DEF RowsInv
    <3> QED BY <2>3, <3>1 DEF Following
  <2>4. CASE commit' # NextDelivery
    BY <1>5, <2>1, <2>3, <2>4
  <2> QED BY <2>2, <2>4
<1> QED BY <1>3, <1>4, <1>6, KnownStands

LEMMA KnownNext ==
  ASSUME KnownInv, HistoryInv, RowsInv, Columns, \E S : history \in Seq(S), scene \in Scenes, [Next]_vars
  PROVE  KnownInv'
<1>0. scene' = scene
  BY SceneStays
<1>1. CASE UNCHANGED <<decisions, commit>>
  <2>1. UNCHANGED <<facts, entities, history, disputes, commit>>
    BY <1>1 DEF decisions
  <2> QED BY <1>0, <2>1, SameStatuses, SameEntities, SameHistoryClients, KnownStands
<1>2. CASE ExtractionNext
  BY <1>0, <1>2, ExtractionKnown
<1>3. CASE Background /\ ~ExtractionNext
  BY <1>1, <1>3 DEF Background, vars
<1>4. CASE GatewayNext /\ UNCHANGED <<decisions, commit>>
  BY <1>1, <1>4
<1>5. ASSUME NEW c \in Players, Acts(c) PROVE KnownInv'
  <2>1. commit' = commit
    BY <1>5 DEF Acts
  <2>2. CASE DecisionStep(c)
    BY <1>0, <2>1, <2>2, DecisionKnown
  <2>3. CASE ~DecisionStep(c)
    BY <1>1, <1>5, <2>1, <2>3, OnlyDecisionsDecide
  <2> QED BY <2>2, <2>3
<1> QED BY <1>2, <1>3, <1>4, <1>5, Steps

(* Of a search: the entities it is about are entities.                        *)
IdsInv == \A c \in Players : search[c].ids \subseteq DOMAIN entities

LEMMA IdsInit == Init => IdsInv
BY DEF Init, SearchInit, Nothing, IdsInv

LEMMA ExpandedAreEntities == ASSUME LinksInv, NEW slugs PROVE expandEntityIDs(slugs) \subseteq DOMAIN entities
<1>1. \A g \in edges : g.src \in DOMAIN entities /\ g.dst \in DOMAIN entities
  BY DEF LinksInv, EndsKnown
<1> QED BY <1>1 DEF expandEntityIDs, Neighbours

LEMMA ThenWrites == ASSUME NEW c, NEW pack, Then(c, pack)
                    PROVE  \E next : search' = [search EXCEPT ![c].pack = pack, ![c].step = next]
BY DEF Then

LEMMA MoveKeepsIds ==
  ASSUME LinksInv, PackInv, IdsInv, NEW c \in Players, SearchMove(c)
  PROVE  search'[c].ids \subseteq DOMAIN entities /\ \A d \in Players \ {c} : search'[d] = search[d]
<1>1. "ids" \in DOMAIN search[c] /\ search[c].ids \subseteq DOMAIN entities
  BY DEF PackInv, SearchFields, IdsInv
<1>2. ASSUME NEW pack, Then(c, pack)
      PROVE  search'[c].ids \subseteq DOMAIN entities /\ \A d \in Players \ {c} : search'[d] = search[d]
  <2>1. PICK next : search' = [search EXCEPT ![c].pack = pack, ![c].step = next]
    BY <1>2, ThenWrites
  <2>2. search'[c].ids = search[c].ids /\ \A d \in Players \ {c} : search'[d] = search[d]
    BY <1>1, <2>1 DEF PackInv
  <2> QED BY <1>1, <2>2
<1>3. ASSUME NEW next, search' = [search EXCEPT ![c].step = next]
      PROVE  search'[c].ids \subseteq DOMAIN entities /\ \A d \in Players \ {c} : search'[d] = search[d]
  <2>1. search'[c].ids = search[c].ids /\ \A d \in Players \ {c} : search'[d] = search[d]
    BY <1>1, <1>3 DEF PackInv
  <2> QED BY <1>1, <2>1
<1>4. ASSUME NEW plan, StartSearch(c, plan)
      PROVE  search'[c].ids \subseteq DOMAIN entities /\ \A d \in Players \ {c} : search'[d] = search[d]
  <2>1. PICK q : /\ q = [step |-> IF plan.entities = << >> THEN "ready" ELSE "expand", plan |-> plan,
                         since |-> Len(history), before |-> DOMAIN facts, ids |-> {}, pack |-> EmptyPack]
                 /\ search' = [search EXCEPT ![c] = q]
    BY <1>4 DEF StartSearch
  <2>2. q.ids = {}
    BY <2>1
  <2>3. search'[c] = q /\ \A d \in Players \ {c} : search'[d] = search[d]
    BY <2>1 DEF PackInv
  <2> QED BY <2>2, <2>3
<1>5. CASE ExpandEntityIDs(c)
  <2>1. PICK ids, next : ids = expandEntityIDs(planSlugs(c)) /\ search' = [search EXCEPT ![c].ids = ids, ![c].step = next]
    BY <1>5 DEF ExpandEntityIDs
  <2>2. search'[c].ids = ids /\ \A d \in Players \ {c} : search'[d] = search[d]
    BY <1>1, <2>1 DEF PackInv
  <2> QED BY <2>1, <2>2, ExpandedAreEntities
<1>6. CASE Facts(c) \/ FTSChunks(c) \/ Consensus(c) \/ Contradictions(c) \/ Gaps(c) \/ Experts(c) \/ EgoGraph(c)
  <2>1. (\E pack : Then(c, pack)) \/ search' = [search EXCEPT ![c].step = "failed"]
    BY <1>6 DEF Facts, FTSChunks, Consensus, Contradictions, Gaps, Experts, EgoGraph
  <2> QED BY <1>2, <1>3, <2>1
<1>7. CASE SearchFails(c) \/ search' = [search EXCEPT ![c].step = "done"]
  BY <1>3, <1>7 DEF SearchFails
<1> QED BY <1>4, <1>5, <1>6, <1>7 DEF SearchMove, buildPack

LEMMA IdsNext ==
  ASSUME IdsInv, LinksInv, PackInv, Columns, [Next]_vars
  PROVE  IdsInv'
<1>0. scene' = scene /\ DOMAIN entities \subseteq DOMAIN entities'
  BY SceneStays, EntitiesStep DEF EntitiesKept
<1>1. Players' = Players
  BY <1>0 DEF Players
<1>2. CASE UNCHANGED search
  BY <1>0, <1>1, <1>2 DEF IdsInv
<1>3. ASSUME NEW c \in Players, SearchMove(c) PROVE IdsInv'
  <2>1. search'[c].ids \subseteq DOMAIN entities /\ \A d \in Players \ {c} : search'[d] = search[d]
    BY <1>3, MoveKeepsIds
  <2>2. \A d \in Players : search'[d].ids \subseteq DOMAIN entities
    BY <2>1 DEF IdsInv
  <2> QED BY <1>0, <1>1, <2>2 DEF IdsInv
<1>4. CASE GatewayNext /\ UNCHANGED search
  BY <1>2, <1>4
<1>5. CASE Background
  BY <1>2, <1>5 DEF Background, vars
<1> QED BY <1>2, <1>3, <1>4, <1>5, Steps, SearchMoves

-----------------------------------------------------------------------------
(* Of a question: what it may send, how sure its answer is, cached or not, and *)
(* for whose level of access an answer is kept.                                *)
Events == {"plan", "evidence", "answer.delta", "answer.done", "error"}
Sure(answer) == answer.confidence \in 30..95
Keyed(key) == \E t \in DOMAIN Definition : key[2] = PrincipalOf(t).access
Named(s) == \A i \in DOMAIN s : s[i].event \in Events

SureInv ==
  /\ \A c \in Players : asks[c].step \in {"deltas", "put", "done"} => Sure(asks[c].answer)
  /\ \A c \in Players : Named(stream[c])
  /\ \A key \in DOMAIN cache : Sure(cache[key].answer) /\ Keyed(key)

LEMMA SureInit == Init => SureInv
BY DEF Init, AskInit, SureInv, Named

LEMMA RulesAreSure == ASSUME NEW pack PROVE deriveConfidence(pack) \in 30..95 /\ Sure(extractiveSynthesis(pack))
<1>1. PICK a \in {0, 15}, b \in {0, 10} : deriveConfidence(pack) = 70 + a - b
  BY DEF deriveConfidence
<1>2. deriveConfidence(pack) \in 30..95
  BY <1>1
<1> HIDE DEF deriveConfidence
<1>3. extractiveSynthesis(pack).confidence \in {30, deriveConfidence(pack)}
  BY DEF extractiveSynthesis
<1> QED BY <1>2, <1>3 DEF Sure

LEMMA GuardedIsSure ==
  ASSUME NEW text, NEW degraded, NEW pack, Sure(text)
  PROVE  Sure(Guarded(text, degraded, pack))
<1>1. PICK kept : kept = IF runGuard(text, pack) > 0 THEN extractiveSynthesis(pack) ELSE text
  OBVIOUS
<1>2. Sure(kept)
  BY <1>1, RulesAreSure
<1>3. PICK n : n = runGuard(kept, pack)
  OBVIOUS
<1>4. PICK b : b = (degraded \/ runGuard(text, pack) > 0)
  OBVIOUS
<1>5. Guarded(text, degraded, pack) =
        [numbers |-> kept.numbers, methods |-> kept.methods, confidence |-> kept.confidence, by |-> kept.by,
         violations |-> n, degraded |-> b]
  BY <1>1, <1>3, <1>4, Zenon DEF Guarded
<1>6. Guarded(text, degraded, pack).confidence = kept.confidence
  BY <1>5
<1> QED BY <1>2, <1>6 DEF Sure

(* What a step of a question sends, and what it does to its answer and to the  *)
(* cache.                                                                     *)
SendsNamed(c) == Named(stream'[c]) /\ \A d \in Players \ {c} : stream'[d] = stream[d]

LEMMA LongerIsNamed == ASSUME NEW s, NEW e, NEW t, Longer(s, e, t), \E S : s \in Seq(S), Named(s), e.event \in Events
                       PROVE  Named(t)
<1>1. PICK S : s \in Seq(S)
  OBVIOUS
<1>2. PICK T : t \in Seq(T)
  BY DEF Longer
<1>3. DOMAIN s = 1..Len(s) /\ DOMAIN t = 1..Len(t) /\ Len(s) \in Nat
  BY <1>1, <1>2, LenProperties
<1> QED BY <1>3 DEF Longer, Named

LEMMA OneIsNamed ==
  ASSUME StreamInv, SureInv, NEW c \in Players, NEW e, e.event \in Events, Emit(c, <<e>>)
  PROVE  SendsNamed(c)
<1>1. PICK S : stream[c] \in Seq(S)
  BY DEF StreamInv
<1>2. Longer(stream[c], e, stream[c] \o <<e>>)
  BY <1>1, OneMore
<1>3. Named(stream[c] \o <<e>>)
  BY <1>1, <1>2, LongerIsNamed DEF SureInv
<1> QED BY <1>3, EmitGrows DEF Grown, SendsNamed

LEMMA TwoAreNamed ==
  ASSUME StreamInv, SureInv, NEW c \in Players, NEW e, NEW f, {e.event, f.event} \subseteq Events, Emit(c, <<e, f>>)
  PROVE  SendsNamed(c)
<1>1. PICK S : stream[c] \in Seq(S)
  BY DEF StreamInv
<1>2. PICK t : Longer(stream[c], e, t) /\ Longer(t, f, stream[c] \o <<e, f>>)
  BY <1>1, TwoMore
<1>3. Named(t) /\ \E T : t \in Seq(T)
  BY <1>1, <1>2, LongerIsNamed DEF SureInv, Longer
<1>4. Named(stream[c] \o <<e, f>>)
  BY <1>2, <1>3, LongerIsNamed
<1> QED BY <1>4, EmitGrows DEF Grown, SendsNamed

LEMMA NothingIsNamed ==
  ASSUME SureInv, NEW c \in Players, stream' = stream
  PROVE  SendsNamed(c)
BY DEF SureInv, SendsNamed

LEMMA QuestionSends ==
  ASSUME StreamInv, SureInv, NEW c \in Players, AskStep(c)
  PROVE  SendsNamed(c)
<1>1. CASE queryParse(c) \/ askHandler(c) \/ planAndTerms(c) \/ augmentFacts(c) \/ runSynthesis(c) \/ cachePut(c)
  BY <1>1, NothingIsNamed DEF queryParse, askHandler, planAndTerms, augmentFacts, runSynthesis, cachePut, answering
<1>2. CASE cacheGet(c)
  <2>1. \/ \E e, f : {e.event, f.event} \subseteq Events /\ Emit(c, <<e, f>>)
        \/ \E e : e.event \in Events /\ Emit(c, <<e>>)
    <3>1. ASSUME NEW plan, NEW pack, Emit(c, <<[event |-> "plan", plan |-> plan], [event |-> "evidence", pack |-> pack]>>)
          PROVE  \E e, f : {e.event, f.event} \subseteq Events /\ Emit(c, <<e, f>>)
      <4>1. PICK e, f : e = [event |-> "plan", plan |-> plan] /\ f = [event |-> "evidence", pack |-> pack]
        OBVIOUS
      <4>2. {e.event, f.event} \subseteq Events
        BY <4>1 DEF Events
      <4> QED BY <3>1, <4>1, <4>2
    <3>2. ASSUME NEW plan, Emit(c, <<[event |-> "plan", plan |-> plan]>>)
          PROVE  \E e : e.event \in Events /\ Emit(c, <<e>>)
      <4>1. PICK e : e = [event |-> "plan", plan |-> plan]
        OBVIOUS
      <4>2. e.event \in Events
        BY <4>1 DEF Events
      <4> QED BY <3>2, <4>1, <4>2
    <3> QED BY <1>2, <3>1, <3>2 DEF cacheGet
  <2> QED BY <2>1, OneIsNamed, TwoAreNamed
<1>3. CASE augmentChunks(c)
  <2>1. PICK pack : Emit(c, <<[event |-> "evidence", pack |-> pack]>>)
    BY <1>3 DEF augmentChunks
  <2>2. PICK e : e = [event |-> "evidence", pack |-> pack]
    OBVIOUS
  <2>3. e.event \in Events
    BY <2>2 DEF Events
  <2> QED BY <2>1, <2>2, <2>3, OneIsNamed
<1>4. CASE emitDelta(c)
  <2>1. PICK e : e = [event |-> "answer.delta", part |-> asks[c].part]
    OBVIOUS
  <2>2. e.event \in Events /\ Emit(c, <<e>>)
    BY <1>4, <2>1 DEF emitDelta, Events
  <2> QED BY <2>2, OneIsNamed
<1>5. CASE emitDone(c)
  <2>1. PICK e : e = [event |-> "answer.done", answer |-> mapAnswer(asks[c].answer)]
    OBVIOUS
  <2>2. e.event \in Events /\ Emit(c, <<e>>)
    BY <1>5, <2>1 DEF emitDone, Events
  <2> QED BY <2>2, OneIsNamed
<1>6. ASSUME NEW code, writeSSEProblem(c, code) PROVE SendsNamed(c)
  <2>1. PICK e : e = [event |-> "error", status |-> grpcHTTPStatus(code)]
    OBVIOUS
  <2>2. e.event \in Events /\ Emit(c, <<e>>)
    BY <1>6, <2>1 DEF writeSSEProblem, Events
  <2> QED BY <2>2, OneIsNamed
<1>7. CASE searchFailed(c) \/ askAborted(c)
  BY <1>6, <1>7, NothingIsNamed DEF searchFailed, askAborted
<1> QED BY <1>1, <1>2, <1>3, <1>4, <1>5, <1>7 DEF AskStep

LEMMA QuestionIsSure ==
  ASSUME StreamInv, SureInv, NEW c \in Players, AskStep(c)
  PROVE  asks'[c].step \in {"deltas", "put", "done"} => Sure(asks'[c].answer)
<1> DEFINE Good == asks'[c].step \in {"deltas", "put", "done"} => Sure(asks'[c].answer)
<1>1. ASSUME UNCHANGED asks PROVE Good
  BY <1>1 DEF SureInv
<1>2. ASSUME NEW fields, Goes(c, fields), "step" \in DOMAIN fields,
             fields.step \in {"parsing", "lookup", "search", "chunks", "synthesis", "end"}
      PROVE  Good
  <2>1. asks'[c].step = fields.step
    BY <1>2, AskGoes DEF AskFields
  <2> QED BY <1>2, <2>1
<1>3. CASE queryParse(c) \/ askHandler(c) \/ planAndTerms(c) \/ augmentFacts(c) \/ augmentChunks(c)
           \/ searchFailed(c) \/ emitDone(c) \/ askAborted(c)
  <2>1. \A plan, terms : Planned(c, plan, terms) =>
          \E fields : /\ Goes(c, fields) /\ "step" \in DOMAIN fields
                      /\ fields.step \in {"parsing", "lookup", "search", "chunks", "synthesis", "end"}
    BY DEF Planned
  <2>2. \A step : Goes(c, [step |-> step]) /\ step \in {"parsing", "end"} =>
          \E fields : /\ Goes(c, fields) /\ "step" \in DOMAIN fields
                      /\ fields.step \in {"parsing", "lookup", "search", "chunks", "synthesis", "end"}
    OBVIOUS
  <2>3. \A step, pack : Goes(c, [step |-> step, pack |-> pack]) /\ step \in {"chunks", "synthesis"} =>
          \E fields : /\ Goes(c, fields) /\ "step" \in DOMAIN fields
                      /\ fields.step \in {"parsing", "lookup", "search", "chunks", "synthesis", "end"}
    OBVIOUS
  <2> HIDE DEF Good
  <2>4. \/ UNCHANGED asks
        \/ \E fields : /\ Goes(c, fields) /\ "step" \in DOMAIN fields
                       /\ fields.step \in {"parsing", "lookup", "search", "chunks", "synthesis", "end"}
    <3>1. CASE queryParse(c) \/ askHandler(c) \/ planAndTerms(c)
      BY <2>1, <2>2, <3>1 DEF queryParse, askHandler, planAndTerms, PlannedByRules, answering
    <3>2. CASE augmentFacts(c) \/ augmentChunks(c)
      <4>1. \E step \in {"chunks", "synthesis"} : \E pack : Goes(c, [step |-> step, pack |-> pack])
        BY <3>2 DEF augmentFacts, augmentChunks
      <4> QED BY <2>3, <4>1
    <3>3. CASE searchFailed(c) \/ emitDone(c) \/ askAborted(c)
      BY <2>2, <3>3 DEF searchFailed, emitDone, askAborted, writeSSEProblem, EndStream
    <3> QED BY <1>3, <3>1, <3>2, <3>3
  <2>5. CASE UNCHANGED asks
    BY <1>1, <2>5 DEF Good
  <2>6. CASE ~UNCHANGED asks
    <3>1. PICK fields : /\ Goes(c, fields) /\ "step" \in DOMAIN fields
                        /\ fields.step \in {"parsing", "lookup", "search", "chunks", "synthesis", "end"}
      BY <2>4, <2>6
    <3> QED BY <1>2, <3>1 DEF Good
  <2> QED BY <2>5, <2>6
<1>4. CASE cacheGet(c)
  <2>1. CASE Goes(c, [step |-> "search"])
    BY <1>2, <2>1
  <2>2. CASE ~Goes(c, [step |-> "search"])
    <3>1. PICK key \in DOMAIN cache :
            Goes(c, [step |-> "deltas", cached |-> TRUE, plan |-> cache[key].plan,
                     pack |-> cache[key].pack, answer |-> cache[key].answer])
      BY <1>4, <2>2 DEF cacheGet
    <3>2. PICK answer : answer = cache[key].answer
      OBVIOUS
    <3>3. asks'[c].answer = answer
      BY <3>1, <3>2, AskGoes DEF AskFields
    <3>4. Sure(answer)
      BY <3>2 DEF SureInv
    <3> QED BY <3>3, <3>4
  <2> QED BY <2>1, <2>2
<1>5. CASE runSynthesis(c)
  <2>1. PICK text, degraded, pack :
          Goes(c, [step |-> "deltas", part |-> 1, answer |-> Guarded(text, degraded, pack)]) /\ Sure(text)
    <3>1. \A draft, pack : Sure(llmSynthesis(c, pack, draft))
      BY RulesAreSure DEF llmSynthesis, Sure
    <3> HIDE DEF Good
    <3> QED BY <1>5, <3>1, RulesAreSure DEF runSynthesis
  <2>2. PICK answer : answer = Guarded(text, degraded, pack)
    OBVIOUS
  <2>3. asks'[c].answer = answer
    BY <2>1, <2>2, AskGoes DEF AskFields
  <2>4. Sure(answer)
    BY <2>1, <2>2, GuardedIsSure
  <2> QED BY <2>3, <2>4
<1>6. CASE emitDelta(c) \/ cachePut(c)
  <2>1. asks[c].step \in {"deltas", "put"}
    BY <1>6 DEF emitDelta, cachePut, Going, Asking
  <2>2. PICK fields : Goes(c, fields) /\ "answer" \notin DOMAIN fields
    <3>1. emitDelta(c) => \E part, step : Goes(c, [part |-> part, step |-> step])
      BY DEF emitDelta
    <3>2. cachePut(c) => Goes(c, [step |-> "done"])
      BY DEF cachePut
    <3>3. ASSUME NEW part, NEW step, Goes(c, [part |-> part, step |-> step])
          PROVE  \E fields : Goes(c, fields) /\ "answer" \notin DOMAIN fields
      <4>1. PICK fields : fields = [part |-> part, step |-> step]
        OBVIOUS
      <4>2. Goes(c, fields)
        BY <3>3, <4>1
      <4>3. "answer" \notin DOMAIN fields
        BY <4>1
      <4> QED BY <4>2, <4>3
    <3>4. ASSUME Goes(c, [step |-> "done"])
          PROVE  \E fields : Goes(c, fields) /\ "answer" \notin DOMAIN fields
      <4>1. PICK fields : fields = [step |-> "done"]
        OBVIOUS
      <4>2. Goes(c, fields)
        BY <3>4, <4>1
      <4>3. "answer" \notin DOMAIN fields
        BY <4>1
      <4> QED BY <4>2, <4>3
    <3> HIDE DEF Good
    <3>5. CASE emitDelta(c)
      <4>1. PICK part, step : Goes(c, [part |-> part, step |-> step])
        BY <3>1, <3>5
      <4> QED BY <3>3, <4>1
    <3> QED BY <1>6, <3>2, <3>4, <3>5
  <2>3. asks'[c].answer = asks[c].answer
    BY <2>2, AskGoes DEF AskFields
  <2> QED BY <2>1, <2>3 DEF SureInv
<1> QED BY <1>3, <1>4, <1>5, <1>6 DEF AskStep

LEMMA QuestionKeeps ==
  ASSUME SureInv, AccessInv, AuditInv, NEW c \in Players, AskStep(c)
  PROVE  \A key \in DOMAIN cache' : Sure(cache'[key].answer) /\ Keyed(key)
<1>1. CASE UNCHANGED cache
  BY <1>1 DEF SureInv
<1>2. CASE cachePut(c)
  <2>1. asks[c].step = "put" /\ pc[c] = "handle"
    BY <1>2 DEF cachePut, Going, Asking
  <2>2. PICK key, entry : key = planCacheKey(c) /\ entry = [plan |-> asks[c].plan, pack |-> asks[c].pack, answer |-> asks[c].answer]
    OBVIOUS
  <2>3. UNCHANGED cache \/ cache' = [k \in DOMAIN cache \cup {key} |-> IF k = key THEN entry ELSE cache[k]]
    BY <1>2, <2>2 DEF cachePut
  <2>4. Sure(entry.answer)
    <3>1. entry.answer = asks[c].answer
      BY <2>2
    <3> QED BY <2>1, <3>1 DEF SureInv
  <2>5. Keyed(key)
    <3>1. caller[c] # None
      BY <2>1, AskerLevel
    <3>2. Request(c).token \in DOMAIN Definition /\ caller[c] = PrincipalOf(Request(c).token)
      BY <3>1 DEF AccessInv
    <3>3. key[2] = caller[c].access
      BY <2>2 DEF planCacheKey
    <3>4. PICK t \in DOMAIN Definition : caller[c] = PrincipalOf(t)
      BY <3>2
    <3> QED BY <3>3, <3>4 DEF Keyed
  <2> QED BY <1>1, <2>3, <2>4, <2>5 DEF SureInv
<1> QED BY <1>1, <1>2 DEF AskStep, queryParse, askHandler, planAndTerms, cacheGet, augmentFacts, searchFailed,
      augmentChunks, runSynthesis, emitDelta, emitDone, askAborted, answering

LEMMA SureNext ==
  ASSUME SureInv, StreamInv, DrainInv, AuditInv, AccessInv, [Next]_vars
  PROVE  SureInv'
<1>0. Players' = Players
  BY SceneStays DEF Players
<1>1. CASE UNCHANGED answering
  <2>1. UNCHANGED <<asks, stream, cache>>
    BY <1>1 DEF answering
  <2> QED BY <1>0, <2>1 DEF SureInv, Sure, Named, Keyed
<1>2. ASSUME NEW c \in Players, AskStep(c) PROVE SureInv'
  <2>1. \A d \in Players \ {c} : asks'[d] = asks[d]
    BY <1>2, QuestionStreams DEF Streams
  <2>2. \A d \in Players : asks'[d].step \in {"deltas", "put", "done"} => Sure(asks'[d].answer)
    BY <1>2, <2>1, QuestionIsSure DEF SureInv
  <2>3. \A d \in Players : Named(stream'[d])
    BY <1>2, QuestionSends DEF SendsNamed, SureInv
  <2>4. \A key \in DOMAIN cache' : Sure(cache'[key].answer) /\ Keyed(key)
    BY <1>2, QuestionKeeps
  <2>5. (\A key \in DOMAIN cache : Keyed(key))'
    BY <2>4 DEF Keyed
  <2> QED BY <1>0, <2>2, <2>3, <2>4, <2>5 DEF SureInv, Sure, Named
<1>3. ASSUME NEW c \in Players, Acts(c), ~AskStep(c) PROVE SureInv'
  BY <1>1, <1>3 DEF Acts
<1>4. CASE GatewayNext /\ UNCHANGED answering
  BY <1>1, <1>4
<1>5. CASE Background
  BY <1>1, <1>5 DEF Background, vars
<1>6. ASSUME NEW c \in Players, Acts(c) PROVE SureInv'
  BY <1>2, <1>3, <1>6
<1> QED BY <1>4, <1>5, <1>6, Steps

-----------------------------------------------------------------------------
(* Of a completion: its chain is as short as a task's models are many, and it  *)
(* stands at a provider, or behind the last.                                   *)
ReachInv ==
  /\ \A k \in Calls : call[k].next <= Len(Providers) + 1 /\ Len(call[k].chain) <= 3
  /\ cancelled \subseteq Calls

LEMMA ChainIsShort == ASSUME NEW task PROVE Len(modelChain(task)) <= 3
<1> DEFINE Add(model, before) ==
             IF model = "" \/ model \notin llm.allowlist \/ model \in before THEN << >> ELSE <<model>>
           one == Add(task.model, {})
           two == Add(task.fallback, {task.model})
           three == Add(task.escalate, {task.model, task.fallback})
<1>1. modelChain(task) = one \o two \o three
  BY DEF modelChain
<1>2. /\ one = << >> \/ (one = <<task.model>> /\ task.model \in llm.allowlist)
      /\ two = << >> \/ (two = <<task.fallback>> /\ task.fallback \in llm.allowlist)
      /\ three = << >> \/ (three = <<task.escalate>> /\ task.escalate \in llm.allowlist)
  OBVIOUS
<1> HIDE DEF one, two, three
<1>3. one \in Seq(llm.allowlist) /\ two \in Seq(llm.allowlist) /\ three \in Seq(llm.allowlist)
  BY <1>2, EmptySeq, ShortSeq
<1>4. Len(one) \in 0..1 /\ Len(two) \in 0..1 /\ Len(three) \in 0..1
  BY <1>2
<1>5. one \o two \in Seq(llm.allowlist) /\ Len(one \o two) = Len(one) + Len(two)
  BY <1>3, ConcatProperties
<1>6. PICK n \in 0..1, m \in 0..1, l \in 0..1 : n = Len(one) /\ m = Len(two) /\ l = Len(three)
  BY <1>4
<1>7. Len(modelChain(task)) = n + m + l
  BY <1>1, <1>3, <1>5, <1>6, ConcatProperties
<1>8. n + m + l <= 3
  OBVIOUS
<1> QED BY <1>7, <1>8

LEMMA ReachInit == Init => ReachInv
<1> SUFFICES ASSUME Init PROVE ReachInv
  OBVIOUS
<1>1. /\ llm \in Llms /\ cancelled = {}
      /\ call = [k \in Calls |-> [step |-> "new", chain |-> << >>, attempt |-> 1, next |-> 1, err |-> "none"]]
  BY DEF Init, LlmInit
<1>2. Len(Providers) \in Nat
  BY <1>1, ProvidersAssumption DEF Providers
<1>3. ASSUME NEW k \in Calls PROVE call[k].next <= Len(Providers) + 1 /\ Len(call[k].chain) <= 3
  <2>1. call[k].next = 1 /\ call[k].chain = << >>
    BY <1>1
  <2>2. Len(call[k].chain) = 0
    BY <2>1
  <2> QED BY <1>2, <2>1, <2>2
<1> QED BY <1>1, <1>3 DEF ReachInv

(* What a step does to where a completion stands.                              *)
Moves(k) ==
  \/ call'[k].chain = call[k].chain /\ call'[k].next = call[k].next
  \/ Len(call'[k].chain) <= 3 /\ call'[k].next = call[k].next
  \/ Len(call'[k].chain) <= Len(call[k].chain) /\ call'[k].next = 1
  \/ call'[k].chain = call[k].chain /\ call'[k].next = call[k].next + 1 /\ call[k].next <= Len(Providers)

LEMMA FailMoves == ASSUME ChainInv, NEW k \in Calls, NEW err, Fail(k, err) PROVE Moves(k)
<1>1. call \in [Calls -> CallColumns] /\ call' = [call EXCEPT ![k].step = "done", ![k].err = err]
  BY DEF ChainInv, Fail
<1>2. call'[k] = [call[k] EXCEPT !.step = "done", !.err = err]
  BY <1>1
<1> QED BY <1>1, <1>2 DEF CallColumns, Moves

LEMMA NextModelMoves ==
  ASSUME ChainInv, NEW k \in Calls, call[k].step = "calling", NEW err, NextModel(k, err) PROVE Moves(k)
<1>1. CASE Fail(k, err)
  BY <1>1, FailMoves
<1>2. CASE call' = [call EXCEPT ![k].chain = Tail(@), ![k].attempt = 1, ![k].next = 1, ![k].err = err]
  <2>1. call \in [Calls -> CallColumns] /\ call[k].chain \in Seq(llm.allowlist) /\ call[k].chain # << >>
    BY Calling DEF ChainInv
  <2>2. PICK s : s = call[k].chain
    OBVIOUS
  <2>3. PICK t : t = Tail(s)
    OBVIOUS
  <2>4. call'[k] = [call[k] EXCEPT !.chain = t, !.attempt = 1, !.next = 1, !.err = err]
    BY <1>2, <2>1, <2>2, <2>3
  <2>5. call'[k].chain = t /\ call'[k].next = 1
    BY <2>1, <2>4 DEF CallColumns
  <2>6. Len(t) <= Len(s)
    BY <2>1, <2>2, <2>3, HeadTailProperties, LenProperties
  <2> QED BY <2>2, <2>5, <2>6 DEF Moves
<1> QED BY <1>1, <1>2 DEF NextModel

LEMMA EndAttemptMoves ==
  ASSUME ChainInv, NEW k \in Calls, call[k].step = "calling", NEW err, EndAttempt(k, err) PROVE Moves(k)
<1>1. CASE NextModel(k, err)
  BY <1>1, NextModelMoves
<1>2. CASE call' = [call EXCEPT ![k].attempt = @ + 1, ![k].next = 1, ![k].err = err]
  <2>1. call \in [Calls -> CallColumns] /\ call[k].chain \in Seq(llm.allowlist)
    BY Calling DEF ChainInv
  <2>2. PICK a : a = call[k].attempt + 1
    OBVIOUS
  <2>3. call'[k] = [call[k] EXCEPT !.attempt = a, !.next = 1, !.err = err]
    BY <1>2, <2>1, <2>2
  <2>4. call'[k].chain = call[k].chain /\ call'[k].next = 1
    BY <2>1, <2>3 DEF CallColumns
  <2>5. Len(call[k].chain) \in Nat
    BY <2>1, LenProperties
  <2>6. Len(call'[k].chain) <= Len(call[k].chain)
    BY <2>4, <2>5
  <2> QED BY <2>4, <2>6 DEF Moves
<1> QED BY <1>1, <1>2 DEF EndAttempt

LEMMA CompletionMoves == ASSUME ChainInv, NEW k \in Calls, LlmStep(k) PROVE Moves(k)
<1>1. call \in [Calls -> CallColumns]
  BY DEF ChainInv
<1>2. CASE Complete(k)
  <2>1. CASE Fail(k, "unknown task") \/ Fail(k, "model not allowed")
    BY <2>1, FailMoves
  <2>2. CASE call' = [call EXCEPT ![k].step = "calling", ![k].chain = modelChain(Task(k))]
    <3>1. PICK chain : chain = modelChain(Task(k)) /\ Len(chain) <= 3
      BY ChainIsShort
    <3>2. call'[k] = [call[k] EXCEPT !.step = "calling", !.chain = chain]
      BY <1>1, <2>2, <3>1
    <3> QED BY <1>1, <3>1, <3>2 DEF CallColumns, Moves
  <2> QED BY <1>2, <2>1, <2>2 DEF Complete
<1>3. CASE SkipProvider(k)
  <2>1. PICK n : n = call[k].next + 1
    OBVIOUS
  <2>2. call'[k] = [call[k] EXCEPT !.next = n] /\ call[k].next <= Len(Providers)
    BY <1>1, <1>3, <2>1 DEF SkipProvider
  <2>3. call'[k].chain = call[k].chain /\ call'[k].next = n
    BY <1>1, <2>2 DEF CallColumns
  <2> QED BY <2>1, <2>2, <2>3 DEF Moves
<1>4. CASE CallProvider(k)
  <2>1. call[k].step = "calling" /\ call[k].next <= Len(Providers)
    BY <1>4 DEF CallProvider, Reachable
  <2>2. CASE call' = [call EXCEPT ![k].step = "done", ![k].err = "none"]
    <3>1. call'[k] = [call[k] EXCEPT !.step = "done", !.err = "none"]
      BY <1>1, <2>2
    <3> QED BY <1>1, <3>1 DEF CallColumns, Moves
  <2>3. CASE NextModel(k, "empty response") \/ EndAttempt(k, "deadline")
    BY <2>1, <2>3, NextModelMoves, EndAttemptMoves
  <2>4. CASE call' = [call EXCEPT ![k].next = @ + 1, ![k].err = "upstream"]
    <3>1. PICK n : n = call[k].next + 1
      OBVIOUS
    <3>2. call'[k] = [call[k] EXCEPT !.next = n, !.err = "upstream"]
      BY <1>1, <2>4, <3>1
    <3>3. call'[k].chain = call[k].chain /\ call'[k].next = n
      BY <1>1, <3>2 DEF CallColumns
    <3> QED BY <2>1, <3>1, <3>3 DEF Moves
  <2> QED BY <1>4, <2>2, <2>3, <2>4 DEF CallProvider, Succeed
<1>5. CASE CallWithoutCaller(k)
  <2>1. call[k].step = "calling" /\ NextModel(k, "cancelled")
    BY <1>5 DEF CallWithoutCaller, Reachable
  <2> QED BY <2>1, NextModelMoves
<1>6. CASE NoProviderLeft(k)
  <2>1. PICK err : call[k].step = "calling" /\ EndAttempt(k, err)
    BY <1>6 DEF NoProviderLeft
  <2> QED BY <2>1, EndAttemptMoves
<1> QED BY <1>2, <1>3, <1>4, <1>5, <1>6 DEF LlmStep

LEMMA OthersRest == ASSUME ChainInv, NEW k \in Calls, LlmStep(k), NEW j \in Calls \ {k} PROVE call'[j] = call[j]
<1>1. call \in [Calls -> CallColumns]
  BY DEF ChainInv
<1>2. \A err : Fail(k, err) \/ NextModel(k, err) \/ EndAttempt(k, err) => call'[j] = call[j]
  BY <1>1 DEF Fail, NextModel, EndAttempt
<1>3. Complete(k) \/ SkipProvider(k) \/ CallProvider(k) => call'[j] = call[j]
  BY <1>1, <1>2 DEF Complete, SkipProvider, CallProvider, Succeed
<1>4. CallWithoutCaller(k) \/ NoProviderLeft(k) => call'[j] = call[j]
  BY <1>2 DEF CallWithoutCaller, NoProviderLeft
<1> QED BY <1>3, <1>4 DEF LlmStep

(* Only completions that were begun are ever given up.                        *)
LEMMA OnlyBegunAreCancelled ==
  ASSUME cancelled \subseteq Calls, [Next]_vars
  PROVE  cancelled' \subseteq Calls
<1>1. UNCHANGED chains => cancelled' = cancelled
  BY DEF chains
<1>2. ASSUME NEW k, LlmStep(k) PROVE cancelled' = cancelled
  BY <1>2 DEF LlmStep, Complete, SkipProvider, CallProvider, CallWithoutCaller, NoProviderLeft
<1>3. ASSUME NEW c \in Players,
             \/ queryParse(c) \/ askHandler(c) \/ planAndTerms(c) \/ cacheGet(c)
             \/ augmentFacts(c) \/ searchFailed(c) \/ augmentChunks(c) \/ runSynthesis(c)
             \/ emitDelta(c) \/ cachePut(c) \/ emitDone(c) \/ askAborted(c)
      PROVE  cancelled' \subseteq Calls
  <2>1. Begun(c) \subseteq Calls
    BY DEF Begun
  <2>2. queryParse(c) \/ askHandler(c) \/ cacheGet(c) \/ augmentFacts(c) \/ augmentChunks(c)
          \/ emitDelta(c) \/ cachePut(c) => cancelled' = cancelled
    BY <1>1 DEF queryParse, askHandler, cacheGet, augmentFacts, augmentChunks, emitDelta, cachePut
  <2>3. planAndTerms(c) \/ searchFailed(c) \/ runSynthesis(c) \/ emitDone(c) \/ askAborted(c)
          => cancelled' = cancelled \/ cancelled' = cancelled \cup Begun(c)
    BY DEF planAndTerms, searchFailed, runSynthesis, emitDone, askAborted, writeSSEProblem, EndStream
  <2> QED BY <1>3, <2>1, <2>2, <2>3
<1>4. AskNext => UNCHANGED chains \/ (\E k \in Calls : LlmStep(k)) \/ cancelled' \subseteq Calls
  BY <1>3 DEF AskNext
<1> QED BY <1>1, <1>2, <1>4 DEF Next, Finished, vars

LEMMA ReachNext ==
  ASSUME ChainInv, ReachInv, [Next]_vars
  PROVE  ReachInv'
<1>1. Len(Providers) \in Nat /\ call \in [Calls -> CallColumns]
  BY ProvidersAssumption DEF ChainInv, Providers
<1>2. UNCHANGED llm
  BY OnlyCompletionsWalk DEF LlmStep, Complete, SkipProvider, CallProvider, CallWithoutCaller, NoProviderLeft
<1>3. Calls' = Calls /\ Providers' = Providers
  BY <1>2 DEF Calls, Providers
<1>4. cancelled' \subseteq Calls
  BY OnlyBegunAreCancelled DEF ReachInv
<1>5. ASSUME NEW k \in Calls, Moves(k) \/ call'[k] = call[k]
      PROVE  call'[k].next <= Len(Providers) + 1 /\ Len(call'[k].chain) <= 3
  <2>1. call[k].next <= Len(Providers) + 1 /\ Len(call[k].chain) <= 3
    BY DEF ReachInv
  <2>2. call[k].next \in Nat /\ Len(call[k].chain) \in Nat
    BY <1>1, LenProperties DEF CallColumns
  <2>3. CASE Len(call'[k].chain) <= Len(call[k].chain) /\ call'[k].next = 1
    <3>1. Len(call'[k].chain) <= 3
      <4>1. ChainInv'
        BY ChainNext
      <4>2. call'[k].chain \in Seq(llm.allowlist)
        BY <1>2, <1>3, <4>1 DEF ChainInv, CallColumns
      <4>3. Len(call'[k].chain) \in Nat
        BY <4>2, LenProperties
      <4> QED BY <2>1, <2>2, <2>3, <4>3
    <3> QED BY <1>1, <2>3, <3>1
  <2> QED BY <1>1, <1>5, <2>1, <2>2, <2>3 DEF Moves
<1>6. \A k \in Calls : Moves(k) \/ call'[k] = call[k]
  BY OnlyCompletionsWalk, CompletionMoves, OthersRest
<1> QED BY <1>3, <1>4, <1>5, <1>6 DEF ReachInv

-----------------------------------------------------------------------------
(* The parts of the type invariant of the whole.                               *)
LEMMA GatewayTypes == ASSUME DrainInv, AccessInv, AuditInv, GateInv PROVE GatewayTypeOK
<1>1. ASSUME NEW c \in Players, caller[c] # None PROVE Definition[Request(c).token].user = caller[c].user
  <2>1. caller[c] = PrincipalOf(Request(c).token)
    BY <1>1 DEF AccessInv
  <2>2. PICK t : t = Request(c).token
    OBVIOUS
  <2>3. PrincipalOf(t).user = Definition[t].user
    BY DEF PrincipalOf
  <2> QED BY <2>1, <2>2, <2>3
<1>2. pc \in [Players -> {"new", "handle", "announce", "record", "done"}]
  BY DEF DrainInv
<1>3. \A e \in announced \cup trail : e.client \in Players
  BY DEF GateInv, AuditInv
<1> QED BY <1>1, <1>2, <1>3 DEF GatewayTypeOK, GateInv

LEMMA UploadsTypes == ASSUME HoldInv, FilesInv, scene \in Scenes PROVE UploadsTypeOK
<1>1. outbox \subseteq DOMAIN docs
  BY DEF HoldInv
<1>2. ASSUME NEW c \in Players PROVE Len(Request(c).parts) + 1 >= work[c].at
  <2>1. PICK n \in Nat : n = Len(Request(c).parts)
    BY PartsAreCounted
  <2>2. work[c].at \in 1..n + 1
    BY <2>1 DEF FilesInv
  <2> QED BY <2>1, <2>2
<1>3. \A d \in DOMAIN docs : docs[d].access \in Range(AccessLevels) /\ docs[d].blob \in DOMAIN blobs \cup {None}
  BY DEF FilesInv, Filed
<1> QED BY <1>1, <1>2, <1>3 DEF UploadsTypeOK

LEMMA ExtractionTypes == ASSUME RowsInv, KnownInv, LinksInv, scene \in Scenes PROVE ExtractionTypeOK
<1>1. commit.at \in 1..Len(scene.deliveries) + 1
  <2>1. PICK n \in Nat : n = Len(scene.deliveries)
    BY DeliveriesAreCounted
  <2>2. commit.at \in Nat \ {0} /\ commit.at <= n + 1
    BY <2>1 DEF RowsInv, KnownInv
  <2>3. commit.at \in 1..n + 1
    BY <2>2
  <2> QED BY <2>1, <2>3
<1>2. commit.step = "commit" => Range(commit.resolved) \subseteq DOMAIN entities
  BY DEF LinksInv, Range
<1>3. ASSUME NEW f \in DOMAIN facts PROVE {facts[f].subject, facts[f].parameter} \subseteq DOMAIN entities
  BY DEF LinksInv, Linked
<1>4. commit.step \in {"fetch", "resolve", "commit"}
  BY DEF KnownInv
<1> QED BY <1>1, <1>2, <1>3, <1>4 DEF ExtractionTypeOK

LEMMA SearchTypes == ASSUME PackInv, KnownInv, IdsInv PROVE SearchTypeOK
<1>1. DecisionsTypeOK
  <2>1. ASSUME NEW e \in DOMAIN entities
        PROVE  /\ entities[e].status \in EntityStatus
               /\ (entities[e].mergedInto # None) => entities[e].mergedInto \in DOMAIN entities
    BY DEF KnownInv, Placed
  <2> QED BY <2>1 DEF DecisionsTypeOK, KnownInv
<1>2. ASSUME NEW c \in Players, search[c].step \notin {"none", "failed"}
      PROVE  Range(search[c].pack.facts) \subseteq DOMAIN facts
  BY <1>2 DEF PackInv, Packed, PackFits, MaySee
<1>3. \A c \in Players : search[c].step \in Range(ReadSteps) \cup {"none", "ready", "failed", "done"}
  BY DEF PackInv
<1> QED BY <1>1, <1>2, <1>3 DEF SearchTypeOK, IdsInv

LEMMA AskTypes == ASSUME SearchTypeOK, StreamInv, SureInv PROVE AskTypeOK
<1>1. \A c \in Players : asks[c].step \in {"deltas", "put", "done"} => asks[c].answer.confidence \in 30..95
  BY DEF SureInv, Sure
<1>2. \A c \in Players : \A i \in DOMAIN stream[c] :
        stream[c][i].event \in {"plan", "evidence", "answer.delta", "answer.done", "error"}
  BY DEF SureInv, Named, Events
<1>3. \A key \in DOMAIN cache : \E t \in DOMAIN Definition : key[2] = PrincipalOf(t).access
  BY DEF SureInv, Keyed
<1>4. \A c \in Players : asks[c].step \in AskSteps
  BY DEF StreamInv
<1> QED BY <1>1, <1>2, <1>3, <1>4 DEF AskTypeOK

LEMMA LlmTypes == ASSUME ChainInv, ReachInv PROVE LlmTypeOK
<1>1. Len(Providers) \in Nat
  BY ProvidersAssumption DEF ChainInv, Providers
<1>2. ASSUME NEW k \in Calls
      PROVE  /\ call[k].step \in {"new", "calling", "done"}
             /\ call[k].attempt \in 1..maxAttemptsPerModel
             /\ call[k].next \in 1..(Len(Providers) + 1)
             /\ Len(call[k].chain) <= 3
  <2>1. call[k].step \in {"new", "calling", "done"} /\ call[k].attempt \in 1..maxAttemptsPerModel /\ call[k].next \in Nat \ {0}
    BY DEF ChainInv, Walk
  <2>2. call[k].next <= Len(Providers) + 1 /\ Len(call[k].chain) <= 3
    BY DEF ReachInv
  <2> QED BY <1>1, <2>1, <2>2
<1> QED BY <1>2 DEF LlmTypeOK, ReachInv

(* What the parts of the service promise each other, in one.                   *)
ServiceInv ==
  /\ DrainInv /\ AuditInv /\ ReviewInv /\ HoldInv /\ AcceptInv /\ RowsInv /\ PackInv /\ AccessInv /\ StreamInv
  /\ HistoryInv /\ LinksInv /\ ChainInv
  /\ GateInv /\ FilesInv /\ KnownInv /\ IdsInv /\ SureInv /\ ReachInv

LEMMA ServiceNext == ServiceInv /\ [Next]_vars => ServiceInv'
<1> SUFFICES ASSUME ServiceInv, [Next]_vars PROVE ServiceInv'
  OBVIOUS
<1>0. /\ DrainInv /\ AuditInv /\ ReviewInv /\ HoldInv /\ AcceptInv /\ RowsInv /\ PackInv /\ AccessInv /\ StreamInv
      /\ HistoryInv /\ LinksInv /\ ChainInv
      /\ GateInv /\ FilesInv /\ KnownInv /\ IdsInv /\ SureInv /\ ReachInv
  BY DEF ServiceInv
<1>1. scene \in Scenes /\ (\E S : history \in Seq(S)) /\ Columns
  BY <1>0 DEF AcceptInv, AuditInv, ReviewInv
<1>2. DrainInv' /\ AuditInv' /\ ReviewInv' /\ HoldInv' /\ AcceptInv'
  BY <1>0, DrainNext, AuditNext, ReviewNext, HoldNext, AcceptNext
<1>3. RowsInv' /\ PackInv' /\ AccessInv' /\ StreamInv'
  BY <1>0, <1>1, RowsStep, PackNext, AccessNext, StreamNext
<1>4. HistoryInv' /\ LinksInv' /\ ChainInv'
  BY <1>0, <1>1, HistoryNext, LinksNext, ChainNext
<1>5. GateInv' /\ FilesInv' /\ KnownInv'
  BY <1>0, <1>1, GateNext, FilesNext, KnownNext
<1>6. IdsInv' /\ SureInv' /\ ReachInv'
  BY <1>0, <1>1, IdsNext, SureNext, ReachNext
<1> QED BY <1>2, <1>3, <1>4, <1>5, <1>6 DEF ServiceInv

(* Every part keeps its types: keys that name requests, documents, entities    *)
(* and facts that exist, statuses of the schema, steps that the code has, and  *)
(* cursors within what they count.                                             *)
THEOREM TypesAreKept == Spec => []TypeOK
<1>1. Init => ServiceInv
  BY DrainInit, AuditInit, ReviewInit, HoldInit, AcceptInit, RowsInit, PackInit, AccessInit, StreamInit,
     HistoryInit, LinksInit, ChainInit, GateInit, FilesInit, KnownInit, IdsInit, SureInit, ReachInit DEF ServiceInv
<1>2. ServiceInv => TypeOK
  <2> SUFFICES ASSUME ServiceInv PROVE TypeOK
    OBVIOUS
  <2>1. scene \in Scenes
    BY DEF ServiceInv, AcceptInv
  <2>2. GatewayTypeOK /\ UploadsTypeOK /\ ExtractionTypeOK
    BY <2>1, GatewayTypes, UploadsTypes, ExtractionTypes DEF ServiceInv
  <2>3. AskTypeOK /\ LlmTypeOK
    BY SearchTypes, AskTypes, LlmTypes DEF ServiceInv
  <2> QED BY <2>2, <2>3 DEF TypeOK
<1> QED BY <1>1, <1>2, ServiceNext, PTL DEF Spec
=============================================================================
