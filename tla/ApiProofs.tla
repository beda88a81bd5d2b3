------------------------------ MODULE ApiProofs ------------------------------
(***************************************************************************)
(* Requests at the gateway, for every set of tokens, every scene and every *)
(* configuration.  In this order: a gateway that stops in time answers     *)
(* what it has taken; a pending entity is reviewed once; a document holds  *)
(* the file it was registered for; a change is in the audit log; an        *)
(* accepted upload is registered; a search result is of one piece; an      *)
(* answer's stream is whole; the cache keeps nothing that the LLM failed   *)
(* to write; what a list or a search shows is up to the caller's access,   *)
(* and of an answer what the graph gave; an answer is about its evidence;  *)
(* the history of a fact tells its status; a request fails in the server   *)
(* for a reason.                                                           *)
(* A step of a handler leaves the requests as they are or answers one of   *)
(* them; the first lemmas say so of every handler but the review's, whose  *)
(* answer and audit row are named.                                         *)
(***************************************************************************)
EXTENDS Api, FiniteSetTheorems, SequenceTheorems, TLAPS

Codes == {200, 400, 401, 403, 404, 500, 501, 502}

(* The steps that a request takes in its handler and in the services behind   *)
(* it, with what they leave to the others.                                   *)
UploadStep(c) ==
  \/ collectParts(c) \/ uploadDocument(c) \/ FindIDBySHA256(c) \/ Register(c)
  \/ registerDocumentResponse(c) \/ GetStatus(c) \/ ListDocuments(c) \/ documentFile(c)

DecisionStep(c) ==
  \/ UpdateFactStatus(c) \/ updateEntityStatus(c) \/ MergeEntities(c)
  \/ DecideContradiction(c) \/ reviewQueue(c)

SearchStep(c) ==
  \/ buildPack(c) /\ UNCHANGED <<scene, gateway, decisions>>
  \/ searchHandler(c)
  \/ ListEntities(c) \/ GetEntity(c) \/ ListEntityFacts(c) \/ EntityGraph(c)
  \/ ListExperts(c) \/ ListExperiments(c)

BrowseStep(c) == GetCoverage(c) \/ GetContradictions(c) \/ dictionaryUnits(c) \/ dictionarySynonyms(c)

AskStep(c) ==
  \/ queryParse(c) \/ askHandler(c) \/ planAndTerms(c) \/ cacheGet(c)
  \/ augmentFacts(c) \/ searchFailed(c) \/ augmentChunks(c) \/ runSynthesis(c)
  \/ emitDelta(c) \/ cachePut(c) \/ emitDone(c) \/ askAborted(c)

Acts(c) ==
  \/ UploadStep(c) /\ UNCHANGED <<decisions, commit, search, chains, answering>>
  \/ DecisionStep(c) /\ UNCHANGED <<uploads, commit, search, chains, answering>>
  \/ SearchStep(c) /\ UNCHANGED <<uploads, commit, chains, answering>>
  \/ BrowseStep(c) /\ UNCHANGED <<uploads, commit, chains, answering>>
  \/ AskStep(c) /\ UNCHANGED <<uploads, commit>>

(* What happens without a request: a commit, a completion, nothing.           *)
Background ==
  \/ ExtractionNext /\ UNCHANGED <<search, chains, answering>>
  \/ (\E k \in Calls : LlmStep(k)) /\ UNCHANGED <<scene, gateway, uploads, decisions, commit, search, answering>>
  \/ UNCHANGED vars

LEMMA Steps ==
  ASSUME [Next]_vars
  PROVE  \/ \E c \in Players : Acts(c)
         \/ GatewayNext /\ UNCHANGED <<uploads, decisions, commit, search, chains, answering>>
         \/ Background
<1>1. UploadsNext => \E c \in Players : UploadStep(c)
  BY DEF UploadsNext, UploadStep
<1>2. DecisionsNext => \E c \in Players : DecisionStep(c)
  BY DEF DecisionsNext, DecisionStep
<1>3. SearchNext => \E c \in Players : SearchStep(c)
  BY DEF SearchNext, SearchStep
<1>4. BrowseNext => \E c \in Players : BrowseStep(c)
  BY DEF BrowseNext, BrowseStep
<1>5. AskNext => \/ \E c \in Players : AskStep(c)
                 \/ (\E k \in Calls : LlmStep(k)) /\ UNCHANGED <<scene, gateway, decisions, search, answering>>
  BY DEF AskNext, AskStep
<1> QED BY <1>1, <1>2, <1>3, <1>4, <1>5 DEF Next, Finished, Acts, Background

(* A step that is no answer, and one that answers c, but not its review with *)
(* success; of the rows of the audit log a handler writes the view of a file.*)
Silent == UNCHANGED <<scene, pc, caller, reply, left, process>>

Answers(c) ==
  /\ pc[c] = "handle"
  /\ \E code \in Codes : \E body : Respond(c, code, body) /\ (code = 200 => Request(c).route # "review")

Viewed(c) == [client |-> c, user |-> caller[c].user, action |-> "document.view_source"]
Logs(c) == trail' = trail \/ (Handling(c, "file") /\ trail' = trail \cup {Viewed(c)})

Handled(c) == Logs(c) /\ (Silent \/ Answers(c))

Reviews(c) ==
  /\ Handling(c, "review") /\ PendingRow(Id(c))
  /\ Body(c).status \in DOMAIN Target
  /\ entities' = [entities EXCEPT ![Id(c)].status = Target[Body(c).status]]
  /\ Write(c, "entity.review")
  /\ \E body : Respond(c, 200, body)

LEMMA StatusIsCode == ASSUME NEW code PROVE grpcHTTPStatus(code) \in Codes \ {200}
BY DEF grpcHTTPStatus, Codes

LEMMA AnswersBy ==
  ASSUME NEW c \in Players, pc[c] = "handle", NEW code \in Codes, NEW body, Respond(c, code, body),
         code = 200 => Request(c).route # "review", Logs(c)
  PROVE  Handled(c)
BY DEF Handled, Answers

LEMMA FailureAnswers ==
  ASSUME NEW c \in Players, pc[c] = "handle", NEW code, NEW body, Respond(c, grpcHTTPStatus(code), body), UNCHANGED trail
  PROVE  Handled(c)
BY AnswersBy, StatusIsCode DEF Logs

LEMMA ProblemAnswers ==
  ASSUME NEW c \in Players, pc[c] = "handle", NEW code \in Codes \ {200}, Problem(c, code)
  PROVE  Handled(c)
BY AnswersBy DEF Problem, Logs

LEMMA SilentIsHandled == ASSUME NEW c, UNCHANGED <<gateway, scene>> PROVE Handled(c)
BY DEF Handled, Silent, Logs, gateway

LEMMA SuccessAnswers ==
  ASSUME NEW c \in Players, NEW route, Handling(c, route), route # "review", NEW body, Respond(c, 200, body), Logs(c)
  PROVE  Handled(c)
BY AnswersBy DEF Handling, Codes

LEMMA UploadsHandled == ASSUME NEW c \in Players, UploadStep(c) PROVE Handled(c)
<1>1. CASE collectParts(c)
  <2>0. Handling(c, "upload")
    BY <1>1 DEF collectParts, At
  <2>1. \/ UNCHANGED <<gateway, scene>>
        \/ Problem(c, 400)
    BY <1>1 DEF collectParts
  <2> QED BY <2>0, <2>1, SilentIsHandled, ProblemAnswers DEF Handling, Codes
<1>2. CASE uploadDocument(c)
  <2>0. Handling(c, "upload")
    BY <1>2 DEF uploadDocument, At
  <2>1. \/ UNCHANGED <<gateway, scene>>
        \/ Problem(c, 400)
    BY <1>2 DEF uploadDocument
  <2> QED BY <2>0, <2>1, SilentIsHandled, ProblemAnswers DEF Handling, Codes
<1>3. CASE FindIDBySHA256(c)
  <2>0. Handling(c, "upload")
    BY <1>3 DEF FindIDBySHA256, At
  <2>1. \/ UNCHANGED <<gateway, scene>>
        \/ (\E code, body : Respond(c, grpcHTTPStatus(code), body)) /\ UNCHANGED trail
        \/ (\E body : Respond(c, 200, body)) /\ UNCHANGED trail
    BY <1>3 DEF FindIDBySHA256, Existing, Registered, Problem
  <2> QED BY <2>0, <2>1, SilentIsHandled, FailureAnswers, SuccessAnswers DEF Handling, Logs
<1>4. CASE Register(c)
  <2>0. Handling(c, "upload")
    BY <1>4 DEF Register, At
  <2>1. \/ UNCHANGED <<gateway, scene>>
        \/ (\E code, body : Respond(c, grpcHTTPStatus(code), body)) /\ UNCHANGED trail
        \/ (\E body : Respond(c, 200, body)) /\ UNCHANGED trail
    BY <1>4 DEF Register, Existing, Registered, Problem
  <2> QED BY <2>0, <2>1, SilentIsHandled, FailureAnswers, SuccessAnswers DEF Handling, Logs
<1>5. CASE registerDocumentResponse(c)
  <2>0. Handling(c, "upload")
    BY <1>5 DEF registerDocumentResponse, At
  <2>1. \/ (\E code, body : Respond(c, grpcHTTPStatus(code), body)) /\ UNCHANGED trail
        \/ (\E body : Respond(c, 200, body)) /\ UNCHANGED trail
    BY <1>5 DEF registerDocumentResponse, Registered, Problem
  <2> QED BY <2>0, <2>1, FailureAnswers, SuccessAnswers DEF Handling, Logs
<1>6. CASE GetStatus(c)
  <2>0. Handling(c, "status")
    BY <1>6 DEF GetStatus
  <2>1. \/ (\E code, body : Respond(c, grpcHTTPStatus(code), body)) /\ UNCHANGED trail
        \/ (\E body : Respond(c, 200, body)) /\ UNCHANGED trail
    BY <1>6 DEF GetStatus
  <2> QED BY <2>0, <2>1, FailureAnswers, SuccessAnswers DEF Handling, Logs
<1>7. CASE ListDocuments(c)
  <2>0. Handling(c, "documents")
    BY <1>7 DEF ListDocuments
  <2>1. \/ (\E code, body : Respond(c, grpcHTTPStatus(code), body)) /\ UNCHANGED trail
        \/ (\E body : Respond(c, 200, body)) /\ UNCHANGED trail
    BY <1>7 DEF ListDocuments
  <2> QED BY <2>0, <2>1, FailureAnswers, SuccessAnswers DEF Handling, Logs
<1>8. CASE documentFile(c)
  <2>0. Handling(c, "file")
    BY <1>8 DEF documentFile
  <2>1. \/ \E code \in {404, 500, 502} : Problem(c, code)
        \/ /\ Write(c, "document.view_source")
           /\ (\E body : Respond(c, 200, body)) \/ Respond(c, 404, None)
    BY <1>8 DEF documentFile
  <2>2. Write(c, "document.view_source") => Logs(c)
    BY <2>0 DEF Write, Logs, Viewed
  <2> QED BY <2>0, <2>1, <2>2, ProblemAnswers, AnswersBy DEF Handling, Codes
<1> QED BY <1>1, <1>2, <1>3, <1>4, <1>5, <1>6, <1>7, <1>8 DEF UploadStep

LEMMA DecisionsHandled == ASSUME NEW c \in Players, DecisionStep(c) PROVE Handled(c) \/ Reviews(c)
<1>1. CASE UpdateFactStatus(c)
  <2>0. Handling(c, "fact")
    BY <1>1 DEF UpdateFactStatus
  <2>1. \/ \E code \in {400, 500} : Problem(c, code)
        \/ (\E code, body : Respond(c, grpcHTTPStatus(code), body)) /\ UNCHANGED trail
        \/ (\E body : Respond(c, 200, body)) /\ UNCHANGED trail
    BY ZenonT(40), <1>1 DEF UpdateFactStatus, updateFactStatusHandler, Refuse, Answer, Problem
  <2> QED BY <2>0, <2>1, ProblemAnswers, FailureAnswers, SuccessAnswers DEF Handling, Codes, Logs
<1>2. CASE updateEntityStatus(c)
  <2>0. Handling(c, "review")
    BY <1>2 DEF updateEntityStatus
  <2>1. (\E code \in {400, 404, 500} : Problem(c, code)) \/ Reviews(c)
    BY ZenonT(40), <1>2 DEF updateEntityStatus, Refuse, Reviews
  <2> QED BY <2>0, <2>1, ProblemAnswers DEF Handling, Codes
<1>3. CASE MergeEntities(c)
  <2>0. Handling(c, "merge")
    BY <1>3 DEF MergeEntities
  <2>1. \/ \E code \in {400, 500} : Problem(c, code)
        \/ (\E code, body : Respond(c, grpcHTTPStatus(code), body)) /\ UNCHANGED trail
        \/ (\E body : Respond(c, 200, body)) /\ UNCHANGED trail
    BY ZenonT(40), <1>3 DEF MergeEntities, mergeEntityHandler, Refuse, Answer, Problem
  <2> QED BY <2>0, <2>1, ProblemAnswers, FailureAnswers, SuccessAnswers DEF Handling, Codes, Logs
<1>4. CASE DecideContradiction(c)
  <2>0. Handling(c, "contradiction")
    BY <1>4 DEF DecideContradiction
  <2>1. \/ \E code \in {400, 500} : Problem(c, code)
        \/ (\E code, body : Respond(c, grpcHTTPStatus(code), body)) /\ UNCHANGED trail
        \/ (\E body : Respond(c, 200, body)) /\ UNCHANGED trail
    BY ZenonT(40), <1>4 DEF DecideContradiction, decideContradictionHandler, Refuse, Answer, Problem
  <2> QED BY <2>0, <2>1, ProblemAnswers, FailureAnswers, SuccessAnswers DEF Handling, Codes, Logs
<1>5. CASE reviewQueue(c)
  <2>0. Handling(c, "queue")
    BY <1>5 DEF reviewQueue
  <2>1. \/ \E code \in {400, 500} : Problem(c, code)
        \/ (\E body : Respond(c, 200, body)) /\ UNCHANGED trail
    BY ZenonT(40), <1>5 DEF reviewQueue, Problem
  <2> QED BY <2>0, <2>1, ProblemAnswers, SuccessAnswers DEF Handling, Codes, Logs
<1> QED BY <1>1, <1>2, <1>3, <1>4, <1>5 DEF DecisionStep

LEMMA SearchHandled == ASSUME NEW c \in Players, SearchStep(c) PROVE Handled(c)
<1>1. CASE buildPack(c) /\ UNCHANGED <<scene, gateway, decisions>>
  BY <1>1, SilentIsHandled
<1>2. CASE searchHandler(c)
  <2>0. Handling(c, "search")
    BY <1>2 DEF searchHandler
  <2>1. \/ UNCHANGED <<gateway, scene>>
        \/ Problem(c, 400)
        \/ (\E code, body : Respond(c, grpcHTTPStatus(code), body)) /\ UNCHANGED trail
        \/ (\E body : Respond(c, 200, body)) /\ UNCHANGED trail
    BY <1>2 DEF searchHandler, Problem
  <2> QED BY <2>0, <2>1, SilentIsHandled, ProblemAnswers, FailureAnswers, SuccessAnswers DEF Handling, Codes, Logs
<1>3. CASE ListEntities(c)
  <2>0. Handling(c, "entities")
    BY <1>3 DEF ListEntities, Shows
  <2>1. \/ (\E code, body : Respond(c, grpcHTTPStatus(code), body)) /\ UNCHANGED trail
        \/ (\E body : Respond(c, 200, body)) /\ UNCHANGED trail
    BY <1>3 DEF ListEntities, Shows
  <2> QED BY <2>0, <2>1, FailureAnswers, SuccessAnswers DEF Handling, Logs
<1>4. CASE GetEntity(c)
  <2>0. Handling(c, "entity")
    BY <1>4 DEF GetEntity, Shows
  <2>1. \/ (\E code, body : Respond(c, grpcHTTPStatus(code), body)) /\ UNCHANGED trail
        \/ (\E body : Respond(c, 200, body)) /\ UNCHANGED trail
    BY <1>4 DEF GetEntity, Shows, Problem
  <2> QED BY <2>0, <2>1, FailureAnswers, SuccessAnswers DEF Handling, Logs
<1>5. CASE ListEntityFacts(c)
  <2>0. Handling(c, "entityFacts")
    BY <1>5 DEF ListEntityFacts, Shows
  <2>1. \/ (\E code, body : Respond(c, grpcHTTPStatus(code), body)) /\ UNCHANGED trail
        \/ (\E body : Respond(c, 200, body)) /\ UNCHANGED trail
    BY <1>5 DEF ListEntityFacts, Shows
  <2> QED BY <2>0, <2>1, FailureAnswers, SuccessAnswers DEF Handling, Logs
<1>6. CASE EntityGraph(c)
  <2>0. Handling(c, "graph")
    BY <1>6 DEF EntityGraph, Shows
  <2>1. \/ (\E code, body : Respond(c, grpcHTTPStatus(code), body)) /\ UNCHANGED trail
        \/ (\E body : Respond(c, 200, body)) /\ UNCHANGED trail
    BY <1>6 DEF EntityGraph, Shows
  <2> QED BY <2>0, <2>1, FailureAnswers, SuccessAnswers DEF Handling, Logs
<1>7. CASE ListExperts(c)
  <2>0. Handling(c, "experts")
    BY <1>7 DEF ListExperts, Shows
  <2>1. \/ (\E code, body : Respond(c, grpcHTTPStatus(code), body)) /\ UNCHANGED trail
        \/ (\E body : Respond(c, 200, body)) /\ UNCHANGED trail
    BY <1>7 DEF ListExperts, Shows
  <2> QED BY <2>0, <2>1, FailureAnswers, SuccessAnswers DEF Handling, Logs
<1>8. CASE ListExperiments(c)
  <2>0. Handling(c, "experiments")
    BY <1>8 DEF ListExperiments, Shows
  <2>1. \/ (\E code, body : Respond(c, grpcHTTPStatus(code), body)) /\ UNCHANGED trail
        \/ (\E body : Respond(c, 200, body)) /\ UNCHANGED trail
    BY <1>8 DEF ListExperiments, Shows
  <2> QED BY <2>0, <2>1, FailureAnswers, SuccessAnswers DEF Handling, Logs
<1> QED BY <1>1, <1>2, <1>3, <1>4, <1>5, <1>6, <1>7, <1>8 DEF SearchStep

LEMMA BrowseHandled == ASSUME NEW c \in Players, BrowseStep(c) PROVE Handled(c)
<1>1. CASE GetCoverage(c)
  <2>0. Handling(c, "coverage")
    BY <1>1 DEF GetCoverage, Shows
  <2>1. \/ (\E code, body : Respond(c, grpcHTTPStatus(code), body)) /\ UNCHANGED trail
        \/ (\E body : Respond(c, 200, body)) /\ UNCHANGED trail
    BY <1>1 DEF GetCoverage, Shows
  <2> QED BY <2>0, <2>1, FailureAnswers, SuccessAnswers DEF Handling, Logs
<1>2. CASE GetContradictions(c)
  <2>0. Handling(c, "contradictions")
    BY <1>2 DEF GetContradictions, Shows
  <2>1. \/ (\E code, body : Respond(c, grpcHTTPStatus(code), body)) /\ UNCHANGED trail
        \/ (\E body : Respond(c, 200, body)) /\ UNCHANGED trail
    BY <1>2 DEF GetContradictions, Shows
  <2> QED BY <2>0, <2>1, FailureAnswers, SuccessAnswers DEF Handling, Logs
<1>3. CASE dictionaryUnits(c)
  <2>0. Handling(c, "units")
    BY <1>3 DEF dictionaryUnits, Reads
  <2>1. \/ \E code \in {500, 502} : Problem(c, code)
        \/ (\E body : Respond(c, 200, body)) /\ UNCHANGED trail
    BY <1>3 DEF dictionaryUnits, Reads, Problem
  <2> QED BY <2>0, <2>1, ProblemAnswers, SuccessAnswers DEF Handling, Codes, Logs
<1>4. CASE dictionarySynonyms(c)
  <2>0. Handling(c, "synonyms")
    BY <1>4 DEF dictionarySynonyms, Reads
  <2>1. \/ \E code \in {500, 502} : Problem(c, code)
        \/ (\E body : Respond(c, 200, body)) /\ UNCHANGED trail
    BY <1>4 DEF dictionarySynonyms, Reads, Problem
  <2> QED BY <2>0, <2>1, ProblemAnswers, SuccessAnswers DEF Handling, Codes, Logs
<1> QED BY <1>1, <1>2, <1>3, <1>4 DEF BrowseStep

LEMMA QuestionsHandled == ASSUME NEW c \in Players, AskStep(c) PROVE Handled(c)
<1>1. CASE queryParse(c)
  <2>0. Handling(c, "parse")
    BY <1>1 DEF queryParse
  <2>1. \/ Problem(c, 400)
        \/ (\E code, body : Respond(c, grpcHTTPStatus(code), body)) /\ UNCHANGED trail
        \/ (\E body : Respond(c, 200, body)) /\ UNCHANGED trail
    BY <1>1 DEF queryParse, Problem
  <2> QED BY <2>0, <2>1, ProblemAnswers, FailureAnswers, SuccessAnswers DEF Handling, Codes, Logs
<1>2. CASE askHandler(c)
  <2>0. Handling(c, "ask")
    BY <1>2 DEF askHandler, Asking, Handling
  <2>1. \/ UNCHANGED <<gateway, scene>>
        \/ Problem(c, 400)
    BY <1>2 DEF askHandler
  <2> QED BY <2>0, <2>1, SilentIsHandled, ProblemAnswers DEF Handling, Codes
<1>3. CASE planAndTerms(c)
  BY <1>3, SilentIsHandled DEF planAndTerms
<1>4. CASE cacheGet(c)
  BY <1>4, SilentIsHandled DEF cacheGet
<1>5. CASE augmentFacts(c)
  BY <1>5, SilentIsHandled DEF augmentFacts
<1>6. CASE searchFailed(c)
  <2>0. Handling(c, "ask")
    BY <1>6 DEF searchFailed, Going, Asking, Handling
  <2>1. (\E body : Respond(c, 200, body)) /\ UNCHANGED trail
    BY <1>6 DEF searchFailed, writeSSEProblem, EndStream
  <2> QED BY <2>0, <2>1, SuccessAnswers DEF Handling, Logs
<1>7. CASE augmentChunks(c)
  BY <1>7, SilentIsHandled DEF augmentChunks
<1>8. CASE runSynthesis(c)
  BY <1>8, SilentIsHandled DEF runSynthesis
<1>9. CASE emitDelta(c)
  BY <1>9, SilentIsHandled DEF emitDelta
<1>10. CASE cachePut(c)
  BY <1>10, SilentIsHandled DEF cachePut
<1>11. CASE emitDone(c)
  <2>0. Handling(c, "ask")
    BY <1>11 DEF emitDone, Going, Asking, Handling
  <2>1. (\E body : Respond(c, 200, body)) /\ UNCHANGED trail
    BY <1>11 DEF emitDone, EndStream
  <2> QED BY <2>0, <2>1, SuccessAnswers DEF Handling, Logs
<1>12. CASE askAborted(c)
  <2>0. Handling(c, "ask")
    BY <1>12 DEF askAborted, Handling
  <2>1. (\E body : Respond(c, 200, body)) /\ UNCHANGED trail
    BY <1>12 DEF askAborted, writeSSEProblem, EndStream
  <2> QED BY <2>0, <2>1, SuccessAnswers DEF Handling, Logs
<1> QED BY <1>1, <1>2, <1>3, <1>4, <1>5, <1>6, <1>7, <1>8, <1>9, <1>10, <1>11, <1>12 DEF AskStep

LEMMA ActsAreHandled == ASSUME NEW c \in Players, Acts(c) PROVE Handled(c) \/ Reviews(c)
BY UploadsHandled, DecisionsHandled, SearchHandled, BrowseHandled, QuestionsHandled DEF Acts

LEMMA BackgroundIsSilent == ASSUME Background PROVE Silent /\ UNCHANGED trail
BY DEF Background, ExtractionNext, Silent, gateway, vars

NoReview == trail \subseteq trail' /\ \A row \in trail' \ trail : row.action # "entity.review"

LEMMA StepIsHandled ==
  ASSUME [Next]_vars
  PROVE  \/ NoReview /\ (Silent \/ \E c \in Players : Answers(c))
         \/ \E c \in Players : Reviews(c)
         \/ GatewayNext
<1>1. CASE \E c \in Players : Handled(c)
  BY <1>1 DEF Handled, Logs, Viewed, NoReview
<1>2. CASE Background
  BY <1>2, BackgroundIsSilent DEF NoReview
<1> QED BY <1>1, <1>2, Steps, ActsAreHandled

-----------------------------------------------------------------------------
(* Whoever was let in is in a handler, or has been answered, or has left; and *)
(* a gateway that closes in time has nobody in a handler.                     *)
Idle(c) == pc[c] \in {"new", "done"}

DrainInv ==
  /\ pc \in [Players -> {"new", "handle", "announce", "record", "done"}]
  /\ caller = [c \in Players |-> caller[c]] /\ reply = [c \in Players |-> reply[c]]
  /\ process = [state |-> process.state, late |-> process.late]
  /\ \A c \in Players : pc[c] = "new" => caller[c] = None
  /\ \A c \in Players : (caller[c] # None /\ pc[c] # "handle") => c \in left \/ Answered(c)
  /\ (process.state \in {"closing", "stopped"} /\ ~process.late) => \A c \in Players : Idle(c)

LEMMA DrainInit == Init => DrainInv
BY DEF Init, GatewayInit, DrainInv, Idle, Unanswered, Answered

LEMMA AnswersDrain ==
  ASSUME DrainInv, NEW c \in Players, pc[c] = "handle", NEW code \in Codes, NEW body, Respond(c, code, body)
  PROVE  DrainInv'
<1>1. PICK next \in {"announce", "done"} : pc' = [pc EXCEPT ![c] = next]
  BY DEF Respond
<1>2. Players' = Players /\ UNCHANGED <<caller, left, process>>
  BY DEF Respond, Players
<1>3. reply' = [reply EXCEPT ![c] = IF c \in left THEN Unanswered ELSE [code |-> code, body |-> body]]
  BY DEF Respond
<1>4. \A d \in Players : Answered(d)' = IF d = c THEN c \notin left ELSE Answered(d)
  BY <1>3 DEF Answered, DrainInv, Unanswered, Codes
<1>5. ~(process.state \in {"closing", "stopped"} /\ ~process.late)
  BY DEF DrainInv, Idle
<1> QED BY <1>1, <1>2, <1>3, <1>4, <1>5 DEF DrainInv, Idle

LEMMA DrainNext == DrainInv /\ [Next]_vars => DrainInv'
<1> SUFFICES ASSUME DrainInv, [Next]_vars PROVE DrainInv'
  OBVIOUS
<1>1. CASE Silent
  BY <1>1 DEF Silent, DrainInv, Idle, Answered, Players
<1>2. CASE \E c \in Players : Answers(c)
  BY <1>2, AnswersDrain DEF Answers
<1>3. CASE \E c \in Players : Reviews(c)
  BY <1>3, AnswersDrain DEF Reviews, Handling, Codes
<1>4. CASE RuntimeStep
  <2>1. UNCHANGED <<scene, pc, caller, reply, left>>
    BY <1>4 DEF RuntimeStep
  <2>2. process' = [state |-> process'.state, late |-> process'.late]
    BY <1>4 DEF RuntimeStep, signal, listenerFails, shutdown, closeResources, DrainInv
  <2>3. (process'.state \in {"closing", "stopped"} /\ ~process'.late) => \A c \in Players : Idle(c)
    BY <1>4 DEF RuntimeStep, signal, listenerFails, shutdown, closeResources, DrainInv, Handlers, Idle
  <2> QED BY <2>1, <2>2, <2>3 DEF DrainInv, Idle, Answered, Players
<1>5. ASSUME NEW c \in Players, authorize(c) PROVE DrainInv'
  <2>1. CASE \E code \in {401, 403} : Problem(c, code)
    <3>1. PICK code, body : Respond(c, code, body)
      BY <2>1 DEF Problem
    <3>2. caller[c] = None /\ pc[c] = "new"
      BY <1>5 DEF authorize, DrainInv
    <3>3. pc' = [pc EXCEPT ![c] = "done"] /\ UNCHANGED <<scene, caller, left, process>>
      BY <3>1, <3>2 DEF Respond
    <3>4. reply' = [reply EXCEPT ![c] = reply'[c]]
      BY <3>1 DEF Respond, DrainInv
    <3> QED BY <3>2, <3>3, <3>4 DEF DrainInv, Idle, Answered, Players
  <2>2. CASE /\ pc' = [pc EXCEPT ![c] = "handle"]
             /\ UNCHANGED <<scene, reply, left, process>>
             /\ \E principal : caller' = [caller EXCEPT ![c] = principal]
    BY <1>5, <2>2 DEF authorize, DrainInv, Idle, Answered, Players
  <2> QED BY <1>5, <2>1, <2>2 DEF authorize
<1>6. ASSUME NEW c \in Players, emitAuditEvent(c) \/ recordAudit(c) PROVE DrainInv'
  <2>1. UNCHANGED <<scene, caller, reply, left, process>> /\ pc[c] \in {"announce", "record"}
    BY <1>6 DEF emitAuditEvent, recordAudit
  <2>2. PICK next \in {"record", "done"} : pc' = [pc EXCEPT ![c] = next]
    BY <1>6 DEF emitAuditEvent, recordAudit
  <2> QED BY <2>1, <2>2 DEF DrainInv, Idle, Answered, Players
<1>7. ASSUME NEW c \in Players, HangUp(c) PROVE DrainInv'
  BY <1>7 DEF HangUp, DrainInv, Idle, Answered, Players
<1> QED BY <1>1, <1>2, <1>3, <1>4, <1>5, <1>6, <1>7, StepIsHandled DEF GatewayNext

(* A gateway that was told to stop, and did not have to give up, has answered *)
(* every request it had taken from a client that stays, whatever the requests *)
(* are and however they interleave.                                           *)
THEOREM RequestsAreAlwaysDrained == Spec => []RequestsAreDrained
<1>1. DrainInv => RequestsAreDrained
  BY DEF DrainInv, RequestsAreDrained, Idle
<1> QED BY <1>1, DrainInit, DrainNext, PTL DEF Spec

-----------------------------------------------------------------------------
(* No step but a review's writes a row of a review or answers one with        *)
(* success; no step at all makes an entity pending again.                     *)
Columns == \A e \in DOMAIN entities : {"status", "mergedInto", "aliases"} \subseteq DOMAIN entities[e]

EntitiesKept ==
  /\ Columns'
  /\ DOMAIN entities \subseteq DOMAIN entities'
  /\ \A e \in DOMAIN entities :
       entities'[e].status = "pending_review" => entities[e].status = "pending_review"

LEMMA TargetIsDecided == \A status \in DOMAIN Target : Target[status] \in {"active", "deprecated"}
BY DEF Target

LEMMA UnchangedIsKept == Columns /\ UNCHANGED entities => EntitiesKept
BY DEF Columns, EntitiesKept

LEMMA ReviewKeeps ==
  ASSUME Columns, NEW e, NEW status \in {"active", "deprecated"},
         entities' = [entities EXCEPT ![e].status = status]
  PROVE  EntitiesKept
BY DEF Columns, EntitiesKept

LEMMA MergeKeeps ==
  ASSUME Columns, NEW x \in DOMAIN entities, NEW into \in DOMAIN entities, entities' = EntitiesAfter(x, into)
  PROVE  EntitiesKept
<1> DEFINE Aliases == entities[into].aliases \cup entities[x].aliases
           One == [entities EXCEPT ![x].status = "merged"]
           Two == [One EXCEPT ![x].mergedInto = into]
           Three == [Two EXCEPT ![x].aliases = IF x = into THEN @ ELSE {}]
           Four == [Three EXCEPT ![into].aliases = @ \cup entities[x].aliases]
<1>1. entities' = Four
  BY DEF EntitiesAfter
<1>2. /\ DOMAIN One = DOMAIN entities
      /\ \A e \in DOMAIN entities : /\ DOMAIN One[e] = DOMAIN entities[e]
                                    /\ One[e].status = IF e = x THEN "merged" ELSE entities[e].status
  BY DEF Columns
<1>3. /\ DOMAIN Two = DOMAIN entities
      /\ \A e \in DOMAIN entities : DOMAIN Two[e] = DOMAIN entities[e] /\ Two[e].status = One[e].status
  BY <1>2 DEF Columns
<1>4. /\ DOMAIN Three = DOMAIN entities
      /\ \A e \in DOMAIN entities : DOMAIN Three[e] = DOMAIN entities[e] /\ Three[e].status = Two[e].status
  BY <1>3 DEF Columns
<1>5. /\ DOMAIN Four = DOMAIN entities
      /\ \A e \in DOMAIN entities : DOMAIN Four[e] = DOMAIN entities[e] /\ Four[e].status = Three[e].status
  BY <1>4 DEF Columns
<1> HIDE DEF One, Two, Three, Four
<1> QED BY <1>1, <1>2, <1>3, <1>4, <1>5 DEF EntitiesKept, Columns

LEMMA CommitKeeps == ASSUME Columns, entities' = InsertedEntities PROVE EntitiesKept
BY DEF InsertedEntities, EntitiesKept, Columns

LEMMA EntitiesStep == ASSUME Columns, [Next]_vars PROVE EntitiesKept
<1>1. CASE DecisionsNext
  <2> PICK c \in Players :
        \/ UpdateFactStatus(c) \/ updateEntityStatus(c) \/ MergeEntities(c)
        \/ DecideContradiction(c) \/ reviewQueue(c)
    BY <1>1 DEF DecisionsNext
  <2>1. CASE UpdateFactStatus(c) \/ DecideContradiction(c) \/ reviewQueue(c)
    <3>1. UNCHANGED entities
      BY <2>1 DEF UpdateFactStatus, updateFactStatusHandler, DecideContradiction, decideContradictionHandler,
                  reviewQueue, Refuse, decisions
    <3> QED BY <3>1, UnchangedIsKept
  <2>2. CASE updateEntityStatus(c)
    <3>1. \/ UNCHANGED entities
          \/ /\ Body(c).status \in DOMAIN Target
             /\ entities' = [entities EXCEPT ![Id(c)].status = Target[Body(c).status]]
      BY <2>2 DEF updateEntityStatus, Refuse, decisions
    <3> QED BY <3>1, TargetIsDecided, UnchangedIsKept, ReviewKeeps
  <2>3. CASE MergeEntities(c)
    <3>1. \/ UNCHANGED entities
          \/ \E x, into \in DOMAIN entities : entities' = EntitiesAfter(x, into)
      BY <2>3 DEF MergeEntities, mergeEntityHandler, Refuse, decisions
    <3> QED BY <3>1, UnchangedIsKept, MergeKeeps
  <2> QED BY <2>1, <2>2, <2>3
<1>2. CASE ExtractionNext
  <2>1. UNCHANGED entities \/ entities' = InsertedEntities
    BY <1>2 DEF ExtractionNext, fetchBundle, ResolveByNames, Commit, Nak
  <2> QED BY <2>1, UnchangedIsKept, CommitKeeps
<1>3. CASE SearchNext
  <2>1. UNCHANGED entities
    BY <1>3 DEF SearchNext, searchHandler, ListEntities, GetEntity, ListEntityFacts, EntityGraph,
                ListExperts, ListExperiments, Shows, decisions
  <2> QED BY <2>1, UnchangedIsKept
<1>4. CASE BrowseNext
  <2>1. UNCHANGED entities
    BY <1>4 DEF BrowseNext, GetCoverage, GetContradictions, dictionaryUnits, dictionarySynonyms,
                Shows, Reads, decisions
  <2> QED BY <2>1, UnchangedIsKept
<1>5. CASE AskNext
  <2>1. UNCHANGED entities
    BY <1>5 DEF AskNext, queryParse, askHandler, planAndTerms, cacheGet, augmentFacts, searchFailed,
                augmentChunks, runSynthesis, emitDelta, cachePut, emitDone, askAborted, decisions
  <2> QED BY <2>1, UnchangedIsKept
<1>6. CASE UNCHANGED decisions \/ UNCHANGED vars
  BY <1>6, UnchangedIsKept DEF decisions, vars
<1> QED BY <1>1, <1>2, <1>3, <1>4, <1>5, <1>6 DEF Next, Finished

(* Whose review succeeded, as the answer or the audit log says; and why there *)
(* is at most one of an entity: it is not pending any more.                   *)
ReviewRow(c) == [client |-> c, user |-> caller[c].user, action |-> "entity.review"]
Reviewed(c) == Request(c).route = "review" /\ (reply[c].code = 200 \/ ReviewRow(c) \in trail)
Past(c) == pc[c] \in {"announce", "record", "done"}

ReviewInv ==
  /\ Columns
  /\ \A c \in Players : pc[c] \in {"announce", "record"} => Audited(c)
  /\ \A row \in trail : row.action = "entity.review" =>
       /\ row.client \in Players /\ Request(row.client).route = "review"
       /\ Past(row.client) /\ row = ReviewRow(row.client)
  /\ \A c \in Players : Reviewed(c) =>
       Past(c) /\ Id(c) \in DOMAIN entities /\ entities[Id(c)].status # "pending_review"
  /\ \A c, d \in Players : (Reviewed(c) /\ Reviewed(d) /\ Id(c) = Id(d)) => c = d

LEMMA ReviewInit == Init => ReviewInv
BY EntitiesAssumption
DEF Init, GatewayInit, DecisionsInit, ReviewInv, Columns, Reviewed, Unanswered, Past

(* What a step that is no review's does to the reviews there were.            *)
LEMMA ReviewsStand ==
  ASSUME DrainInv, ReviewInv, EntitiesKept, NoReview, UNCHANGED scene,
         \A c \in Players : Past(c) => Past(c)' /\ caller'[c] = caller[c],
         \A c \in Players : pc'[c] \in {"announce", "record"} => pc[c] \in {"announce", "record"} \/ Audited(c),
         \A c \in Players : (reply'[c].code = 200 /\ Request(c).route = "review") => reply[c].code = 200
  PROVE  ReviewInv'
<1>1. Players' = Players /\ (\A c \in Players : Request(c)' = Request(c) /\ Id(c)' = Id(c)
                                                /\ Audited(c)' = Audited(c))
  BY DEF Players, Request, Id, Audited, Operation
<1>2. \A row \in trail' : row.action = "entity.review" => row \in trail
  BY DEF NoReview
<1>3. \A c \in Players : Reviewed(c)' => Reviewed(c)
  <2> SUFFICES ASSUME NEW c \in Players, Reviewed(c)' PROVE Reviewed(c)
    OBVIOUS
  <2>1. Request(c).route = "review"
    BY <1>1 DEF Reviewed
  <2>2. CASE reply'[c].code = 200
    BY <2>1, <2>2 DEF Reviewed
  <2>3. CASE ReviewRow(c)' \in trail'
    <3>1. ReviewRow(c)' \in trail
      BY <2>3, <1>2 DEF ReviewRow
    <3>2. Past(c)
      BY <3>1 DEF ReviewInv, ReviewRow
    <3>3. ReviewRow(c)' = ReviewRow(c)
      BY <3>2 DEF ReviewRow
    <3> QED BY <2>1, <3>1, <3>3 DEF Reviewed
  <2> QED BY <2>2, <2>3 DEF Reviewed
<1>4. \A c \in Players : Past(c) => ReviewRow(c)' = ReviewRow(c)
  BY DEF ReviewRow
<1>5. \A row \in trail' : row.action = "entity.review" =>
        (/\ row.client \in Players /\ Request(row.client).route = "review"
         /\ Past(row.client) /\ row = ReviewRow(row.client))'
  BY <1>1, <1>2, <1>4 DEF ReviewInv
<1>6. \A c \in Players : Reviewed(c)' =>
        (Past(c) /\ Id(c) \in DOMAIN entities /\ entities[Id(c)].status # "pending_review")'
  BY <1>1, <1>3 DEF ReviewInv, EntitiesKept
<1>7. \A c, d \in Players : (Reviewed(c)' /\ Reviewed(d)' /\ Id(c)' = Id(d)') => c = d
  BY <1>1, <1>3 DEF ReviewInv
<1> QED BY <1>1, <1>5, <1>6, <1>7 DEF ReviewInv, EntitiesKept

LEMMA ReviewIsOne ==
  ASSUME DrainInv, ReviewInv, EntitiesKept, NEW c \in Players, Reviews(c)
  PROVE  ReviewInv'
<1> DEFINE e == Id(c)
<1>1. PICK body : Respond(c, 200, body)
  BY DEF Reviews
<1>2. pc[c] = "handle" /\ Request(c).route = "review" /\ PendingRow(e)
  BY DEF Reviews, Handling
<1>3. Players' = Players /\ (\A d \in Players : /\ Request(d)' = Request(d) /\ Id(d)' = Id(d)
                                                /\ ReviewRow(d)' = ReviewRow(d) /\ Audited(d)' = Audited(d))
  BY <1>1 DEF Respond, Players, Request, Id, ReviewRow, Audited, Operation
<1>4. (pc' = [pc EXCEPT ![c] = "announce"] /\ Audited(c)) \/ pc' = [pc EXCEPT ![c] = "done"]
  BY <1>1 DEF Respond
<1>5. trail' \subseteq trail \cup {ReviewRow(c)}
  BY DEF Reviews, Write, ReviewRow
<1>6. \A d \in Players \ {c} : reply'[d] = reply[d]
  BY <1>1 DEF Respond, DrainInv
<1>7. \A d \in Players \ {c} : Reviewed(d)' => Reviewed(d) /\ Id(d) # e
  <2> SUFFICES ASSUME NEW d \in Players \ {c}, Reviewed(d)' PROVE Reviewed(d) /\ Id(d) # e
    OBVIOUS
  <2>1. ReviewRow(d) # ReviewRow(c)
    BY DEF ReviewRow
  <2>2. Reviewed(d)
    BY <1>3, <1>5, <1>6, <2>1 DEF Reviewed
  <2> QED BY <1>2, <2>2 DEF ReviewInv, PendingRow
<1>8. e \in DOMAIN entities' /\ entities'[e].status # "pending_review"
  <2> DEFINE status == Target[Body(c).status]
  <2>1. status \in {"active", "deprecated"}
    BY TargetIsDecided DEF Reviews
  <2>2. entities' = [entities EXCEPT ![e].status = status]
    BY DEF Reviews
  <2>3. e \in DOMAIN entities /\ "status" \in DOMAIN entities[e]
    BY <1>2 DEF PendingRow, ReviewInv, Columns
  <2> HIDE DEF status, e
  <2> QED BY <2>1, <2>2, <2>3
<1>9. (\A d \in Players : Past(d) => Past(d)') /\ Past(c)' /\ ~Past(c)
  BY <1>2, <1>4 DEF Past, DrainInv
<1>10. \A row \in trail' : row.action = "entity.review" =>
         (/\ row.client \in Players /\ Request(row.client).route = "review"
          /\ Past(row.client) /\ row = ReviewRow(row.client))'
  <2> SUFFICES ASSUME NEW row \in trail', row.action = "entity.review"
               PROVE  /\ row.client \in Players /\ Request(row.client).route = "review"
                      /\ Past(row.client)' /\ row = ReviewRow(row.client)
    BY <1>3
  <2>1. CASE row \in trail
    BY <1>9, <2>1 DEF ReviewInv
  <2>2. CASE row = ReviewRow(c)
    BY <1>2, <1>9, <2>2 DEF ReviewRow
  <2> QED BY <1>5, <2>1, <2>2
<1>11. \A d \in Players : Reviewed(d)' =>
         (Past(d) /\ Id(d) \in DOMAIN entities /\ entities[Id(d)].status # "pending_review")'
  BY <1>3, <1>7, <1>8, <1>9 DEF ReviewInv, EntitiesKept
<1>12. \A d, f \in Players : (Reviewed(d)' /\ Reviewed(f)' /\ Id(d)' = Id(f)') => d = f
  BY <1>3, <1>7 DEF ReviewInv
<1>13. \A d \in Players : pc'[d] \in {"announce", "record"} => Audited(d)'
  BY <1>3, <1>4 DEF ReviewInv, DrainInv
<1> QED BY <1>10, <1>11, <1>12, <1>13, <1>3 DEF ReviewInv, EntitiesKept

LEMMA ReviewNext == DrainInv /\ ReviewInv /\ [Next]_vars => ReviewInv'
<1> SUFFICES ASSUME DrainInv, ReviewInv, [Next]_vars PROVE ReviewInv'
  OBVIOUS
<1>0. EntitiesKept
  BY EntitiesStep DEF ReviewInv
<1>1. CASE Silent /\ NoReview
  BY <1>0, <1>1, ReviewsStand DEF Silent, Past
<1>2. ASSUME NEW c \in Players, Answers(c), NoReview PROVE ReviewInv'
  <2>0. PICK code \in Codes : \E body : Respond(c, code, body) /\ (code = 200 => Request(c).route # "review")
    BY <1>2 DEF Answers
  <2>1. PICK body : Respond(c, code, body) /\ (code = 200 => Request(c).route # "review")
    BY <2>0
  <2>2. (pc' = [pc EXCEPT ![c] = "announce"] /\ Audited(c)) \/ pc' = [pc EXCEPT ![c] = "done"]
    BY <2>1 DEF Respond
  <2>3. \A d \in Players : (reply'[d].code = 200 /\ Request(d).route = "review") => reply[d].code = 200
    BY <2>1 DEF Respond, DrainInv, Unanswered
  <2>4. UNCHANGED <<scene, caller>> /\ pc[c] = "handle"
    BY <1>2, <2>1 DEF Answers, Respond
  <2> QED BY <1>0, <1>2, <2>2, <2>3, <2>4, ReviewsStand DEF Past, DrainInv
<1>3. CASE \E c \in Players : Reviews(c)
  BY <1>0, <1>3, ReviewIsOne
<1>4. CASE RuntimeStep
  BY <1>0, <1>4, ReviewsStand DEF RuntimeStep, NoReview, Past
<1>5. ASSUME NEW c \in Players, authorize(c) PROVE ReviewInv'
  <2>1. pc[c] = "new" /\ UNCHANGED <<scene, trail>>
    BY <1>5 DEF authorize, Problem, Respond
  <2>2. \E next \in {"handle", "announce", "done"} : pc' = [pc EXCEPT ![c] = next] /\ (next = "announce" => Audited(c))
    BY <1>5 DEF authorize, Problem, Respond
  <2>3. \A d \in Players : (reply'[d].code = 200 /\ Request(d).route = "review") => reply[d].code = 200
    BY <1>5 DEF authorize, Problem, Respond, DrainInv, Unanswered
  <2>4. \A d \in Players \ {c} : caller'[d] = caller[d]
    BY <1>5 DEF authorize, Problem, Respond, DrainInv
  <2>5. NoReview
    BY <2>1 DEF NoReview
  <2> QED BY <1>0, <2>1, <2>2, <2>3, <2>4, <2>5, ReviewsStand DEF Past, DrainInv
<1>6. ASSUME NEW c \in Players, emitAuditEvent(c) \/ recordAudit(c) PROVE ReviewInv'
  <2>1. UNCHANGED <<scene, caller, reply>> /\ pc[c] \in {"announce", "record"}
    BY <1>6 DEF emitAuditEvent, recordAudit
  <2>2. PICK next \in {"record", "done"} : pc' = [pc EXCEPT ![c] = next]
    BY <1>6 DEF emitAuditEvent, recordAudit
  <2>3. Meta(c).action # "entity.review"
    BY <2>1 DEF ReviewInv, Audited, Meta, auditActions
  <2>4. NoReview
    BY <1>6, <2>3 DEF emitAuditEvent, recordAudit, Write, NoReview
  <2> QED BY <1>0, <2>1, <2>2, <2>4, ReviewsStand DEF Past, DrainInv, ReviewInv
<1>7. ASSUME NEW c \in Players, HangUp(c) PROVE ReviewInv'
  BY <1>0, <1>7, ReviewsStand DEF HangUp, NoReview, Past
<1> QED BY <1>1, <1>2, <1>3, <1>4, <1>5, <1>6, <1>7, StepIsHandled DEF GatewayNext

LEMMA AtMostOne == ASSUME NEW S, \A x, y \in S : x = y PROVE Cardinality(S) <= 1
<1>1. CASE S = {}
  BY <1>1, FS_EmptySet
<1>2. CASE S # {}
  <2>1. PICK x : S = {x}
    BY <1>2
  <2> QED BY <2>1, FS_Singleton
<1> QED BY <1>1, <1>2

(* Of the experts who review one pending entity at most one is answered that  *)
(* the review was theirs, and the audit log names no second one: however      *)
(* many review it at once, while it is merged or while a commit names it.     *)
THEOREM EntitiesAreReviewedOnce == Spec => []ReviewedOnce
<1>1. DrainInv /\ ReviewInv => ReviewedOnce
  <2> SUFFICES ASSUME DrainInv, ReviewInv, NEW e \in DOMAIN entities
               PROVE  /\ Cardinality({c \in Players : (Request(c).route = "review" /\ Id(c) = e) /\ Succeeded(c, "review")}) <= 1
                      /\ Cardinality({row \in trail : /\ row.action = "entity.review"
                                                      /\ Request(row.client).route = "review" /\ Id(row.client) = e}) <= 1
    BY DEF ReviewedOnce
  <2>1. \A c, d \in {c \in Players : (Request(c).route = "review" /\ Id(c) = e) /\ Succeeded(c, "review")} : c = d
    BY DEF ReviewInv, Reviewed, Succeeded
  <2>2. \A r, s \in {row \in trail : /\ row.action = "entity.review"
                                     /\ Request(row.client).route = "review" /\ Id(row.client) = e} : r = s
    BY DEF ReviewInv, Reviewed
  <2> QED BY <2>1, <2>2, AtMostOne
<1>2. Init => DrainInv /\ ReviewInv
  BY DrainInit, ReviewInit
<1>3. DrainInv /\ ReviewInv /\ [Next]_vars => (DrainInv /\ ReviewInv)'
  BY DrainNext, ReviewNext
<1> QED BY <1>1, <1>2, <1>3, PTL DEF Spec

-----------------------------------------------------------------------------
(* Uploads.  Every object of an upload has a key of its own, so what was      *)
(* hashed stays; an upload registers a document only if none has the hash,    *)
(* and once it has, it stores nothing more.                                   *)
HoldInv ==
  /\ DOMAIN work = Players
  /\ \A c \in Players : DOMAIN work[c] = {"step", "at", "key", "meta"}
  /\ \A d \in DOMAIN docs : {"sha256", "blob", "status", "access"} \subseteq DOMAIN docs[d]
  /\ \A c \in Players :
       /\ work[c].key # None => work[c].key[1] = c /\ work[c].key \in DOMAIN blobs
       /\ work[c].step # "parts" => work[c].key # None
       /\ work[c].step # "committed" => c \notin DOMAIN docs
  /\ \A d \in outbox :
       /\ d \in Players /\ d \in DOMAIN docs
       /\ work[d].step = "committed" /\ docs[d].blob = work[d].key
       /\ blobs[docs[d].blob] = docs[d].sha256
       /\ \A e \in DOMAIN docs : docs[e].sha256 = docs[d].sha256 => e = d

LEMMA HoldInit == Init => HoldInv
BY DocumentsAssumption DEF Init, GatewayInit, UploadsInit, HoldInv, Players

LEMMA SceneStays == ASSUME [Next]_vars PROVE scene' = scene
<1>1. CASE GatewayNext
  BY <1>1 DEF GatewayNext, authorize, Problem, Respond, emitAuditEvent, recordAudit, HangUp, RuntimeStep
<1>2. CASE \E c \in Players : Reviews(c)
  BY <1>2 DEF Reviews, Respond
<1>3. CASE Silent \/ \E c \in Players : Answers(c)
  BY <1>3 DEF Silent, Answers, Respond
<1> QED BY <1>1, <1>2, <1>3, StepIsHandled

(* A part of the body: only objects of this upload change.                    *)
LEMMA PartKeepsHold ==
  ASSUME HoldInv, scene' = scene, NEW c \in Players, collectParts(c)
  PROVE  HoldInv'
<1> DEFINE i == work[c].at
<1>0. Players' = Players /\ UNCHANGED <<docs, outbox>> /\ work[c].step = "parts"
  BY DEF Players, collectParts, At
<1>1. CASE UNCHANGED <<blobs, work>>
  BY <1>0, <1>1 DEF HoldInv
<1>2. ASSUME NEW content,
             blobs' = [k \in DOMAIN blobs \cup {Key(c, i)} |->
                         IF k = Key(c, i) THEN content ELSE blobs[k]],
             work' = [work EXCEPT ![c].at = i + 1, ![c].key = Key(c, i)]
      PROVE  HoldInv'
  <2>1. /\ Key(c, i) \in DOMAIN blobs' /\ Key(c, i)[1] = c
        /\ \A k \in DOMAIN blobs : k \in DOMAIN blobs' /\ (k # Key(c, i) => blobs'[k] = blobs[k])
    BY <1>2 DEF Key
  <2>2. /\ DOMAIN work' = Players
        /\ \A d \in Players : /\ DOMAIN work'[d] = {"step", "at", "key", "meta"}
                              /\ work'[d].step = work[d].step
                              /\ work'[d].key = IF d = c THEN Key(c, i) ELSE work[d].key
    BY <1>2 DEF HoldInv
  <2>3. \A d \in outbox : d # c /\ docs[d].blob[1] = d /\ docs[d].blob \in DOMAIN blobs
    BY <1>0 DEF HoldInv
  <2>4. \A d \in outbox : blobs'[docs[d].blob] = docs[d].sha256
    BY <2>1, <2>3 DEF HoldInv
  <2>5. \A d \in Players :
          /\ work'[d].key # None => work'[d].key[1] = d /\ work'[d].key \in DOMAIN blobs'
          /\ work'[d].step # "parts" => work'[d].key # None
          /\ work'[d].step # "committed" => d \notin DOMAIN docs
    BY <1>0, <2>1, <2>2 DEF HoldInv
  <2>6. \A d \in outbox :
          /\ d \in Players /\ d \in DOMAIN docs
          /\ work'[d].step = "committed" /\ docs[d].blob = work'[d].key
          /\ \A e \in DOMAIN docs : docs[e].sha256 = docs[d].sha256 => e = d
    BY <2>2, <2>3 DEF HoldInv
  <2>7. \A d \in DOMAIN docs : {"sha256", "blob", "status", "access"} \subseteq DOMAIN docs[d]
    BY DEF HoldInv
  <2> QED BY <1>0, <2>2, <2>4, <2>5, <2>6, <2>7 DEF HoldInv
<1>3. ASSUME UNCHANGED blobs,
             \/ work' = [work EXCEPT ![c].at = i + 1]
             \/ \E meta : work' = [work EXCEPT ![c].at = i + 1, ![c].meta = meta]
      PROVE  HoldInv'
  <2>1. /\ DOMAIN work' = Players
        /\ \A d \in Players : /\ DOMAIN work'[d] = {"step", "at", "key", "meta"}
                              /\ work'[d].step = work[d].step
                              /\ work'[d].key = work[d].key
    BY <1>3 DEF HoldInv
  <2> QED BY <1>0, <1>3, <2>1 DEF HoldInv
<1> QED BY <1>1, <1>2, <1>3 DEF collectParts, i

(* A step further, with the file there is.                                    *)
LEMMA GotoKeepsHold ==
  ASSUME HoldInv, scene' = scene, UNCHANGED <<docs, blobs, outbox>>, NEW c \in Players,
         work[c].step # "committed", work[c].key # None,
         NEW step \in {"register", "insert"}, Goto(c, step)
  PROVE  HoldInv'
<1>1. Players' = Players
  BY DEF Players
<1>2. /\ DOMAIN work' = Players
      /\ \A d \in Players : /\ DOMAIN work'[d] = {"step", "at", "key", "meta"}
                            /\ work'[d].step = IF d = c THEN step ELSE work[d].step
                            /\ work'[d].key = work[d].key
  BY DEF HoldInv, Goto
<1> QED BY <1>1, <1>2 DEF HoldInv

(* The transaction that registers: no document has the hash.                  *)
LEMMA RegisterKeepsHold ==
  ASSUME HoldInv, scene' = scene, NEW c \in Players, Register(c)
  PROVE  HoldInv'
<1>0. Players' = Players /\ blobs' = blobs /\ work[c].step = "insert"
  BY DEF Players, Register, At
<1>1. CASE UNCHANGED <<docs, outbox, work>>
  BY <1>0, <1>1 DEF HoldInv
<1>2. CASE ~UNCHANGED <<docs, outbox, work>>
  <2>1. PICK row : /\ docs' = [d \in DOMAIN docs \cup {c} |-> IF d # c THEN docs[d] ELSE row]
                   /\ {"sha256", "blob", "status", "access"} \subseteq DOMAIN row
                   /\ row.sha256 = blobs[work[c].key] /\ row.blob = work[c].key
    BY <1>2 DEF Register, Sha256
  <2>2. outbox' = outbox \cup {c} /\ Goto(c, "committed") /\ WithSha256(Sha256(c)) = {}
    BY <1>2 DEF Register
  <2>3. \A e \in DOMAIN docs : docs[e].sha256 # row.sha256
    BY <2>1, <2>2 DEF WithSha256, Sha256
  <2>4. c \notin DOMAIN docs /\ work[c].key # None
    BY <1>0 DEF HoldInv
  <2>5. /\ DOMAIN docs' = DOMAIN docs \cup {c} /\ docs'[c] = row
        /\ \A e \in DOMAIN docs : docs'[e] = docs[e]
    BY <2>1, <2>4
  <2>6. /\ DOMAIN work' = Players
        /\ \A d \in Players : /\ DOMAIN work'[d] = {"step", "at", "key", "meta"}
                              /\ work'[d].step = IF d = c THEN "committed" ELSE work[d].step
                              /\ work'[d].key = work[d].key
    BY <2>2 DEF HoldInv, Goto
  <2>7. \A d \in Players :
          /\ work'[d].key # None => work'[d].key[1] = d /\ work'[d].key \in DOMAIN blobs
          /\ work'[d].step # "parts" => work'[d].key # None
          /\ work'[d].step # "committed" => d \notin DOMAIN docs'
    BY <2>4, <2>5, <2>6 DEF HoldInv
  <2>8. \A d \in DOMAIN docs' : {"sha256", "blob", "status", "access"} \subseteq DOMAIN docs'[d]
    BY <2>1, <2>5 DEF HoldInv
  <2>9. ASSUME NEW d \in outbox'
        PROVE  /\ d \in Players /\ d \in DOMAIN docs'
               /\ work'[d].step = "committed" /\ docs'[d].blob = work'[d].key
               /\ blobs[docs'[d].blob] = docs'[d].sha256
               /\ \A e \in DOMAIN docs' : docs'[e].sha256 = docs'[d].sha256 => e = d
    <3>1. CASE d = c
      BY <2>1, <2>3, <2>5, <2>6, <3>1
    <3>2. CASE d # c /\ d \in outbox
      BY <2>3, <2>5, <2>6, <3>2 DEF HoldInv
    <3> QED BY <2>2, <3>1, <3>2
  <2> QED BY <1>0, <2>6, <2>7, <2>8, <2>9 DEF HoldInv
<1> QED BY <1>1, <1>2

(* The commit of an extraction: a document changes its status only.           *)
LEMMA IndexingKeepsHold ==
  ASSUME HoldInv, scene' = scene, UNCHANGED <<blobs, outbox, work>>,
         NEW d, docs' = [docs EXCEPT ![d].status = "indexed"]
  PROVE  HoldInv'
<1>1. Players' = Players
  BY DEF Players
<1>2. /\ DOMAIN docs' = DOMAIN docs
      /\ \A e \in DOMAIN docs : /\ DOMAIN docs'[e] = DOMAIN docs[e]
                                /\ docs'[e].sha256 = docs[e].sha256
                                /\ docs'[e].blob = docs[e].blob
  BY DEF HoldInv
<1> QED BY <1>1, <1>2 DEF HoldInv

LEMMA HoldNext == HoldInv /\ [Next]_vars => HoldInv'
<1> SUFFICES ASSUME HoldInv, [Next]_vars PROVE HoldInv'
  OBVIOUS
<1>0. scene' = scene
  BY SceneStays
<1>1. CASE UNCHANGED uploads
  BY <1>0, <1>1 DEF uploads, HoldInv, Players
<1>2. CASE UploadsNext
  <2> PICK c \in Players :
        \/ collectParts(c) \/ uploadDocument(c) \/ FindIDBySHA256(c) \/ Register(c)
        \/ registerDocumentResponse(c) \/ GetStatus(c) \/ ListDocuments(c) \/ documentFile(c)
    BY <1>2 DEF UploadsNext
  <2>1. CASE uploadDocument(c) \/ FindIDBySHA256(c)
    <3>1. \/ UNCHANGED uploads
          \/ /\ UNCHANGED <<docs, blobs, outbox>>
             /\ work[c].step # "committed" /\ work[c].key # None
             /\ Goto(c, "register") \/ Goto(c, "insert")
      BY <2>1 DEF uploadDocument, FindIDBySHA256, At, uploads, HoldInv
    <3> QED BY <1>0, <1>1, <3>1, GotoKeepsHold
  <2>2. CASE registerDocumentResponse(c) \/ GetStatus(c) \/ ListDocuments(c) \/ documentFile(c)
    BY <1>1, <2>2 DEF registerDocumentResponse, GetStatus, ListDocuments, documentFile
  <2> QED BY <1>0, <2>1, <2>2, PartKeepsHold, RegisterKeepsHold
<1>3. CASE ExtractionNext
  <2>1. \/ UNCHANGED uploads
        \/ /\ UNCHANGED <<blobs, outbox, work>>
           /\ docs' = [docs EXCEPT ![Doc].status = "indexed"]
    BY <1>3 DEF ExtractionNext, fetchBundle, ResolveByNames, Commit, Nak, uploads
  <2> QED BY <1>0, <1>1, <2>1, IndexingKeepsHold
<1> QED BY <1>1, <1>2, <1>3 DEF Next, Finished, vars

(* Each document that was registered holds its file, and alone: however many  *)
(* clients upload it at once, and however many files a request carries.       *)
THEOREM DocumentsHoldTheirFiles == Spec => []DocumentHoldsItsFile
<1>1. HoldInv => DocumentHoldsItsFile
  BY DEF HoldInv, DocumentHoldsItsFile, WithSha256
<1> QED BY <1>1, HoldInit, HoldNext, PTL DEF Spec

-----------------------------------------------------------------------------
(* What a client of a change has behind it, in the tables, in its answer and  *)
(* in the audit log, while nothing fails.                                     *)
Deciding(c) == Request(c).route \in {"fact", "merge"}
Recorded(c) == Audited(c) /\ Meta(c).persist
Row(c) == [client |-> c, user |-> caller[c].user, action |-> Meta(c).action]

Traced(c) ==
  /\ pc[c] \notin {"new", "done"} => caller[c] # None
  /\ pc[c] \in {"new", "handle"} => reply[c].code # 200
  /\ (Deciding(c) /\ pc[c] \in {"announce", "record"}) => Decided(c)
  /\ (Recorded(c) /\ reply[c].code = 200 /\ Undisturbed(c)) =>
       pc[c] \in {"announce", "record"} \/ Row(c) \in trail
  /\ (Deciding(c) /\ Decided(c) /\ Undisturbed(c)) => reply[c].code = 200
  /\ (Request(c).route = "upload" /\ c \in outbox /\ Undisturbed(c)) =>
       reply[c].code = 200 \/ At(c, "committed")
  /\ (Request(c).route = "review" /\ reply[c].code = 200 /\ Undisturbed(c)) => ReviewRow(c) \in trail

AuditInv ==
  /\ \E S : history \in Seq(S)
  /\ \A c \in Players : Traced(c)
  /\ \A row \in trail :
       /\ row.client \in Players /\ pc[row.client] # "new"
       /\ row.user = caller[row.client].user
       /\ Deciding(row.client) => Decided(row.client)

(* What the request of a step changes: it decides, registers, or leaves the   *)
(* history and the outbox as they are.                                        *)
Decides(c) ==
  /\ Deciding(c) /\ pc[c] = "handle" /\ UNCHANGED outbox
  /\ \E row : row.client = c /\ history' = Append(history, row)
  /\ \E code \in Codes : \E body : Respond(c, code, body) /\ (code = 200 \/ Fails(c))

Registers(c) ==
  /\ At(c, "insert") /\ UNCHANGED <<history, scene, gateway>>
  /\ outbox' = outbox \cup {c} /\ Goto(c, "committed")

Keeps(c) ==
  /\ UNCHANGED <<history, outbox>>
  /\ At(c, "committed") => UNCHANGED work
  /\ \/ Silent
     \/ \E code \in Codes : \E body :
          /\ Respond(c, code, body)
          /\ Deciding(c) => code # 200
          /\ At(c, "committed") => code = 200 \/ Fails(c)

LEMMA ReadsKeep ==
  ASSUME NEW c \in Players, UNCHANGED <<history, outbox, work>>, Handled(c),
         Silent \/ Request(c).route \notin {"upload", "fact", "merge"}
  PROVE  Keeps(c)
<1>1. CASE Silent
  BY <1>1 DEF Keeps
<1>2. CASE Answers(c) /\ ~Silent
  <2>1. ~Deciding(c) /\ ~At(c, "committed")
    BY <1>2 DEF Deciding, At, Handling
  <2> QED BY <1>2, <2>1 DEF Answers, Keeps
<1> QED BY <1>1, <1>2 DEF Handled

LEMMA UploadsDo ==
  ASSUME NEW c \in Players, UploadStep(c), UNCHANGED history
  PROVE  Keeps(c) \/ Registers(c)
<1>1. Handled(c)
  BY UploadsHandled
<1>2. CASE registerDocumentResponse(c)
  <2>1. Handling(c, "upload") /\ UNCHANGED uploads
    BY <1>2 DEF registerDocumentResponse, At
  <2>2. \/ \E body : Respond(c, 200, body)
        \/ Fails(c) /\ Respond(c, 502, None)
    BY <1>2 DEF registerDocumentResponse, Registered, Problem, grpcHTTPStatus
  <2>3. UNCHANGED <<outbox, work>>
    BY <2>1 DEF uploads
  <2>4. ~Deciding(c)
    BY <2>1 DEF Deciding, Handling
  <2> QED BY <2>2, <2>3, <2>4 DEF Keeps, Codes
<1>3. CASE Register(c)
  <2>1. \/ outbox' = outbox \cup {c} /\ Goto(c, "committed") /\ UNCHANGED <<gateway, scene>>
        \/ UNCHANGED <<outbox, work>>
    BY <1>3 DEF Register
  <2>2. At(c, "insert") /\ ~At(c, "committed") /\ ~Deciding(c)
    BY <1>3 DEF Register, At, Handling, Deciding
  <2> QED BY <1>1, <2>1, <2>2 DEF Registers, Keeps, Handled, Answers
<1>4. CASE ~Register(c) /\ ~registerDocumentResponse(c)
  <2>1. UNCHANGED outbox /\ ~At(c, "committed") /\ ~Deciding(c)
    BY <1>4 DEF UploadStep, collectParts, uploadDocument, FindIDBySHA256,
                GetStatus, ListDocuments, documentFile, At, Handling, Deciding, uploads
  <2> QED BY <1>1, <2>1 DEF Keeps, Handled, Answers
<1> QED BY <1>2, <1>3, <1>4

LEMMA DecisionsDo ==
  ASSUME NEW c \in Players, DecisionStep(c), UNCHANGED uploads
  PROVE  Keeps(c) \/ Decides(c)
<1>0. UNCHANGED <<outbox, work>> /\ ~At(c, "committed")
  BY DEF uploads, DecisionStep, UpdateFactStatus, updateEntityStatus, MergeEntities, DecideContradiction,
         reviewQueue, At, Handling
<1>1. CASE updateEntityStatus(c) \/ DecideContradiction(c) \/ reviewQueue(c)
  <2>1. UNCHANGED history /\ ~Deciding(c)
    BY <1>1 DEF updateEntityStatus, DecideContradiction, decideContradictionHandler, reviewQueue, Refuse,
                decisions, Handling, Deciding
  <2>2. Handled(c) \/ Reviews(c)
    BY DecisionsHandled
  <2> QED BY <1>0, <2>1, <2>2 DEF Keeps, Handled, Answers, Reviews, Codes
<1>2. CASE UpdateFactStatus(c)
  <2>0. Handling(c, "fact")
    BY <1>2 DEF UpdateFactStatus
  <2>1. \/ UNCHANGED history /\ \E code \in {400, 500} : Problem(c, code)
        \/ /\ \E row : row.client = c /\ history' = Append(history, row)
           /\ \/ \E body : Respond(c, 200, body)
              \/ Fails(c) /\ Respond(c, grpcHTTPStatus("Unavailable"), None)
    <3>1. CASE updateFactStatusHandler(c)
      BY <3>1 DEF updateFactStatusHandler, Refuse, decisions
    <3>2. CASE Problem(c, grpcHTTPStatus("Unknown")) /\ UNCHANGED decisions
      BY <3>2 DEF grpcHTTPStatus, decisions
    <3>3. CASE /\ history' = Append(history, [kind |-> Kind(c), id |-> Id(c), client |-> c])
               /\ Answer(c, [fact |-> Id(c)])
      BY <3>3 DEF Answer
    <3> QED BY <1>2, <3>1, <3>2, <3>3 DEF UpdateFactStatus
  <2>2. Deciding(c) /\ pc[c] = "handle"
    BY <2>0 DEF Handling, Deciding
  <2> QED BY <1>0, <2>1, <2>2 DEF Keeps, Decides, Problem, Codes, grpcHTTPStatus
<1>3. CASE MergeEntities(c)
  <2>0. Handling(c, "merge")
    BY <1>3 DEF MergeEntities
  <2>1. \/ UNCHANGED history /\ \E code \in {400, 500} : Problem(c, code)
        \/ /\ \E row : row.client = c /\ history' = Append(history, row)
           /\ \/ \E body : Respond(c, 200, body)
              \/ Fails(c) /\ Respond(c, grpcHTTPStatus("Unavailable"), None)
    <3>1. CASE mergeEntityHandler(c)
      BY <3>1 DEF mergeEntityHandler, Refuse, decisions
    <3>2. CASE Problem(c, grpcHTTPStatus("Unknown")) /\ UNCHANGED history
      BY <3>2 DEF grpcHTTPStatus
    <3>3. CASE /\ history' = Append(history, [kind |-> "entity", id |-> Id(c), client |-> c])
               /\ Answer(c, [entity |-> Id(c), into |-> Body(c).into])
      BY <3>3 DEF Answer
    <3> QED BY <1>3, <3>1, <3>2, <3>3 DEF MergeEntities
  <2>2. Deciding(c) /\ pc[c] = "handle"
    BY <2>0 DEF Handling, Deciding
  <2> QED BY <1>0, <2>1, <2>2 DEF Keeps, Decides, Problem, Codes, grpcHTTPStatus
<1> QED BY <1>1, <1>2, <1>3 DEF DecisionStep

LEMMA ReadersStay ==
  ASSUME NEW c \in Players, SearchStep(c) \/ BrowseStep(c) \/ AskStep(c)
  PROVE  UNCHANGED history /\ (Silent \/ Request(c).route \notin {"upload", "fact", "merge"})
<1>1. CASE SearchStep(c)
  BY <1>1 DEF SearchStep, searchHandler, ListEntities, GetEntity, ListEntityFacts, EntityGraph,
              ListExperts, ListExperiments, Shows, Handling, decisions, Silent, gateway
<1>2. CASE BrowseStep(c)
  BY <1>2 DEF BrowseStep, GetCoverage, GetContradictions, dictionaryUnits, dictionarySynonyms,
              Shows, Reads, Handling, decisions
<1>3. CASE AskStep(c)
  BY <1>3 DEF AskStep, queryParse, askHandler, planAndTerms, cacheGet, augmentFacts, searchFailed,
              augmentChunks, runSynthesis, emitDelta, cachePut, emitDone, askAborted, Going, Asking,
              Handling, decisions, Silent, gateway
<1> QED BY <1>1, <1>2, <1>3

LEMMA ActsDo == ASSUME NEW c \in Players, Acts(c) PROVE Keeps(c) \/ Decides(c) \/ Registers(c)
<1>1. CASE UploadStep(c) /\ UNCHANGED decisions
  BY <1>1, UploadsDo DEF decisions
<1>2. CASE DecisionStep(c) /\ UNCHANGED uploads
  BY <1>2, DecisionsDo
<1>3. CASE (SearchStep(c) \/ BrowseStep(c) \/ AskStep(c)) /\ UNCHANGED uploads
  BY <1>3, ReadersStay, ReadsKeep, SearchHandled, BrowseHandled, QuestionsHandled DEF uploads
<1> QED BY <1>1, <1>2, <1>3 DEF Acts

(* The locals of an upload are its own.                                       *)
LEMMA WorkIsOwn ==
  ASSUME HoldInv, NEW c \in Players, NEW d \in Players \ {c}, Acts(c)
  PROVE  work'[d] = work[d]
BY DEF Acts, UploadStep, HoldInv, uploads, collectParts, uploadDocument, FindIDBySHA256, Register,
       registerDocumentResponse, GetStatus, ListDocuments, documentFile, Goto

LEMMA AuditInit == Init => AuditInv
<1> SUFFICES ASSUME Init PROVE AuditInv
  OBVIOUS
<1>1. history \in Seq({}) /\ \A c \in Players : ~Decided(c)
  <2>1. history = << >>
    BY DEF Init, DecisionsInit
  <2> QED BY <2>1 DEF Decided
<1> QED BY <1>1 DEF Init, GatewayInit, UploadsInit, AuditInv, Traced, Unanswered

(* What is said of a client stands while nothing happens to it.               *)
LEMMA TraceStands ==
  ASSUME NEW d \in Players, Traced(d), scene' = scene,
         pc'[d] = pc[d], caller'[d] = caller[d], reply'[d] = reply[d],
         At(d, "committed") => work'[d].step = "committed",
         trail \subseteq trail', Decided(d)' <=> Decided(d), d \in outbox' <=> d \in outbox,
         Undisturbed(d)' => Undisturbed(d)
  PROVE  Traced(d)'
<1>1. /\ Request(d)' = Request(d) /\ Audited(d)' = Audited(d) /\ Meta(d)' = Meta(d)
      /\ Deciding(d)' = Deciding(d) /\ Recorded(d)' = Recorded(d) /\ Row(d)' = Row(d)
      /\ ReviewRow(d)' = ReviewRow(d) /\ (At(d, "committed") => At(d, "committed")')
  BY DEF Request, Audited, Operation, Meta, Deciding, Recorded, Row, ReviewRow, At, Handling
<1> QED BY <1>1 DEF Traced

LEMMA UndisturbedBefore ==
  ASSUME DrainInv, [Next]_vars, NEW d \in Players, Undisturbed(d)'
  PROVE  Undisturbed(d)
<1>1. left \subseteq left' /\ (process.late => process'.late)
  <2>1. CASE GatewayNext
    BY <2>1 DEF GatewayNext, authorize, Problem, Respond, emitAuditEvent, recordAudit, HangUp, RuntimeStep,
                signal, listenerFails, shutdown, closeResources, DrainInv
  <2>2. CASE \E c \in Players : Reviews(c)
    BY <2>2 DEF Reviews, Respond
  <2>3. CASE Silent \/ \E c \in Players : Answers(c)
    BY <2>3 DEF Silent, Answers, Respond
  <2> QED BY <2>1, <2>2, <2>3, StepIsHandled
<1> QED BY <1>1, SceneStays DEF Undisturbed

(* While nothing disturbs a request in its handler no call of it fails.       *)
LEMMA UndisturbedSucceeds ==
  ASSUME DrainInv, NEW c \in Players, ~Idle(c), Undisturbed(c)
  PROVE  ~Fails(c)
BY DEF DrainInv, Idle, Fails, Undisturbed

LEMMA Appended ==
  ASSUME NEW row, \E S : history \in Seq(S), history' = Append(history, row)
  PROVE  /\ \E S : history' \in Seq(S)
         /\ \A d : Decided(d)' <=> Decided(d) \/ d = row.client
<1>1. PICK S : history \in Seq(S)
  OBVIOUS
<1>2. history \in Seq(S \cup {row}) /\ row \in S \cup {row}
  BY <1>1, SeqMonotonic
<1>3. history' \in Seq(S \cup {row})
  BY <1>2, AppendProperties
<1>4. /\ Len(history) \in Nat /\ Len(history') = Len(history) + 1
      /\ DOMAIN history = 1..Len(history) /\ DOMAIN history' = 1..Len(history')
      /\ \A i \in 1..Len(history) : history'[i] = history[i]
      /\ history'[Len(history) + 1] = row
  BY <1>2, <1>3, AppendProperties, LenProperties
<1>5. \A d : Decided(d)' <=> Decided(d) \/ d = row.client
  <2> TAKE d
  <2>1. Decided(d) => Decided(d)'
    BY <1>4 DEF Decided
  <2>2. d = row.client => Decided(d)'
    BY <1>4 DEF Decided
  <2>3. Decided(d)' => Decided(d) \/ d = row.client
    <3> SUFFICES ASSUME NEW i \in DOMAIN history', history'[i].client = d PROVE Decided(d) \/ d = row.client
      BY DEF Decided
    <3>1. i \in 1..Len(history) \/ i = Len(history) + 1
      BY <1>4
    <3> QED BY <1>4, <3>1 DEF Decided
  <2> QED BY <2>1, <2>2, <2>3
<1> QED BY <1>3, <1>5

(* The client of a step of a handler: that it is answered, or not yet.        *)
LEMMA AnswerIsTraced ==
  ASSUME DrainInv, NEW c \in Players, Traced(c), pc[c] = "handle",
         NEW code \in Codes, NEW body, Respond(c, code, body), trail \subseteq trail',
         (Deciding(c) /\ code = 200) => Decided(c)',
         (Deciding(c) /\ Decided(c)') => Decided(c) \/ code = 200 \/ Fails(c),
         c \in outbox' => c \in outbox, At(c, "committed") => code = 200 \/ Fails(c),
         (Request(c).route = "review" /\ code = 200 /\ ~Fails(c)) => ReviewRow(c) \in trail'
  PROVE  Traced(c)'
<1>1. UNCHANGED <<scene, caller, left, process>>
  BY DEF Respond
<1>2. /\ Request(c)' = Request(c) /\ Audited(c)' = Audited(c) /\ Meta(c)' = Meta(c)
      /\ Deciding(c)' = Deciding(c) /\ Recorded(c)' = Recorded(c)
      /\ ReviewRow(c)' = ReviewRow(c) /\ Undisturbed(c)' = Undisturbed(c)
  BY <1>1 DEF Request, Audited, Operation, Meta, Deciding, Recorded, ReviewRow, Undisturbed
<1>3. caller[c] # None /\ reply[c].code # 200
  BY DEF Traced
<1>4. pc'[c] = IF Audited(c) /\ code = 200 THEN "announce" ELSE "done"
  <2>1. code \in 200..299 <=> code = 200
    BY DEF Codes
  <2> QED BY <1>3, <2>1 DEF Respond, DrainInv
<1>5. reply'[c] = IF c \in left THEN Unanswered ELSE [code |-> code, body |-> body]
  BY DEF Respond, DrainInv
<1>6. reply'[c].code = 200 => code = 200
  BY <1>5 DEF Unanswered
<1>7. Undisturbed(c) => reply'[c].code = code /\ ~Fails(c)
  BY <1>5, UndisturbedSucceeds DEF Idle, Undisturbed
<1>8. (Deciding(c) /\ Decided(c)' /\ Undisturbed(c)) => reply'[c].code = 200
  BY <1>3, <1>7 DEF Traced
<1>9. (Request(c).route = "upload" /\ c \in outbox' /\ Undisturbed(c)) => reply'[c].code = 200
  BY <1>3, <1>7 DEF Traced
<1>10. (Request(c).route = "review" /\ reply'[c].code = 200 /\ Undisturbed(c)) => ReviewRow(c)' \in trail'
  BY <1>2, <1>6, <1>7
<1>11. Recorded(c) /\ reply'[c].code = 200 => pc'[c] = "announce"
  BY <1>4, <1>6 DEF Recorded
<1>12. (Deciding(c) /\ pc'[c] \in {"announce", "record"}) => Decided(c)'
  BY <1>4
<1>13. pc'[c] \notin {"new", "handle"} /\ caller'[c] # None
  BY <1>1, <1>3, <1>4
<1> QED BY <1>2, <1>8, <1>9, <1>10, <1>11, <1>12, <1>13 DEF Traced

LEMMA ActorIsTraced ==
  ASSUME DrainInv, AuditInv, HoldInv, scene' = scene, NEW c \in Players, Acts(c), trail \subseteq trail'
  PROVE  Traced(c)'
<1>0. Traced(c)
  BY DEF AuditInv
<1>1. CASE Registers(c)
  <2>1. UNCHANGED <<pc, caller, reply, left, process, history>> /\ work'[c].step = "committed"
    BY <1>1 DEF Registers, gateway, Goto, HoldInv
  <2>2. At(c, "committed")' /\ pc[c] = "handle" /\ Request(c).route = "upload"
    BY <1>1, <2>1 DEF Registers, At, Handling, Request
  <2>3. Decided(c)' <=> Decided(c)
    BY <2>1 DEF Decided
  <2>4. /\ Request(c)' = Request(c) /\ Audited(c)' = Audited(c) /\ Meta(c)' = Meta(c)
        /\ Deciding(c)' = Deciding(c) /\ Recorded(c)' = Recorded(c) /\ Row(c)' = Row(c)
        /\ Undisturbed(c)' = Undisturbed(c)
    BY <2>1 DEF Request, Audited, Operation, Meta, Deciding, Recorded, Row, Undisturbed
  <2> QED BY <1>0, <2>1, <2>2, <2>3, <2>4 DEF Traced
<1>2. CASE Keeps(c) /\ Silent
  <2>1. Decided(c)' <=> Decided(c)
    BY <1>2 DEF Keeps, Decided
  <2>2. At(c, "committed") => work'[c].step = "committed"
    BY <1>2 DEF Keeps, At
  <2>3. Undisturbed(c)' => Undisturbed(c)
    BY <1>2 DEF Silent, Undisturbed
  <2> QED BY <1>0, <1>2, <2>1, <2>2, <2>3, TraceStands DEF Silent, Keeps
<1>3. CASE Keeps(c) /\ ~Silent
  <2>1. PICK code \in Codes : \E body : /\ Respond(c, code, body)
                                        /\ Deciding(c) => code # 200
                                        /\ At(c, "committed") => code = 200 \/ Fails(c)
    BY <1>3 DEF Keeps
  <2>2. PICK body : /\ Respond(c, code, body)
                    /\ Deciding(c) => code # 200
                    /\ At(c, "committed") => code = 200 \/ Fails(c)
    BY <2>1
  <2>3. Decided(c)' <=> Decided(c)
    BY <1>3 DEF Keeps, Decided
  <2>4. pc[c] = "handle"
    BY <1>3, ActsAreHandled DEF Handled, Answers, Reviews, Handling
  <2>5. (Request(c).route = "review" /\ code = 200 /\ ~Fails(c)) => ReviewRow(c) \in trail'
    <3> SUFFICES ASSUME Request(c).route = "review", code = 200, ~Fails(c) PROVE ReviewRow(c) \in trail'
      OBVIOUS
    <3>1. reply'[c].code = 200
      BY <2>2 DEF Fails, Respond, DrainInv
    <3>2. ~Answers(c)
      BY <3>1 DEF Answers, Fails, Respond, DrainInv
    <3>3. Write(c, "entity.review")
      BY <1>3, <3>2, ActsAreHandled DEF Handled, Reviews
    <3> QED BY <3>3 DEF Write, ReviewRow
  <2> QED BY <1>0, <1>3, <2>2, <2>3, <2>4, <2>5, AnswerIsTraced DEF Keeps
<1>4. CASE Decides(c)
  <2>1. PICK row : row.client = c /\ history' = Append(history, row)
    BY <1>4 DEF Decides
  <2>2. Decided(c)'
    BY <2>1, Appended DEF AuditInv
  <2>3. PICK code \in Codes : \E body : Respond(c, code, body) /\ (code = 200 \/ Fails(c))
    BY <1>4 DEF Decides
  <2>4. PICK body : Respond(c, code, body) /\ (code = 200 \/ Fails(c))
    BY <2>3
  <2>5. Request(c).route # "upload" /\ Request(c).route # "review" /\ ~At(c, "committed") /\ pc[c] = "handle"
    BY <1>4 DEF Decides, Deciding, At, Handling
  <2>6. outbox' = outbox
    BY <1>4 DEF Decides
  <2> QED BY <1>0, <2>2, <2>4, <2>5, <2>6, AnswerIsTraced
<1> QED BY <1>1, <1>2, <1>3, <1>4, ActsDo

LEMMA AuditActs ==
  ASSUME DrainInv, AuditInv, HoldInv, [Next]_vars, NEW c \in Players, Acts(c)
  PROVE  AuditInv'
<1>0. scene' = scene /\ Players' = Players
  BY SceneStays DEF Players
<1>1. /\ caller' = caller /\ UNCHANGED <<left, process>> /\ \A d \in Players : pc[d] # "new" => pc'[d] # "new"
      /\ \A d \in Players \ {c} : pc'[d] = pc[d] /\ reply'[d] = reply[d]
  BY ActsAreHandled DEF Handled, Silent, Answers, Reviews, Respond, DrainInv
<1>2. /\ trail \subseteq trail'
      /\ \A row \in trail' \ trail : row \in {Viewed(c), ReviewRow(c)} /\ Request(c).route \in {"file", "review"}
                                       /\ pc[c] = "handle"
  BY ActsAreHandled DEF Handled, Logs, Reviews, Write, Viewed, ReviewRow, Handling
<1>3. /\ \E S : history' \in Seq(S)
      /\ \A d : Decided(d) => Decided(d)'
      /\ \A d \in Players \ {c} : Decided(d)' <=> Decided(d)
  <2>1. CASE UNCHANGED history
    BY <2>1 DEF Decided, AuditInv
  <2>2. CASE Decides(c)
    <3>1. PICK row : row.client = c /\ history' = Append(history, row)
      BY <2>2 DEF Decides
    <3> QED BY <3>1, Appended DEF AuditInv
  <2> QED BY <2>1, <2>2, ActsDo DEF Keeps, Registers
<1>4. \A d \in Players \ {c} : d \in outbox' <=> d \in outbox
  BY ActsDo DEF Keeps, Registers, Decides
<1>5. ASSUME NEW d \in Players \ {c} PROVE Traced(d)'
  <2>1. At(d, "committed") => work'[d].step = "committed"
    BY WorkIsOwn DEF At
  <2>2. Undisturbed(d)' => Undisturbed(d)
    BY <1>0, <1>1 DEF Undisturbed
  <2>3. Traced(d)
    BY DEF AuditInv
  <2> QED BY <1>0, <1>1, <1>2, <1>3, <1>4, <2>1, <2>2, <2>3, TraceStands
<1>6. Traced(c)'
  BY <1>0, <1>2, ActorIsTraced
<1>7. \A row \in trail' : /\ row.client \in Players /\ pc'[row.client] # "new"
                          /\ row.user = caller'[row.client].user
                          /\ Deciding(row.client) => Decided(row.client)'
  <2> SUFFICES ASSUME NEW row \in trail'
               PROVE  /\ row.client \in Players /\ pc'[row.client] # "new"
                      /\ row.user = caller'[row.client].user
                      /\ Deciding(row.client) => Decided(row.client)'
    OBVIOUS
  <2>1. CASE row \in trail
    BY <1>1, <1>3, <2>1 DEF AuditInv
  <2>2. CASE row \notin trail
    <3>1. row.client = c /\ row.user = caller[c].user
      BY <1>2, <2>2 DEF Viewed, ReviewRow
    <3>2. ~Deciding(c) /\ pc[c] # "new"
      BY <1>2, <2>2 DEF Deciding
    <3> QED BY <1>1, <3>1, <3>2
  <2> QED BY <2>1, <2>2
<1>8. \A d : Deciding(d)' = Deciding(d)
  BY <1>0 DEF Deciding, Request
<1> QED BY <1>0, <1>3, <1>5, <1>6, <1>7, <1>8 DEF AuditInv

(* Nothing that the audit speaks of changes but the rest of one request.      *)
LEMMA AuditNext == DrainInv /\ AuditInv /\ HoldInv /\ [Next]_vars => AuditInv'
<1> SUFFICES ASSUME DrainInv, AuditInv, HoldInv, [Next]_vars PROVE AuditInv'
  OBVIOUS
<1>1. scene' = scene /\ Players' = Players
  BY SceneStays DEF Players
<1>2. \A d \in Players : Undisturbed(d)' => Undisturbed(d)
  BY UndisturbedBefore
<1>3. \A d : Deciding(d)' = Deciding(d)
  BY <1>1 DEF Deciding, Request
<1>4. CASE Background
  <2>1. Silent /\ UNCHANGED <<trail, history, outbox, work>>
    BY <1>4, BackgroundIsSilent DEF Background, ExtractionNext, vars, uploads, decisions
  <2>2. \A d : Decided(d)' <=> Decided(d)
    BY <2>1 DEF Decided
  <2>3. ASSUME NEW d \in Players PROVE Traced(d)'
    <3>1. At(d, "committed") => work'[d].step = "committed"
      BY <2>1 DEF At
    <3>2. Traced(d)
      BY DEF AuditInv
    <3> QED BY <1>1, <1>2, <2>1, <2>2, <3>1, <3>2, TraceStands DEF Silent
  <2> QED BY <1>1, <1>3, <2>1, <2>2, <2>3 DEF AuditInv, Silent
<1>5. ASSUME NEW c \in Players, Acts(c) PROVE AuditInv'
  BY <1>5, AuditActs
<1>6. CASE GatewayNext /\ UNCHANGED <<uploads, decisions, commit, search, chains, answering>>
  <2>0. UNCHANGED <<outbox, work, history>> /\ \A d : Decided(d)' <=> Decided(d)
    BY <1>6 DEF uploads, decisions, Decided
  <2>1. ASSUME NEW d \in Players, pc'[d] = pc[d], caller'[d] = caller[d], reply'[d] = reply[d], trail \subseteq trail'
        PROVE  Traced(d)'
    <3>1. At(d, "committed") => work'[d].step = "committed"
      BY <2>0 DEF At
    <3>2. Traced(d)
      BY DEF AuditInv
    <3> QED BY <1>1, <1>2, <2>0, <2>1, <3>1, <3>2, TraceStands
  <2>2. CASE RuntimeStep
    <3>1. UNCHANGED <<pc, caller, reply, trail>>
      BY <2>2 DEF RuntimeStep
    <3> QED BY <1>1, <1>3, <2>0, <2>1, <3>1 DEF AuditInv
  <2>3. ASSUME NEW c \in Players, HangUp(c) PROVE AuditInv'
    <3>1. UNCHANGED <<pc, caller, reply, trail>>
      BY <2>3 DEF HangUp
    <3> QED BY <1>1, <1>3, <2>0, <2>1, <3>1 DEF AuditInv
  <2>4. ASSUME NEW c \in Players, authorize(c) PROVE AuditInv'
    <3>1. /\ pc[c] = "new" /\ UNCHANGED <<trail, left, process>> /\ caller[c] = None
          /\ \A d \in Players \ {c} : pc'[d] = pc[d] /\ caller'[d] = caller[d] /\ reply'[d] = reply[d]
      BY <2>4 DEF authorize, Problem, Respond, DrainInv
    <3>2. \/ pc'[c] = "done" /\ reply'[c].code # 200
          \/ pc'[c] = "handle" /\ caller'[c] # None /\ reply' = reply
      <4>1. CASE \E code \in {401, 403} : Problem(c, code)
        BY <3>1, <4>1 DEF Problem, Respond, DrainInv, Unanswered
      <4>2. CASE \E principal : /\ principal # None /\ caller' = [caller EXCEPT ![c] = principal]
                                /\ pc' = [pc EXCEPT ![c] = "handle"] /\ reply' = reply
        BY <4>2 DEF DrainInv
      <4> QED BY <2>4, <4>1, <4>2 DEF authorize
    <3>3. /\ Deciding(c) => ~(Decided(c) /\ Undisturbed(c))
          /\ Request(c).route = "upload" => ~(c \in outbox /\ Undisturbed(c))
          /\ reply[c].code # 200
      BY <3>1 DEF AuditInv, Traced, At, Handling
    <3>4. Traced(c)'
      BY <1>1, <1>2, <1>3, <2>0, <3>2, <3>3 DEF Traced, Request
    <3>5. \A d \in Players \ {c} : Traced(d)'
      BY <2>1, <3>1
    <3>6. \A row \in trail : row.client # c
      BY <3>1 DEF AuditInv
    <3> QED BY <1>1, <1>3, <2>0, <3>1, <3>4, <3>5, <3>6 DEF AuditInv
  <2>5. ASSUME NEW c \in Players, emitAuditEvent(c) PROVE AuditInv'
    <3>1. /\ pc[c] = "announce" /\ UNCHANGED <<caller, reply, left, process, trail>>
          /\ pc' = [pc EXCEPT ![c] = IF Meta(c).persist THEN "record" ELSE "done"]
      BY <2>5 DEF emitAuditEvent
    <3>2. pc'[c] = IF Meta(c).persist THEN "record" ELSE "done"
      BY <3>1 DEF DrainInv
    <3>3. Recorded(c) => pc'[c] = "record"
      BY <3>2 DEF Recorded
    <3>4. /\ Request(c)' = Request(c) /\ Recorded(c)' = Recorded(c) /\ Row(c)' = Row(c) /\ ReviewRow(c)' = ReviewRow(c)
      BY <1>1, <3>1 DEF Request, Audited, Operation, Meta, Recorded, Row, ReviewRow
    <3>5. Traced(c) /\ ~At(c, "committed")
      BY <3>1 DEF AuditInv, At, Handling
    <3>6. Traced(c)'
      BY <1>2, <1>3, <2>0, <3>1, <3>2, <3>3, <3>4, <3>5 DEF Traced
    <3>7. \A d \in Players \ {c} : pc'[d] = pc[d]
      BY <3>1 DEF DrainInv
    <3>8. \A d \in Players \ {c} : Traced(d)'
      BY <2>1, <3>1, <3>7
    <3>9. \A d \in Players : pc[d] # "new" => pc'[d] # "new"
      BY <3>2, <3>7
    <3> QED BY <1>1, <1>3, <2>0, <3>1, <3>6, <3>8, <3>9 DEF AuditInv
  <2>6. ASSUME NEW c \in Players, recordAudit(c) PROVE AuditInv'
    <3>1. /\ pc[c] = "record" /\ UNCHANGED <<caller, reply, left, process>>
          /\ pc' = [pc EXCEPT ![c] = "done"] /\ Write(c, Meta(c).action)
      BY <2>6 DEF recordAudit
    <3>2. pc'[c] = "done" /\ \A d \in Players \ {c} : pc'[d] = pc[d]
      BY <3>1 DEF DrainInv
    <3>3. trail \subseteq trail' /\ trail' \subseteq trail \cup {Row(c)} /\ (Undisturbed(c) => Row(c) \in trail')
      <4>1. Undisturbed(c) => ~Fails(c)
        BY <3>1, UndisturbedSucceeds DEF Idle
      <4> QED BY <3>1, <4>1 DEF Write, Row
    <3>4. /\ Request(c)' = Request(c) /\ Recorded(c)' = Recorded(c) /\ Row(c)' = Row(c) /\ ReviewRow(c)' = ReviewRow(c)
      BY <1>1, <3>1 DEF Request, Audited, Operation, Meta, Recorded, Row, ReviewRow
    <3>5. Traced(c) /\ ~At(c, "committed")
      BY <3>1 DEF AuditInv, At, Handling
    <3>6. Traced(c)'
      BY <1>2, <1>3, <2>0, <3>1, <3>2, <3>3, <3>4, <3>5 DEF Traced
    <3>7. \A d \in Players \ {c} : Traced(d)'
      BY <2>1, <3>1, <3>2, <3>3
    <3>8. Row(c).client = c /\ Row(c).user = caller[c].user /\ (Deciding(c) => Decided(c))
      BY <3>1, <3>5 DEF Row, Traced
    <3> QED BY <1>1, <1>3, <2>0, <3>1, <3>2, <3>3, <3>6, <3>7, <3>8 DEF AuditInv
  <2> QED BY <1>6, <2>2, <2>3, <2>4, <2>5, <2>6 DEF GatewayNext
<1> QED BY <1>4, <1>5, <1>6, Steps

(* Whoever changes a document, a fact, an entity or a contradiction is in the *)
(* audit log once the request is over and nothing failed; and nobody is in it *)
(* for a decision that the history of the facts does not have: whatever the   *)
(* requests are, and however they meet each other and the end of the process. *)
THEOREM ChangesAreAudited == Spec => []ChangeIsAudited
<1>1. DrainInv /\ AuditInv => ChangeIsAudited
  <2> SUFFICES ASSUME DrainInv, AuditInv, NEW c \in Players, Request(c).route \in DOMAIN Changes
               PROVE  LET rows == {row \in trail : row.client = c /\ row.action = Changes[Request(c).route]} IN
                      /\ (pc[c] = "done" /\ HasChanged(c) /\ Undisturbed(c)) => rows # {}
                      /\ (rows # {} /\ Request(c).route \in {"fact", "merge"}) => Decided(c)
                      /\ \A row \in rows : row.user = caller[c].user
    BY DEF ChangeIsAudited
  <2> DEFINE rows == {row \in trail : row.client = c /\ row.action = Changes[Request(c).route]}
  <2>0. Traced(c)
    BY DEF AuditInv
  <2>1. ASSUME pc[c] = "done", HasChanged(c), Undisturbed(c) PROVE rows # {}
    <3>1. reply[c].code = 200
      BY <2>0, <2>1 DEF HasChanged, Traced, Deciding, At, Handling, Changes
    <3>2. CASE Request(c).route = "review"
      <4>1. ReviewRow(c) \in trail
        BY <2>0, <2>1, <3>1, <3>2 DEF Traced
      <4>2. ReviewRow(c) \in rows
        BY <3>2, <4>1 DEF ReviewRow, Changes
      <4> QED BY <4>2
    <3>3. CASE Request(c).route # "review"
      <4>1. Recorded(c) /\ Meta(c).action = Changes[Request(c).route]
        BY <3>3 DEF Recorded, Audited, Operation, operationOf, auditActions, Meta, Changes
      <4>2. Row(c) \in trail
        BY <2>0, <2>1, <3>1, <4>1 DEF Traced
      <4>3. Row(c) \in rows
        BY <4>1, <4>2 DEF Row
      <4> QED BY <4>3
    <3> QED BY <3>2, <3>3
  <2>2. (rows # {} /\ Request(c).route \in {"fact", "merge"}) => Decided(c)
    BY DEF AuditInv, Deciding
  <2>3. \A row \in rows : row.user = caller[c].user
    BY DEF AuditInv
  <2> QED BY <2>1, <2>2, <2>3
<1>2. Init => DrainInv /\ AuditInv /\ HoldInv
  BY DrainInit, AuditInit, HoldInit
<1>3. (DrainInv /\ AuditInv /\ HoldInv) /\ [Next]_vars => (DrainInv /\ AuditInv /\ HoldInv)'
  BY DrainNext, AuditNext, HoldNext
<1> QED BY <1>1, <1>2, <1>3, PTL DEF Spec

-----------------------------------------------------------------------------
(* What an upload has read of its parts: the object that its key names is the *)
(* last file so far; and what it was answered names a row with that file.     *)
LastSoFar(c, i) ==
  /\ i \in DOMAIN Parts(c) /\ i < work[c].at /\ Parts(c)[i].kind = "file"
  /\ \A j \in DOMAIN Parts(c) : (i < j /\ j < work[c].at) => Parts(c)[j].kind # "file"

RowOf(c, d, duplicate) ==
  /\ d \in DOMAIN docs /\ docs[d].sha256 = LastFile(c)
  /\ duplicate \/ (d = c /\ c \in outbox)

Told(c) == RowOf(c, reply[c].body.document, reply[c].body.duplicate)

Accepted(c) ==
  /\ work[c].at \in Nat \ {0}
  /\ work[c].step # "parts" => work[c].at > Len(Parts(c))
  /\ work[c].key # None => \E i \in DOMAIN Parts(c) :
       LastSoFar(c, i) /\ work[c].key = Key(c, i) /\ blobs[work[c].key] = Parts(c)[i].content
  /\ work[c].step = "committed" => c \in outbox
  /\ reply[c].code = 200 => Told(c)

AcceptInv ==
  /\ scene \in Scenes
  /\ \A c \in Players : Request(c).route = "upload" => Accepted(c)

LEMMA AcceptInit == Init => AcceptInv
<1> SUFFICES ASSUME Init PROVE AcceptInv
  OBVIOUS
<1>1. scene \in Scenes /\ work = [c \in Players |-> [step |-> "parts", at |-> 1, key |-> None, meta |-> << >>]]
  BY DEF Init, GatewayInit, UploadsInit
<1>2. \A c \in Players : reply[c].code = 0
  BY DEF Init, GatewayInit, Unanswered
<1> QED BY <1>1, <1>2 DEF AcceptInv, Accepted

LEMMA PartsAreSequence ==
  ASSUME scene \in Scenes, NEW c \in Players, Request(c).route = "upload"
  PROVE  Len(Parts(c)) \in Nat /\ DOMAIN Parts(c) = 1..Len(Parts(c))
<1>1. Parts(c) \in Seq(Range(Parts(c)))
  BY PartsAssumption DEF Parts, Request, Players
<1> QED BY <1>1, LenProperties

(* The object of a whole request holds the file that the client sent last.    *)
LEMMA HashIsOfLastFile ==
  ASSUME HoldInv, scene \in Scenes, NEW c \in Players, Request(c).route = "upload", Accepted(c),
         work[c].step # "parts"
  PROVE  Sha256(c) = LastFile(c)
<1> DEFINE is == {i \in DOMAIN Parts(c) : Parts(c)[i].kind = "file"}
<1>1. Len(Parts(c)) \in Nat /\ DOMAIN Parts(c) = 1..Len(Parts(c))
  BY PartsAreSequence
<1>2. work[c].key # None /\ work[c].at > Len(Parts(c)) /\ work[c].at \in Nat
  BY DEF HoldInv, Accepted
<1>3. PICK i \in DOMAIN Parts(c) :
        LastSoFar(c, i) /\ work[c].key = Key(c, i) /\ blobs[work[c].key] = Parts(c)[i].content
  BY <1>2 DEF Accepted
<1>4. i \in is /\ \A j \in is : i >= j
  BY <1>1, <1>2, <1>3 DEF LastSoFar
<1>5. \A x \in is : (\A j \in is : x >= j) => x = i
  BY <1>1, <1>4
<1>6. Max(is) = i
  <2> HIDE DEF is
  <2> QED BY <1>4, <1>5 DEF Max
<1> QED BY <1>3, <1>6 DEF Sha256, LastFile

(* No step takes a document away or gives it another file.                    *)
DocsKept ==
  /\ \A d \in DOMAIN docs : /\ d \in DOMAIN docs' /\ docs'[d].sha256 = docs[d].sha256
                            /\ docs'[d].access = docs[d].access
  /\ outbox \subseteq outbox'

LEMMA UploadKeepsDocs ==
  ASSUME HoldInv, NEW c \in Players, UploadStep(c)
  PROVE  DocsKept
<1>1. CASE Register(c)
  <2>1. c \notin DOMAIN docs
    BY <1>1 DEF Register, At, HoldInv
  <2> QED BY <1>1, <2>1 DEF Register, DocsKept
<1>2. CASE ~Register(c)
  <2>1. UNCHANGED <<docs, outbox>>
    BY <1>2 DEF UploadStep, collectParts, uploadDocument, FindIDBySHA256, registerDocumentResponse,
                GetStatus, ListDocuments, documentFile, uploads
  <2> QED BY <2>1 DEF DocsKept
<1> QED BY <1>1, <1>2

LEMMA CommitKeepsDocs ==
  ASSUME HoldInv, ExtractionNext
  PROVE  DocsKept /\ UNCHANGED <<blobs, work, gateway, scene>>
<1>1. UNCHANGED <<blobs, work, gateway, scene, outbox>>
  BY DEF ExtractionNext
<1>2. UNCHANGED docs \/ docs' = [docs EXCEPT ![Doc].status = "indexed"]
  BY DEF ExtractionNext, fetchBundle, ResolveByNames, Commit, Nak
<1>3. \A d \in DOMAIN docs : /\ d \in DOMAIN docs' /\ docs'[d].sha256 = docs[d].sha256
                            /\ docs'[d].access = docs[d].access
  BY <1>2 DEF HoldInv
<1> QED BY <1>1, <1>3 DEF DocsKept

(* What is said of an upload stands while nothing happens to it.              *)
LEMMA AcceptStands ==
  ASSUME scene' = scene, NEW d \in Players, Accepted(d), DocsKept, work'[d] = work[d],
         work[d].key # None => blobs'[work[d].key] = blobs[work[d].key],
         reply'[d].code # 200 \/ reply'[d] = reply[d]
  PROVE  Accepted(d)'
<1>1. Parts(d)' = Parts(d) /\ LastFile(d)' = LastFile(d) /\ \A i : Key(d, i)' = Key(d, i)
  BY DEF Parts, Request, LastFile, Key
<1>2. \A i : LastSoFar(d, i)' <=> LastSoFar(d, i)
  BY <1>1 DEF LastSoFar
<1>3. work[d].key # None => \E i \in DOMAIN Parts(d) :
        LastSoFar(d, i)' /\ work[d].key = Key(d, i) /\ blobs'[work[d].key] = Parts(d)[i].content
  BY <1>2 DEF Accepted
<1>4. reply'[d].code = 200 => Told(d)'
  BY <1>1 DEF Accepted, Told, RowOf, DocsKept
<1> QED BY <1>1, <1>3, <1>4 DEF Accepted, DocsKept

(* A part more.                                                               *)
LEMMA PartIsRead ==
  ASSUME HoldInv, AcceptInv, DocsKept, scene' = scene, NEW c \in Players, Request(c).route = "upload",
         collectParts(c), DrainInv
  PROVE  Accepted(c)'
<1> PICK i : i = work[c].at
  OBVIOUS
<1>0. /\ Accepted(c) /\ i \in Nat /\ i <= Len(Parts(c)) /\ work[c].step = "parts" /\ UNCHANGED <<docs, outbox>>
      /\ Len(Parts(c)) \in Nat /\ DOMAIN Parts(c) = 1..Len(Parts(c))
  BY PartsAreSequence DEF AcceptInv, Accepted, collectParts, At
<1>1. Parts(c)' = Parts(c) /\ \A j : Key(c, j)' = Key(c, j)
  BY DEF Parts, Request, Key
<1>2. CASE UNCHANGED <<blobs, work>>
  <2>1. reply'[c].code # 200 \/ reply'[c] = reply[c]
    <3>1. UNCHANGED gateway \/ Respond(c, 400, None)
      BY DEF collectParts, Problem
    <3>2. Respond(c, 400, None) => reply'[c].code \in {0, 400}
      BY DEF Respond, DrainInv, Unanswered
    <3> QED BY <3>1, <3>2 DEF gateway
  <2> QED BY <1>0, <1>2, <2>1, AcceptStands
<1>3. ASSUME UNCHANGED reply, i >= 1, Parts(c)[i].kind = "file",
             blobs' = [k \in DOMAIN blobs \cup {Key(c, i)} |->
                         IF k = Key(c, i) THEN Parts(c)[i].content ELSE blobs[k]],
             work' = [work EXCEPT ![c].at = i + 1, ![c].key = Key(c, i)]
      PROVE  Accepted(c)'
  <2>1. work'[c].at = i + 1 /\ work'[c].key = Key(c, i) /\ work'[c].step = "parts"
    BY <1>0, <1>3 DEF HoldInv
  <2>2. blobs'[Key(c, i)] = Parts(c)[i].content
    BY <1>3
  <2>3. LastSoFar(c, i)'
    <3>1. \A j \in DOMAIN Parts(c) : ~(i < j /\ j < i + 1)
      BY <1>0
    <3>2. i \in DOMAIN Parts(c) /\ i < i + 1
      BY <1>0, <1>3
    <3> QED BY <1>1, <1>3, <2>1, <3>1, <3>2 DEF LastSoFar
  <2>4. reply'[c].code = 200 => Told(c)'
    BY <1>0, <1>1, <1>3 DEF Accepted, Told, RowOf, LastFile
  <2>5. i \in DOMAIN Parts(c)
    BY <1>0, <1>3
  <2> QED BY <1>0, <1>1, <2>1, <2>2, <2>3, <2>4, <2>5 DEF Accepted
<1>4. ASSUME UNCHANGED <<reply, blobs>>, Parts(c)[i].kind # "file",
             work'[c].at = i + 1, work'[c].key = work[c].key, work'[c].step = "parts"
      PROVE  Accepted(c)'
  <2>1. \A j \in DOMAIN Parts(c) : LastSoFar(c, j) => LastSoFar(c, j)'
    BY <1>0, <1>1, <1>4 DEF LastSoFar
  <2>2. reply'[c].code = 200 => Told(c)'
    BY <1>0, <1>1, <1>4 DEF Accepted, Told, RowOf, LastFile
  <2>3. work'[c].key # None => \E j \in DOMAIN Parts(c) :
          LastSoFar(c, j)' /\ work'[c].key = Key(c, j) /\ blobs'[work'[c].key] = Parts(c)[j].content
    BY <1>0, <1>4, <2>1 DEF Accepted
  <2> QED BY <1>0, <1>1, <1>4, <2>2, <2>3 DEF Accepted
<1>5. /\ DOMAIN work = Players /\ DOMAIN work[c] = {"step", "at", "key", "meta"}
  BY DEF HoldInv
<1>6. \/ UNCHANGED <<blobs, work>>
      \/ /\ UNCHANGED gateway /\ Parts(c)[i].kind = "file"
         /\ blobs' = [k \in DOMAIN blobs \cup {Key(c, i)} |->
                        IF k = Key(c, i) THEN Parts(c)[i].content ELSE blobs[k]]
         /\ work' = [work EXCEPT ![c].at = i + 1, ![c].key = Key(c, i)]
      \/ /\ UNCHANGED <<gateway, blobs>> /\ Parts(c)[i].kind # "file"
         /\ \/ \E meta : work' = [work EXCEPT ![c].at = i + 1, ![c].meta = meta]
            \/ work' = [work EXCEPT ![c].at = i + 1]
  BY DEF collectParts
<1>7. UNCHANGED gateway => UNCHANGED reply
  BY DEF gateway
<1>8. i >= 1
  BY <1>0 DEF Accepted
<1> QED BY <1>0, <1>2, <1>3, <1>4, <1>5, <1>6, <1>7, <1>8

(* A whole request: a step further, or its answer.                            *)
LEMMA UploadGoesOn ==
  ASSUME scene' = scene, UNCHANGED blobs, NEW c \in Players, Accepted(c), DocsKept,
         work'[c].at = work[c].at, work'[c].key = work[c].key,
         work'[c].step # "parts" => work[c].at > Len(Parts(c)),
         work'[c].step = "committed" => c \in outbox',
         \/ reply'[c].code # 200 \/ reply'[c] = reply[c]
         \/ Told(c)'
  PROVE  Accepted(c)'
<1>1. Parts(c)' = Parts(c) /\ LastFile(c)' = LastFile(c) /\ \A i : Key(c, i)' = Key(c, i)
  BY DEF Parts, Request, LastFile, Key
<1>2. \A i : LastSoFar(c, i)' <=> LastSoFar(c, i)
  BY <1>1 DEF LastSoFar
<1>3. work'[c].key # None => \E i \in DOMAIN Parts(c) :
        LastSoFar(c, i)' /\ work'[c].key = Key(c, i) /\ blobs'[work'[c].key] = Parts(c)[i].content
  BY <1>2 DEF Accepted
<1>4. reply'[c].code = 200 => Told(c)'
  BY <1>1 DEF Accepted, Told, RowOf, DocsKept
<1> QED BY <1>1, <1>3, <1>4 DEF Accepted

LEMMA AnswerIsAccepted ==
  ASSUME DrainInv, HoldInv, AcceptInv, DocsKept, scene' = scene, NEW c \in Players,
         Request(c).route = "upload",
         uploadDocument(c) \/ FindIDBySHA256(c) \/ Register(c) \/ registerDocumentResponse(c)
  PROVE  Accepted(c)'
<1>0. /\ Accepted(c) /\ scene \in Scenes /\ UNCHANGED blobs
      /\ DOMAIN work = Players /\ DOMAIN work[c] = {"step", "at", "key", "meta"}
  BY DEF AcceptInv, HoldInv, uploadDocument, FindIDBySHA256, Register, registerDocumentResponse, uploads
<1>1. work[c].step # "parts" => Sha256(c) = LastFile(c)
  BY <1>0, HashIsOfLastFile
<1>2. LastFile(c)' = LastFile(c)
  BY DEF LastFile, Parts, Request
<1>3. \A code, body : (Respond(c, code, body) /\ code # 200) => reply'[c].code # 200
  BY DEF Respond, DrainInv, Unanswered
<1>4. \A d, duplicate : Registered(c, d, duplicate) =>
        \/ reply'[c].code # 200
        \/ reply'[c].body.document = d /\ reply'[c].body.duplicate = duplicate
  BY DEF Registered, Respond, DrainInv, Unanswered
<1>0a. \A d, duplicate : (reply'[c].body.document = d /\ reply'[c].body.duplicate = duplicate
                          /\ RowOf(c, d, duplicate)') => Told(c)'
  BY Zenon DEF Told, RowOf
<1>5. \A found : (found \subseteq WithSha256(Sha256(c)) /\ work[c].step # "parts" /\ Existing(c, found)) =>
        reply'[c].code # 200 \/ Told(c)'
  <2> SUFFICES ASSUME NEW found, found \subseteq WithSha256(Sha256(c)), work[c].step # "parts",
                      Existing(c, found), reply'[c].code = 200
               PROVE  Told(c)'
    OBVIOUS
  <2>1. PICK d \in found : Registered(c, d, TRUE)
    BY DEF Existing
  <2>2. d \in DOMAIN docs' /\ docs'[d].sha256 = LastFile(c)
    BY <1>1, <2>1 DEF WithSha256, DocsKept
  <2>3. RowOf(c, d, TRUE)'
    BY SMTT(30), <1>2, <2>2 DEF RowOf
  <2>4. reply'[c].body.document = d /\ reply'[c].body.duplicate = TRUE
    BY ZenonT(30), <1>4, <2>1
  <2> QED BY ZenonT(30), <1>0a, <2>3, <2>4
<1>6. \A step : Goto(c, step) => /\ work'[c].step = step /\ work'[c].at = work[c].at /\ work'[c].key = work[c].key
  BY <1>0 DEF Goto
<1>7. CASE uploadDocument(c)
  <2>1. /\ work[c].at > Len(Parts(c))
        /\ \/ UNCHANGED work /\ Problem(c, 400)
           \/ Goto(c, "register") /\ UNCHANGED gateway
    BY <1>7 DEF uploadDocument
  <2> QED BY <1>0, <1>3, <1>6, <2>1, UploadGoesOn DEF Problem, gateway, Accepted, DocsKept
<1>8. CASE FindIDBySHA256(c)
  <2>1. /\ work[c].step = "register"
        /\ \/ UNCHANGED work /\ \E code \in {400, 500} : Problem(c, code)
           \/ UNCHANGED work /\ Existing(c, WithSha256(Sha256(c)))
           \/ Goto(c, "insert") /\ UNCHANGED gateway
    BY <1>8 DEF FindIDBySHA256, At, grpcHTTPStatus
  <2>2. work[c].at > Len(Parts(c)) /\ work[c].step # "committed"
    BY <1>0, <2>1 DEF Accepted
  <2> QED BY <1>0, <1>3, <1>5, <1>6, <2>1, <2>2, UploadGoesOn DEF Problem, gateway
<1>9. CASE Register(c)
  <2>1. /\ work[c].step = "insert"
        /\ \/ UNCHANGED work /\ Problem(c, 500)
           \/ UNCHANGED work /\ Existing(c, WithSha256(Sha256(c)) \cap VisibleTo(Level(c)))
           \/ Goto(c, "committed") /\ UNCHANGED gateway /\ c \in outbox'
    BY <1>9 DEF Register, At, grpcHTTPStatus
  <2>2. work[c].at > Len(Parts(c)) /\ work[c].step # "committed"
    BY <1>0, <2>1 DEF Accepted
  <2>3. WithSha256(Sha256(c)) \cap VisibleTo(Level(c)) \subseteq WithSha256(Sha256(c))
    OBVIOUS
  <2> QED BY <1>0, <1>3, <1>5, <1>6, <2>1, <2>2, <2>3, UploadGoesOn DEF Problem, gateway
<1>10. CASE registerDocumentResponse(c)
  <2>1. /\ work[c].step = "committed" /\ UNCHANGED work
        /\ Registered(c, c, FALSE) \/ Problem(c, 502)
    BY <1>10 DEF registerDocumentResponse, At, grpcHTTPStatus, uploads
  <2>2. c \in outbox /\ work[c].at > Len(Parts(c))
    BY <1>0, <2>1 DEF Accepted
  <2>3. RowOf(c, c, FALSE)'
    <3>1. c \in DOMAIN docs /\ docs[c].sha256 = Sha256(c)
      BY <2>2 DEF HoldInv, Sha256
    <3>2. c \in DOMAIN docs' /\ docs'[c].sha256 = LastFile(c)
      BY <1>1, <2>1, <3>1 DEF DocsKept
    <3>3. c \in outbox'
      BY <2>2 DEF DocsKept
    <3> QED BY <1>2, <3>2, <3>3 DEF RowOf
  <2>4. reply'[c].code # 200 \/ Told(c)'
    <3>1. Registered(c, c, FALSE) => reply'[c].code # 200 \/ Told(c)'
      BY ZenonT(30), <1>0a, <1>4, <2>3
    <3>2. Problem(c, 502) => reply'[c].code # 200
      BY <1>3 DEF Problem
    <3> QED BY <2>1, <3>1, <3>2
  <2> QED BY <1>0, <2>1, <2>2, <2>4, UploadGoesOn DEF DocsKept
<1> QED BY <1>7, <1>8, <1>9, <1>10

LEMMA AcceptNext == DrainInv /\ HoldInv /\ AcceptInv /\ [Next]_vars => AcceptInv'
<1> SUFFICES ASSUME DrainInv, HoldInv, AcceptInv, [Next]_vars PROVE AcceptInv'
  OBVIOUS
<1>1. scene' = scene /\ Players' = Players /\ \A d : Request(d)' = Request(d)
  BY SceneStays DEF Players, Request
<1>2. SUFFICES ASSUME NEW d \in Players, Request(d).route = "upload" PROVE Accepted(d)'
  BY <1>1 DEF AcceptInv
<1>3. Accepted(d)
  BY <1>2 DEF AcceptInv
<1>4. ASSUME UNCHANGED uploads, reply'[d].code # 200 \/ reply'[d] = reply[d] PROVE Accepted(d)'
  BY <1>1, <1>3, <1>4, AcceptStands DEF uploads, DocsKept
<1>5. CASE Background
  <2>1. UNCHANGED gateway /\ (UNCHANGED uploads \/ ExtractionNext)
    BY <1>5 DEF Background, ExtractionNext, vars
  <2> QED BY <1>1, <1>3, <1>4, <2>1, CommitKeepsDocs, AcceptStands DEF gateway
<1>6. CASE GatewayNext /\ UNCHANGED <<uploads, decisions, commit, search, chains, answering>>
  <2>1. reply'[d].code # 200 \/ reply'[d] = reply[d]
    BY <1>6 DEF GatewayNext, authorize, Problem, Respond, emitAuditEvent, recordAudit, HangUp, RuntimeStep,
                DrainInv, Unanswered
  <2> QED BY <1>4, <1>6, <2>1
<1>7. ASSUME NEW c \in Players, c # d, Acts(c) PROVE Accepted(d)'
  <2>1. reply'[d] = reply[d]
    BY <1>7, ActsAreHandled DEF Handled, Silent, Answers, Reviews, Respond, DrainInv
  <2>2. UNCHANGED uploads \/ UploadStep(c)
    BY <1>7 DEF Acts
  <2>3. work'[d] = work[d]
    BY <1>7, WorkIsOwn
  <2>4. ASSUME UploadStep(c), work[d].key # None PROVE blobs'[work[d].key] = blobs[work[d].key]
    <3>1. work[d].key \in DOMAIN blobs /\ work[d].key[1] = d
      BY <2>4 DEF HoldInv
    <3>2. \A i : work[d].key # Key(c, i)
      BY <1>7, <3>1 DEF Key
    <3> QED BY <2>4, <3>1, <3>2 DEF UploadStep, collectParts, uploadDocument, FindIDBySHA256, Register,
               registerDocumentResponse, GetStatus, ListDocuments, documentFile, uploads
  <2> QED BY <1>1, <1>3, <1>4, <2>1, <2>2, <2>3, <2>4, UploadKeepsDocs, AcceptStands
<1>8. CASE Acts(d)
  <2>1. CASE UploadStep(d)
    <3>1. collectParts(d) \/ uploadDocument(d) \/ FindIDBySHA256(d) \/ Register(d) \/ registerDocumentResponse(d)
      BY <1>2, <2>1 DEF UploadStep, GetStatus, ListDocuments, documentFile, Handling
    <3> QED BY <1>1, <1>2, <2>1, <3>1, UploadKeepsDocs, PartIsRead, AnswerIsAccepted
  <2>2. CASE ~UploadStep(d)
    <3>1. UNCHANGED uploads
      BY <1>8, <2>2 DEF Acts
    <3>2. ~DecisionStep(d)
      BY <1>2 DEF DecisionStep, UpdateFactStatus, updateEntityStatus, MergeEntities, DecideContradiction,
                  reviewQueue, Handling
    <3>3. Silent
      BY <1>2, <1>8, <2>2, <3>2, ReadersStay DEF Acts
    <3> QED BY <1>4, <3>1, <3>3 DEF Silent
  <2> QED BY <2>1, <2>2
<1> QED BY <1>5, <1>6, <1>7, <1>8, Steps

(* An upload that was accepted names a document with the file that its client *)
(* sent last, and of those that send one file at once only the one whose      *)
(* event is in the outbox is told that it is no duplicate.                    *)
THEOREM AcceptedUploadsAreRegistered == Spec => []AcceptedIsRegistered
<1>1. AcceptInv => AcceptedIsRegistered
  BY DEF AcceptInv, Accepted, Told, RowOf, AcceptedIsRegistered
<1>2. Init => DrainInv /\ HoldInv /\ AcceptInv
  BY DrainInit, HoldInit, AcceptInit
<1>3. (DrainInv /\ HoldInv /\ AcceptInv) /\ [Next]_vars => (DrainInv /\ HoldInv /\ AcceptInv)'
  BY DrainNext, HoldNext, AcceptNext
<1> QED BY <1>1, <1>2, <1>3, PTL DEF Spec
-----------------------------------------------------------------------------
(* What a session sees of facts and documents, what the pack of a search and  *)
(* an answer hold of them, and that later steps leave it so.                  *)
FactColumns == {"doc", "access", "vmin", "vmax", "siMin", "siMax", "quote"}

MaySee(c, f) == f \in DOMAIN facts /\ Sees(Level(c), facts[f].access)
MayRead(c, d) == d \in DOMAIN docs /\ Sees(Level(c), docs[d].access)

SeesChunk(c, k) == Sees(Level(c), scene.chunks[k].access)

Fits(c, body) ==
  /\ Request(c).route \in {"entityFacts", "experiments", "search"} => \A f \in Range(body.facts) : MaySee(c, f)
  /\ Request(c).route = "search" => \A k \in Range(body.chunks) : SeesChunk(c, k)
  /\ (Request(c).route = "queue" /\ Request(c).kind \in {"facts", "orphans"}) => \A f \in body.items : MaySee(c, f)
  /\ Request(c).route = "contradictions" =>
       \A item \in body.items : MaySee(c, item.aStatement) /\ MaySee(c, item.bStatement)
  /\ Request(c).route \in {"status", "documents", "file"} => \A d \in body.shown : MayRead(c, d)

Shown(c) == Fits(c, reply[c].body)

PackParts == {"facts", "subjects", "chunks", "consensus", "contradictions", "gaps", "experts", "nodes", "edges", "stats"}

Disputed(k, pack) ==
  /\ k.id \in DOMAIN disputes /\ {k.a, k.b} \subseteq DOMAIN pack.facts
  /\ pack.facts[k.a] = disputes[k.id].a /\ pack.facts[k.b] = disputes[k.id].b

PackFits(c, pack) ==
  /\ PackParts \subseteq DOMAIN pack
  /\ \A f \in Range(pack.facts) : MaySee(c, f)
  /\ \A k \in Range(pack.chunks) : SeesChunk(c, k)
  /\ \A k \in pack.contradictions : Disputed(k, pack)
  /\ \A g \in pack.edges : {g.src, g.dst} \subseteq pack.nodes

Packed(c) ==
  /\ caller[c] # None /\ PackFits(c, search[c].pack)
  /\ search[c].step \in {"expand", "facts"} => search[c].pack.contradictions = {}

RowsInv ==
  /\ \A f \in DOMAIN facts : FactColumns \subseteq DOMAIN facts[f]
  /\ \A k \in DOMAIN disputes : {"a", "b"} \subseteq DOMAIN disputes[k]
  /\ commit = [at |-> commit.at, step |-> commit.step, resolved |-> commit.resolved]
  /\ commit.at \in Nat \ {0}

SearchFields == {"step", "plan", "since", "before", "ids", "pack"}

PackInv ==
  /\ search = [c \in Players |-> search[c]]
  /\ \A c \in Players :
       /\ DOMAIN search[c] = SearchFields
       /\ search[c].step \in Range(ReadSteps) \cup {"none", "ready", "failed", "done"}
       /\ search[c].step # "none" => Packed(c)

AccessInv ==
  \A c \in Players :
    /\ caller[c] # None =>
         Request(c).token \in DOMAIN Definition /\ caller[c] = PrincipalOf(Request(c).token)
    /\ reply[c].code = 200 => caller[c] # None /\ Shown(c)

LEMMA AccessIsStated ==
  ASSUME NEW t \in DOMAIN Definition
  PROVE  PrincipalOf(t).access # ""
<1> DEFINE roles == KnownRoles(Definition[t].roles)
           levels == {1} \cup {RoleLevel[r] : r \in roles}
<1>1. roles \subseteq DOMAIN RoleLevel
  BY DEF KnownRoles
<1>2. levels \subseteq 1..4 /\ 1 \in levels
  BY <1>1 DEF RoleLevel
<1>3. \E x \in levels : \A y \in levels : x >= y
  <2> HIDE DEF levels
  <2>1. CASE 4 \in levels
    BY <1>2, <2>1
  <2>2. CASE 4 \notin levels /\ 3 \in levels
    BY <1>2, <2>2
  <2>3. CASE {3, 4} \cap levels = {} /\ 2 \in levels
    BY <1>2, <2>3
  <2>4. CASE {2, 3, 4} \cap levels = {}
    BY <1>2, <2>4
  <2> QED BY <2>1, <2>2, <2>3, <2>4
<1>4. Max(levels) \in levels
  <2> HIDE DEF levels
  <2> QED BY <1>3 DEF Max
<1>5. DocAccessForRoles(roles) \in {"public", "internal", "confidential", "restricted"}
  <2>1. PICK i \in 1..4 : i = Max(levels)
    BY <1>2, <1>4
  <2>2. DocAccessForRoles(roles) = AccessLevels[i]
    BY <2>1 DEF DocAccessForRoles
  <2>3. i = 1 \/ i = 2 \/ i = 3 \/ i = 4
    BY <2>1
  <2> QED BY <2>2, <2>3 DEF AccessLevels
<1>6. PrincipalOf(t).access = IF Definition[t].access = "" THEN DocAccessForRoles(roles) ELSE Definition[t].access
  BY DEF PrincipalOf
<1> QED BY <1>5, <1>6

(* A service serves a caller under the access of its token.                   *)
LEMMA LevelIsAccess ==
  ASSUME NEW c, caller[c] # None, Request(c).token \in DOMAIN Definition,
         caller[c] = PrincipalOf(Request(c).token)
  PROVE  Level(c) = PrincipalOf(Request(c).token).access
<1> DEFINE t == Request(c).token
<1> DEFINE r == PrincipalOf(t)
<1>1. r = [user |-> r.user, roles |-> r.roles, access |-> r.access] /\ r.user = Definition[t].user
  BY DEF PrincipalOf
<1>2. r.user # ""
  BY <1>1, UsersAssumption
<1>3. r.access # ""
  BY AccessIsStated
<1>4. Carried(r) = [r EXCEPT !.access = r.access]
  BY <1>2, <1>3 DEF Carried
<1>5. Carried(r) = r
  <2> HIDE DEF r
  <2> QED BY <1>1, <1>4
<1> QED BY <1>3, <1>5 DEF Level, normalizeRLS

FactsStand == \A f \in DOMAIN facts : f \in DOMAIN facts' /\ \A k \in FactColumns : facts'[f][k] = facts[f][k]
DisputesStand ==
  /\ DOMAIN disputes' = DOMAIN disputes
  /\ \A k \in DOMAIN disputes : disputes'[k].a = disputes[k].a /\ disputes'[k].b = disputes[k].b

LEMMA CallerContext ==
  ASSUME AccessInv, NEW c \in Players, caller[c] # None
  PROVE  normalizeRLS(caller[c]) = Level(c)
<1>1. caller[c] = PrincipalOf(Request(c).token) /\ Request(c).token \in DOMAIN Definition
  BY DEF AccessInv
<1>2. caller[c].access # "" /\ Level(c) = caller[c].access
  BY <1>1, AccessIsStated, LevelIsAccess
<1> QED BY <1>2 DEF normalizeRLS

LEMMA DecisionKeepsFacts ==
  ASSUME RowsInv, NEW c, NEW level, facts' = WithDecision(c, level)
  PROVE  FactsStand /\ \A f \in DOMAIN facts' : FactColumns \subseteq DOMAIN facts'[f]
<1>1. /\ DOMAIN facts' = DOMAIN facts
      /\ \A f \in DOMAIN facts : \/ facts'[f] = facts[f]
                                 \/ facts'[f] = [facts[f] EXCEPT !.status = Body(c).status]
  BY DEF WithDecision
<1>2. \A f \in DOMAIN facts : FactColumns \subseteq DOMAIN facts[f]
  BY DEF RowsInv
<1> QED BY <1>1, <1>2 DEF FactsStand, FactColumns

LEMMA MergeKeepsFacts ==
  ASSUME RowsInv, NEW x, NEW into, NEW level, facts' = FactsAfter(x, into, level)
  PROVE  FactsStand /\ \A f \in DOMAIN facts' : FactColumns \subseteq DOMAIN facts'[f]
<1>1. /\ DOMAIN facts' = DOMAIN facts
      /\ \A f \in DOMAIN facts :
           \/ facts'[f] = facts[f]
           \/ \E s, p : facts'[f] = [facts[f] EXCEPT !.subject = s, !.parameter = p]
  BY DEF FactsAfter
<1>2. \A f \in DOMAIN facts : FactColumns \subseteq DOMAIN facts[f]
  BY DEF RowsInv
<1> QED BY <1>1, <1>2 DEF FactsStand, FactColumns

LEMMA FactHasColumns ==
  ASSUME NEW x, {"vmin", "vmax", "siMin", "siMax", "quote"} \subseteq DOMAIN x.said
  PROVE  FactColumns \subseteq DOMAIN FactFrom(x)
<1>1. PICK a, b, d, e : NormalizeBounds(x.said) = [x.said EXCEPT !.vmin = a, !.vmax = b, !.siMin = d, !.siMax = e]
  BY DEF NormalizeBounds
<1>2. DOMAIN NormalizeBounds(x.said) = DOMAIN x.said
  BY <1>1
<1>3. DOMAIN x.said \cup {"doc", "access"} \subseteq DOMAIN FactFrom(x)
  BY <1>2 DEF FactFrom
<1> QED BY <1>3 DEF FactColumns

LEMMA CommitKeepsFacts ==
  ASSUME RowsInv, scene \in Scenes, commit.at <= Len(scene.deliveries), facts' = InsertedFacts
  PROVE  FactsStand /\ \A f \in DOMAIN facts' : FactColumns \subseteq DOMAIN facts'[f]
<1>1. commit.at \in DOMAIN scene.deliveries
  <2>1. scene.deliveries \in Seq(Range(scene.deliveries))
    BY BundlesAssumption
  <2>2. Len(scene.deliveries) \in Nat /\ DOMAIN scene.deliveries = 1..Len(scene.deliveries)
    BY <2>1, LenProperties
  <2> QED BY <2>2 DEF RowsInv
<1>2. \A x \in NewRows : x \in Range(Bundle.candidates)
  BY DEF NewRows, Range
<1>3. \A x \in NewRows : FactColumns \subseteq DOMAIN FactFrom(x)
  BY <1>1, <1>2, BundlesAssumption, FactHasColumns DEF Bundle
<1>4. /\ DOMAIN facts' = DOMAIN facts \cup {x.row : x \in NewRows}
      /\ \A f \in DOMAIN facts : facts'[f] = facts[f]
      /\ \A f \in DOMAIN facts' \ DOMAIN facts : \E x \in NewRows : facts'[f] = FactFrom(x)
  <2> HIDE DEF NewRows, FactFrom
  <2> QED BY DEF InsertedFacts
<1> QED BY <1>3, <1>4 DEF FactsStand, RowsInv

LEMMA OnlyDecisionsDecide ==
  ASSUME NEW c \in Players, Acts(c), ~DecisionStep(c)
  PROVE  UNCHANGED decisions
<1>1. SearchStep(c) => UNCHANGED decisions
  BY DEF SearchStep, searchHandler, ListEntities, GetEntity, ListEntityFacts, EntityGraph, ListExperts,
         ListExperiments, Shows
<1>2. BrowseStep(c) => UNCHANGED decisions
  BY DEF BrowseStep, GetCoverage, GetContradictions, dictionaryUnits, dictionarySynonyms, Shows, Reads
<1>3. AskStep(c) => UNCHANGED decisions
  BY DEF AskStep, queryParse, askHandler, planAndTerms, cacheGet, augmentFacts, searchFailed, augmentChunks,
         runSynthesis, emitDelta, cachePut, emitDone, askAborted
<1> QED BY <1>1, <1>2, <1>3 DEF Acts

LEMMA RowsStep ==
  ASSUME RowsInv, scene \in Scenes, [Next]_vars
  PROVE  RowsInv' /\ FactsStand /\ DisputesStand
<1>1. CASE UNCHANGED <<facts, disputes, commit>>
  BY <1>1 DEF RowsInv, FactsStand, DisputesStand
<1>2. ASSUME NEW c \in Players, DecisionStep(c), UNCHANGED commit
      PROVE  RowsInv' /\ FactsStand /\ DisputesStand
  <2>1. \/ facts' = facts
        \/ \E level : facts' = WithDecision(c, level)
        \/ \E x, into, level : facts' = FactsAfter(x, into, level)
    BY <1>2 DEF DecisionStep, UpdateFactStatus, updateFactStatusHandler, updateEntityStatus, MergeEntities,
                mergeEntityHandler, DecideContradiction, decideContradictionHandler, reviewQueue, Refuse, decisions
  <2>2. FactsStand /\ \A f \in DOMAIN facts' : FactColumns \subseteq DOMAIN facts'[f]
    <3>1. CASE facts' = facts
      BY <3>1 DEF FactsStand, RowsInv
    <3> QED BY <2>1, <3>1, DecisionKeepsFacts, MergeKeepsFacts
  <2>3. \/ disputes' = disputes
        \/ \E k, s, decided : disputes' = [disputes EXCEPT ![k].status = s, ![k].decided = decided]
    BY <1>2 DEF DecisionStep, UpdateFactStatus, updateFactStatusHandler, updateEntityStatus, MergeEntities,
                mergeEntityHandler, DecideContradiction, decideContradictionHandler, reviewQueue, Refuse, decisions
  <2>4. DisputesStand /\ \A k \in DOMAIN disputes' : {"a", "b"} \subseteq DOMAIN disputes'[k]
    <3>1. ASSUME NEW k, NEW st, NEW decided,
                 disputes' = [disputes EXCEPT ![k].status = st, ![k].decided = decided]
          PROVE  DisputesStand /\ \A d \in DOMAIN disputes' : {"a", "b"} \subseteq DOMAIN disputes'[d]
      <4>1. /\ DOMAIN disputes' = DOMAIN disputes
            /\ \A d \in DOMAIN disputes : /\ DOMAIN disputes'[d] = DOMAIN disputes[d]
                                          /\ disputes'[d].a = disputes[d].a /\ disputes'[d].b = disputes[d].b
        BY <3>1 DEF RowsInv
      <4> QED BY <4>1 DEF DisputesStand, RowsInv
    <3> QED BY <2>3, <3>1 DEF DisputesStand, RowsInv
  <2> QED BY <1>2, <2>2, <2>4 DEF RowsInv
<1>3. CASE ExtractionNext
  <2>1. disputes' = disputes
    BY <1>3 DEF ExtractionNext
  <2>2. facts' = facts \/ (commit.at <= Len(scene.deliveries) /\ facts' = InsertedFacts)
    BY <1>3 DEF ExtractionNext, fetchBundle, ResolveByNames, Commit, Consuming, Nak
  <2>3. FactsStand /\ \A f \in DOMAIN facts' : FactColumns \subseteq DOMAIN facts'[f]
    <3>1. CASE facts' = facts
      BY <3>1 DEF FactsStand, RowsInv
    <3> QED BY <2>2, <3>1, CommitKeepsFacts
  <2>4. commit' = NextDelivery \/ \E step, resolved : commit' = Following(step, resolved)
    BY <1>3 DEF ExtractionNext, fetchBundle, ResolveByNames, Commit, Nak
  <2>5. commit' = [at |-> commit'.at, step |-> commit'.step, resolved |-> commit'.resolved] /\ commit'.at \in Nat \ {0}
    <3>1. CASE commit' = NextDelivery
      BY <3>1 DEF NextDelivery, RowsInv
    <3>2. ASSUME NEW step, NEW resolved, commit' = Following(step, resolved)
          PROVE  commit' = [at |-> commit.at, step |-> step, resolved |-> resolved]
      <4>1. commit = [at |-> commit.at, step |-> commit.step, resolved |-> commit.resolved]
        BY DEF RowsInv
      <4> QED BY <3>2, <4>1 DEF Following
    <3> QED BY <2>4, <3>1, <3>2 DEF RowsInv
  <2> QED BY <2>1, <2>3, <2>5 DEF RowsInv, DisputesStand
<1>4. CASE Background /\ ~ExtractionNext
  BY <1>1, <1>4 DEF Background, vars, decisions
<1>5. CASE GatewayNext /\ UNCHANGED <<decisions, commit>>
  BY <1>1, <1>5 DEF decisions
<1>6. ASSUME NEW c \in Players, Acts(c), ~DecisionStep(c)
      PROVE  UNCHANGED <<facts, disputes, commit>>
  BY <1>6, OnlyDecisionsDecide DEF Acts, decisions
<1> QED BY <1>1, <1>2, <1>3, <1>4, <1>5, <1>6, Steps DEF Acts

-----------------------------------------------------------------------------
LEMMA AntiFunctionRange == ASSUME NEW F PROVE Range(AntiFunction(F)) \subseteq DOMAIN F
BY DEF AntiFunction, Inverse, Range

LEMMA FirstRange == ASSUME NEW n, NEW s PROVE Range(First(n, s)) \subseteq Range(s)
BY DEF First, Range

LEMMA AmongRange == ASSUME NEW S, NEW ranking PROVE Range(Among(S, ranking)) \subseteq S
<1> DEFINE Place(k) == CHOOSE i \in DOMAIN ranking : ranking[i] = k
           Before(k, l) == Place(k) < Place(l)
<1>1. PICK F : F = [k \in S \cap Range(ranking) |-> 1 + Cardinality({l \in S \cap Range(ranking) : Before(l, k)})]
  OBVIOUS
<1>2. Among(S, ranking) = AntiFunction(F) /\ DOMAIN F \subseteq S
  BY <1>1 DEF Among, Sorted
<1> QED BY <1>2, AntiFunctionRange

LEMMA RankedAreFound == ASSUME NEW fs, NEW slugs PROVE Range(rankFacts(fs, slugs)) \subseteq fs
BY AntiFunctionRange DEF rankFacts, Sorted

LEMMA FoundAreVisible ==
  ASSUME NEW c, NEW ids, NEW filter, NEW f \in queryFacts(ids, filter, Level(c))
  PROVE  MaySee(c, f)
BY DEF queryFacts, Considered, VisibleFact, MaySee

(* What is in a pack stays visible and true, whatever is decided.             *)
LEMMA PacksStand ==
  ASSUME FactsStand, DisputesStand, scene' = scene, NEW c, caller'[c] = caller[c]
  PROVE  /\ \A f : MaySee(c, f) => MaySee(c, f)'
         /\ \A k : SeesChunk(c, k) => SeesChunk(c, k)'
         /\ \A pack : PackFits(c, pack) => PackFits(c, pack)'
<1>1. Level(c)' = Level(c)
  BY DEF Level
<1>2. \A f : MaySee(c, f) => MaySee(c, f)'
  BY <1>1 DEF MaySee, FactsStand, FactColumns
<1>3. \A k, pack : Disputed(k, pack) => Disputed(k, pack)'
  BY DEF Disputed, DisputesStand
<1>4. \A k : SeesChunk(c, k) => SeesChunk(c, k)'
  BY <1>1 DEF SeesChunk
<1> QED BY <1>2, <1>3, <1>4 DEF PackFits

SearchMove(c) ==
  \/ pc[c] = "handle" /\ \E plan : StartSearch(c, plan)
  \/ buildPack(c)
  \/ search[c].step = "ready" /\ search' = [search EXCEPT ![c].step = "done"]

LEMMA SearchMoves ==
  ASSUME NEW c \in Players, Acts(c)
  PROVE  UNCHANGED search \/ SearchMove(c)
<1>1. CASE SearchStep(c)
  BY <1>1 DEF SearchStep, SearchMove, searchHandler, Handling, ListEntities, GetEntity, ListEntityFacts,
              EntityGraph, ListExperts, ListExperiments, Shows
<1>2. CASE AskStep(c)
  BY <1>2 DEF AskStep, SearchMove, queryParse, askHandler, planAndTerms, cacheGet, augmentFacts, searchFailed,
              augmentChunks, runSynthesis, emitDelta, cachePut, emitDone, askAborted, Going, Asking
<1>3. CASE BrowseStep(c)
  BY <1>3 DEF BrowseStep, GetCoverage, GetContradictions, dictionaryUnits, dictionarySynonyms, Shows, Reads
<1> QED BY <1>1, <1>2, <1>3 DEF Acts
(* One read of a search gives a pack that fits, and a step that reads no facts *)
(* again.                                                                     *)
Gives(c, pack, step) ==
  /\ search' = [d \in Players |-> search'[d]]
  /\ \A d \in Players \ {c} : search'[d] = search[d]
  /\ DOMAIN search'[c] = SearchFields /\ search'[c].pack = pack /\ search'[c].step = step

SearchGoes(c, pack, step) ==
  /\ caller[c] # None /\ PackFits(c, pack) /\ Gives(c, pack, step)
  /\ step \in Range(ReadSteps) \cup {"ready", "failed", "done"}
  /\ step \in {"expand", "facts"} => pack.contradictions = {}

LEMMA ReadsAre == Range(ReadSteps) = {"expand", "facts", "chunks", "consensus", "contradictions", "gaps", "experts", "graph"}
<1>1. DOMAIN ReadSteps = {1, 2, 3, 4, 5, 6, 7, 8}
  BY DEF ReadSteps
<1> QED BY <1>1 DEF ReadSteps, Range

LEMMA ThenGoes ==
  ASSUME PackInv, NEW c \in Players, search[c].step \in Range(ReadSteps) \ {"expand"}, caller[c] # None,
         NEW pack, PackFits(c, pack), Then(c, pack)
  PROVE  \E step : SearchGoes(c, pack, step)
<1>1. PICK i \in 1..8 : i = CHOOSE j \in DOMAIN ReadSteps : ReadSteps[j] = search[c].step
  BY DEF ReadSteps, Range
<1>2. ReadSteps[i] = search[c].step
  BY <1>1 DEF Range
<1>3. i # 1 /\ Len(ReadSteps) = 8
  BY <1>2 DEF ReadSteps
<1> DEFINE step == IF i = Len(ReadSteps) THEN "ready" ELSE ReadSteps[i + 1]
<1>4. step \in {"ready", "chunks", "consensus", "contradictions", "gaps", "experts", "graph"}
  <2>1. i = 2 \/ i = 3 \/ i = 4 \/ i = 5 \/ i = 6 \/ i = 7 \/ i = 8
    BY <1>3
  <2> QED BY <1>3, <2>1 DEF ReadSteps
<1>5. search' = [search EXCEPT ![c].pack = pack, ![c].step = step]
  BY <1>1 DEF Then
<1>6. Gives(c, pack, step)
  <2> HIDE DEF step
  <2> QED BY <1>5 DEF PackInv, Gives, SearchFields
<1>7. SearchGoes(c, pack, step)
  <2> HIDE DEF step
  <2> QED BY <1>4, <1>6, ReadsAre DEF SearchGoes
<1> QED BY <1>7

LEMMA SameFactsFit ==
  ASSUME NEW c, NEW pack, PackFits(c, pack), NEW more, DOMAIN more = DOMAIN pack, more.facts = pack.facts,
         \A k \in Range(more.chunks) : SeesChunk(c, k),
         more.contradictions = pack.contradictions, more.nodes = pack.nodes, more.edges = pack.edges
  PROVE  PackFits(c, more)
BY DEF PackFits, Disputed

LEMMA ReadGoes ==
  ASSUME PackInv, RowsInv, NEW c \in Players, buildPack(c)
  PROVE  \E pack, step : SearchGoes(c, pack, step)
<1> DEFINE pack == search[c].pack
<1>0. /\ search[c].step \in Range(ReadSteps) /\ caller[c] # None /\ PackFits(c, pack)
      /\ search[c].step \in {"expand", "facts"} => pack.contradictions = {}
  <2>1. search[c].step \in Range(ReadSteps)
    BY ReadsAre DEF buildPack, ExpandEntityIDs, Facts, FTSChunks, Consensus, Contradictions, Gaps, Experts,
                    EgoGraph, SearchFails, Reading
  <2> QED BY <2>1, ReadsAre DEF PackInv, Packed
<1>1. CASE ExpandEntityIDs(c)
  <2>1. PICK ids, step : /\ search' = [search EXCEPT ![c].ids = ids, ![c].step = step]
                         /\ step \in {"ready", "facts"} /\ search[c].step = "expand"
    BY <1>1 DEF ExpandEntityIDs, Reading
  <2>2. Gives(c, pack, step)
    BY <2>1 DEF PackInv, Gives, SearchFields
  <2> QED BY <1>0, <2>1, <2>2, ReadsAre DEF SearchGoes
<1>2. CASE Facts(c)
  <2>0. search[c].step = "facts"
    BY <1>2 DEF Facts, Reading
  <2> DEFINE filter == factFilter(search[c].plan)
             found == First(FinalTop, rankFacts(queryFacts(search[c].ids, filter, Level(c)), planSlugs(c)))
  <2>1. CASE search' = [search EXCEPT ![c].step = "failed"]
    <3>1. Gives(c, pack, "failed")
      BY <2>1 DEF PackInv, Gives, SearchFields
    <3> QED BY <1>0, <3>1 DEF SearchGoes
  <2>2. CASE search' # [search EXCEPT ![c].step = "failed"]
    <3>1. PICK subjects : Then(c, [pack EXCEPT !.facts = found, !.subjects = subjects])
      BY <1>2, <2>2 DEF Facts
    <3>2. \A f \in Range(found) : MaySee(c, f)
      BY FirstRange, RankedAreFound, FoundAreVisible
    <3> HIDE DEF found
    <3> DEFINE more == [pack EXCEPT !.facts = found, !.subjects = subjects]
    <3>3. /\ DOMAIN more = DOMAIN pack /\ more.facts = found /\ more.contradictions = {} /\ more.chunks = pack.chunks
          /\ more.nodes = pack.nodes /\ more.edges = pack.edges
      BY <1>0, <2>0 DEF PackFits, PackParts
    <3>4. PackFits(c, more)
      <4> HIDE DEF more
      <4> QED BY <1>0, <3>2, <3>3 DEF PackFits
    <3>5. Then(c, more)
      BY <3>1
    <3> HIDE DEF more
    <3> QED BY <1>0, <2>0, <3>4, <3>5, ThenGoes
  <2> QED BY <2>1, <2>2
<1>3. CASE FTSChunks(c) \/ Consensus(c) \/ Gaps(c) \/ Experts(c)
  <2>0. search[c].step # "expand"
    BY <1>3 DEF FTSChunks, Consensus, Gaps, Experts, Reading
  <2> DEFINE visible == First(FinalTop, First(FtsTop, VisibleChunks(scene.ftsChunks, Level(c))))
  <2>1. PICK v : \/ v = visible /\ Then(c, [pack EXCEPT !.chunks = v])
                 \/ Then(c, [pack EXCEPT !.consensus = v])
                 \/ Then(c, [pack EXCEPT !.gaps = v])
                 \/ Then(c, [pack EXCEPT !.experts = v])
    BY <1>3 DEF FTSChunks, Consensus, Gaps, Experts
  <2>a. Range(visible) \subseteq ChunksUpTo(Level(c))
    <3>1. PICK seen : seen = VisibleChunks(scene.ftsChunks, Level(c))
      OBVIOUS
    <3>2. Range(seen) \subseteq ChunksUpTo(Level(c))
      BY <3>1, AmongRange DEF VisibleChunks
    <3> QED BY <3>1, <3>2, FirstRange
  <2>b. \A k \in Range(visible) : SeesChunk(c, k)
    BY <2>a DEF ChunksUpTo, SeesChunk
  <2> HIDE DEF visible
  <2>2. PICK part \in {"chunks", "consensus", "gaps", "experts"} :
          /\ Then(c, [k \in DOMAIN pack |-> IF k = part THEN v ELSE pack[k]])
          /\ part = "chunks" => \A k \in Range(v) : SeesChunk(c, k)
    BY <2>1, <2>b
  <2> DEFINE more == [k \in DOMAIN pack |-> IF k = part THEN v ELSE pack[k]]
  <2>3. PackFits(c, more)
    <3>1. /\ DOMAIN more = DOMAIN pack /\ more.facts = pack.facts /\ more.contradictions = pack.contradictions
          /\ more.nodes = pack.nodes /\ more.edges = pack.edges
      BY <1>0 DEF PackFits, PackParts
    <3>2. more.chunks = IF part = "chunks" THEN v ELSE pack.chunks
      BY <1>0 DEF PackFits, PackParts
    <3> HIDE DEF more, pack
    <3>3. \A k \in Range(more.chunks) : SeesChunk(c, k)
      BY <1>0, <2>2, <3>2 DEF PackFits
    <3> QED BY <1>0, <3>1, <3>3, SameFactsFit
  <2>4. Then(c, more)
    BY <2>2
  <2> HIDE DEF more
  <2> QED BY <1>0, <2>0, <2>3, <2>4, ThenGoes
<1>4. CASE Contradictions(c)
  <2>0. search[c].step # "expand"
    BY <1>4 DEF Contradictions, Reading
  <2>1. PICK ks \in SUBSET DOMAIN disputes :
          Then(c, [pack EXCEPT !.contradictions = remapContradictions(ks, pack)])
    BY <1>4 DEF Contradictions
  <2>2. \A k \in remapContradictions(ks, pack) : Disputed(k, pack)
    <3>1. \A f \in Range(pack.facts) : Ref(f, pack) \in DOMAIN pack.facts /\ pack.facts[Ref(f, pack)] = f
      BY DEF Ref, Range
    <3> HIDE DEF pack
    <3> QED BY <3>1 DEF remapContradictions, Disputed
  <2> DEFINE found == remapContradictions(ks, pack)
             more == [pack EXCEPT !.contradictions = found]
  <2>3. /\ DOMAIN more = DOMAIN pack /\ more.facts = pack.facts /\ more.contradictions = found /\ more.chunks = pack.chunks
        /\ more.nodes = pack.nodes /\ more.edges = pack.edges
    <3> HIDE DEF found
    <3> QED BY <1>0 DEF PackFits, PackParts
  <2>4. PackFits(c, more)
    <3> HIDE DEF more, found
    <3>1. \A k \in found : Disputed(k, more)
      BY <2>2, <2>3 DEF Disputed, found
    <3> QED BY <1>0, <2>3, <3>1 DEF PackFits
  <2>5. Then(c, more)
    BY <2>1
  <2> HIDE DEF more
  <2> QED BY <1>0, <2>0, <2>4, <2>5, ThenGoes
<1>5. CASE EgoGraph(c)
  <2>0. search[c].step # "expand"
    BY <1>5 DEF EgoGraph, Reading
  <2> DEFINE graph == egoGraph(search[c].ids)
  <2>1. PICK stats : Then(c, [pack EXCEPT !.nodes = graph.nodes, !.edges = graph.edges, !.stats = stats])
    BY <1>5 DEF EgoGraph
  <2>2. \A g \in graph.edges : {g.src, g.dst} \subseteq graph.nodes
    BY DEF egoGraph
  <2> HIDE DEF graph
  <2> DEFINE more == [pack EXCEPT !.nodes = graph.nodes, !.edges = graph.edges, !.stats = stats]
  <2>3. /\ DOMAIN more = DOMAIN pack /\ more.facts = pack.facts /\ more.contradictions = pack.contradictions
        /\ more.nodes = graph.nodes /\ more.edges = graph.edges /\ more.chunks = pack.chunks
    BY <1>0 DEF PackFits, PackParts
  <2>4. PackFits(c, more)
    <3> HIDE DEF more
    <3> QED BY <1>0, <2>2, <2>3 DEF PackFits, Disputed
  <2>5. Then(c, more)
    BY <2>1
  <2> HIDE DEF more
  <2> QED BY <1>0, <2>0, <2>4, <2>5, ThenGoes
<1>6. CASE SearchFails(c)
  <2>1. Gives(c, pack, "failed")
    BY <1>6 DEF SearchFails, PackInv, Gives, SearchFields
  <2> QED BY <1>0, <2>1 DEF SearchGoes
<1> QED BY <1>1, <1>2, <1>3, <1>4, <1>5, <1>6 DEF buildPack

LEMMA MoveGoes ==
  ASSUME PackInv, RowsInv, NEW c \in Players, SearchMove(c), pc[c] = "handle" => caller[c] # None
  PROVE  \E pack, step : SearchGoes(c, pack, step)
<1>1. ASSUME NEW plan, StartSearch(c, plan), pc[c] = "handle"
      PROVE  \E pack, step : SearchGoes(c, pack, step)
  <2>1. PICK step \in {"ready", "expand"} :
          search' = [search EXCEPT ![c] = [step |-> step, plan |-> plan, since |-> Len(history),
                                           before |-> DOMAIN facts, ids |-> {}, pack |-> EmptyPack]]
    BY <1>1 DEF StartSearch
  <2>2. Gives(c, EmptyPack, step)
    BY <2>1 DEF PackInv, Gives, SearchFields
  <2>3. PackFits(c, EmptyPack) /\ EmptyPack.contradictions = {}
    BY DEF PackFits, EmptyPack, PackParts, Range
  <2> QED BY <1>1, <2>2, <2>3, ReadsAre DEF SearchGoes
<1>2. CASE search[c].step = "ready" /\ search' = [search EXCEPT ![c].step = "done"]
  <2>1. Gives(c, search[c].pack, "done")
    BY <1>2 DEF PackInv, Gives, SearchFields
  <2>2. Packed(c)
    BY <1>2 DEF PackInv
  <2> QED BY <2>1, <2>2 DEF SearchGoes, Packed
<1> QED BY <1>1, <1>2, ReadGoes DEF SearchMove

LEMMA PackInit == Init => PackInv
BY DEF Init, SearchInit, PackInv, Nothing, SearchFields

LEMMA ActsLeaveCallers == ASSUME NEW c \in Players, Acts(c) PROVE UNCHANGED <<scene, caller>>
BY ActsAreHandled DEF Handled, Silent, Answers, Reviews, Respond

LEMMA PackStands ==
  ASSUME FactsStand, DisputesStand, scene' = scene, NEW d, Packed(d), caller'[d] = caller[d], search'[d] = search[d]
  PROVE  Packed(d)'
<1>1. PICK pack : pack = search[d].pack
  OBVIOUS
<1>2. PackFits(d, pack)'
  BY <1>1, PacksStand DEF Packed
<1>3. (search[d].pack)' = pack
  BY <1>1
<1>4. PackFits(d, search[d].pack)'
  BY <1>2, <1>3
<1> QED BY <1>4 DEF Packed

LEMMA PackNext ==
  ASSUME DrainInv, AuditInv, RowsInv, PackInv, scene \in Scenes, [Next]_vars
  PROVE  PackInv'
<1>0. FactsStand /\ DisputesStand /\ scene' = scene /\ Players' = Players
  BY RowsStep, SceneStays DEF Players
<1>1. CASE UNCHANGED search /\ \A c \in Players : caller[c] # None => caller'[c] = caller[c]
  <2>1. \A c \in Players : search[c].step # "none" => Packed(c)'
    BY <1>0, <1>1, PackStands DEF PackInv, Packed
  <2> QED BY <1>0, <1>1, <2>1 DEF PackInv
<1>2. ASSUME NEW c \in Players, Acts(c), SearchMove(c) PROVE PackInv'
  <2>1. UNCHANGED caller
    BY <1>2, ActsLeaveCallers
  <2>2. PICK pack, step : SearchGoes(c, pack, step)
    BY <1>2, MoveGoes DEF AuditInv, Traced
  <2>3. Packed(c)'
    <3>1. PackFits(c, pack)'
      BY <1>0, <2>1, <2>2, PacksStand DEF SearchGoes
    <3>2. (search[c].pack)' = pack /\ (search[c].step)' = step
      BY <2>2 DEF SearchGoes, Gives
    <3>3. PackFits(c, search[c].pack)'
      BY <3>1, <3>2
    <3> QED BY <2>1, <2>2, <3>2, <3>3 DEF Packed, SearchGoes
  <2>4. \A d \in Players \ {c} : search'[d] = search[d] /\ (Packed(d) => Packed(d)')
    BY <1>0, <2>1, <2>2, PackStands DEF SearchGoes, Gives
  <2>5. DOMAIN search'[c] = SearchFields /\ search'[c].step \in Range(ReadSteps) \cup {"none", "ready", "failed", "done"}
    BY <2>2 DEF SearchGoes, Gives
  <2>6. search' = [d \in Players |-> search'[d]]
    BY <2>2 DEF SearchGoes, Gives
  <2> QED BY <1>0, <2>3, <2>4, <2>5, <2>6 DEF PackInv
<1>3. CASE GatewayNext /\ UNCHANGED search
  <2>1. \A c \in Players : caller[c] # None => caller'[c] = caller[c]
    BY <1>3 DEF GatewayNext, authorize, emitAuditEvent, recordAudit, HangUp, RuntimeStep, Problem, Respond, DrainInv
  <2> QED BY <1>1, <1>3, <2>1
<1>4. CASE Background
  <2>1. UNCHANGED <<search, caller>>
    BY <1>4, BackgroundIsSilent DEF Background, Silent, vars
  <2> QED BY <1>1, <2>1
<1>5. ASSUME NEW c \in Players, Acts(c), UNCHANGED search PROVE PackInv'
  BY <1>1, <1>5, ActsLeaveCallers
<1> QED BY <1>2, <1>3, <1>4, <1>5, Steps, SearchMoves

LEMMA RowsInit == Init => RowsInv
BY FactsAssumption DEF Init, GatewayInit, DecisionsInit, ExtractionInit, RowsInv, FactColumns

(* What a search was shown can be relied on as one piece, while others decide *)
(* and commit between its reads: its contradictions are between facts of it,  *)
(* the two that are disputed, and its graph has no edge that leads out of it. *)
THEOREM PacksAreCoherent == Spec => []PackIsCoherent
<1>1. PackInv => PackIsCoherent
  BY DEF PackInv, PackIsCoherent, Packed, PackFits, Disputed
<1>2. Init => DrainInv /\ AuditInv /\ HoldInv /\ AcceptInv /\ RowsInv /\ PackInv
  BY DrainInit, AuditInit, HoldInit, AcceptInit, RowsInit, PackInit
<1>3. DrainInv /\ AuditInv /\ HoldInv /\ AcceptInv /\ RowsInv /\ PackInv /\ [Next]_vars
        => (DrainInv /\ AuditInv /\ HoldInv /\ AcceptInv /\ RowsInv /\ PackInv)'
  BY DrainNext, AuditNext, HoldNext, AcceptNext, RowsStep, PackNext DEF AcceptInv
<1> QED BY <1>1, <1>2, <1>3, PTL DEF Spec

-----------------------------------------------------------------------------
(* What an answer shows is visible to the caller when it is written.          *)
Showing(c) ==
  Request(c).route \in {"entityFacts", "experiments", "search", "contradictions", "status", "documents", "file", "queue"}

FitAnswer(c) ==
  UNCHANGED reply \/ \E code \in Codes : \E body : Respond(c, code, body) /\ (code = 200 => Fits(c, body))

LEMMA OthersFit ==
  ASSUME NEW c \in Players, ~Showing(c), Handled(c) \/ Reviews(c)
  PROVE  FitAnswer(c)
BY DEF Showing, Fits, Handled, Silent, Answers, Reviews, FitAnswer, Codes

LEMMA FailuresFit ==
  ASSUME NEW c, NEW code, NEW body, Respond(c, grpcHTTPStatus(code), body)
  PROVE  FitAnswer(c)
BY StatusIsCode DEF FitAnswer

LEMMA ProblemsFit ==
  ASSUME NEW c, NEW code \in Codes \ {200}, NEW body, Respond(c, code, body)
  PROVE  FitAnswer(c)
BY DEF FitAnswer

LEMMA FittingFits ==
  ASSUME NEW c, NEW body, Fits(c, body), Respond(c, 200, body)
  PROVE  FitAnswer(c)
BY DEF FitAnswer, Codes

LEMMA DocumentsFit == ASSUME NEW c \in Players, UploadStep(c) PROVE FitAnswer(c)
<1>1. CASE ~Showing(c)
  BY <1>1, OthersFit, UploadsHandled
<1>2. CASE GetStatus(c)
  <2>1. ASSUME NEW d \in VisibleTo(Level(c)), Respond(c, 200, [shown |-> {d}, status |-> docs[d].status])
        PROVE  FitAnswer(c)
    <3>1. PICK status : status = docs[d].status
      OBVIOUS
    <3>2. Fits(c, [shown |-> {d}, status |-> status])
      BY <1>2 DEF GetStatus, Handling, Fits, VisibleTo, MayRead
    <3> QED BY <2>1, <3>1, <3>2, FittingFits
  <2>2. (\E code, body : Respond(c, grpcHTTPStatus(code), body)) => FitAnswer(c)
    BY FailuresFit
  <2> QED BY <1>2, <2>1, <2>2 DEF GetStatus
<1>3. CASE ListDocuments(c)
  <2>1. ASSUME NEW page \in SUBSET Listed(Level(c)), NEW total, Respond(c, 200, [shown |-> page, total |-> total])
        PROVE  FitAnswer(c)
    <3>1. Fits(c, [shown |-> page, total |-> total])
      BY <1>3 DEF ListDocuments, Handling, Fits, Listed, VisibleTo, MayRead
    <3> QED BY <2>1, <3>1, FittingFits
  <2>2. (\E code, body : Respond(c, grpcHTTPStatus(code), body)) => FitAnswer(c)
    BY FailuresFit
  <2> QED BY <1>3, <2>1, <2>2 DEF ListDocuments
<1>4. CASE documentFile(c)
  <2>1. ASSUME NEW d \in VisibleTo(Level(c)), NEW content, Respond(c, 200, [shown |-> {d}, content |-> content])
        PROVE  FitAnswer(c)
    <3>1. Fits(c, [shown |-> {d}, content |-> content])
      BY <1>4 DEF documentFile, Handling, Fits, VisibleTo, MayRead
    <3> QED BY <2>1, <3>1, FittingFits
  <2>2. (\E code \in {404, 500, 502} : \E body : Respond(c, code, body)) => FitAnswer(c)
    BY ProblemsFit DEF Codes
  <2> QED BY <1>4, <2>1, <2>2 DEF documentFile, Problem
<1>5. ~Showing(c) \/ GetStatus(c) \/ ListDocuments(c) \/ documentFile(c)
  BY DEF UploadStep, collectParts, uploadDocument, FindIDBySHA256, Register, registerDocumentResponse, At,
         Handling, Showing
<1> QED BY <1>1, <1>2, <1>3, <1>4, <1>5

LEMMA SearchesFit == ASSUME PackInv, NEW c \in Players, SearchStep(c) PROVE FitAnswer(c)
<1>1. CASE ~Showing(c)
  BY <1>1, OthersFit, SearchHandled
<1>2. CASE buildPack(c) /\ UNCHANGED gateway
  BY <1>2 DEF gateway, FitAnswer
<1>3. CASE searchHandler(c)
  <2>1. Request(c).route = "search"
    BY <1>3 DEF searchHandler, Handling
  <2>2. CASE search[c].step = "ready" /\ Respond(c, 200, search[c].pack)
    <3>1. PackFits(c, search[c].pack)
      BY <2>2 DEF PackInv, Packed
    <3>2. Fits(c, search[c].pack)
      BY <2>1, <3>1 DEF Fits, PackFits
    <3>3. PICK pack : pack = search[c].pack
      OBVIOUS
    <3> QED BY <2>2, <3>2, <3>3, FittingFits
  <2>3. (\E code, body : Respond(c, grpcHTTPStatus(code), body)) => FitAnswer(c)
    BY FailuresFit
  <2>4. Problem(c, 400) => FitAnswer(c)
    BY ProblemsFit DEF Problem, Codes
  <2>5. UNCHANGED gateway => FitAnswer(c)
    BY DEF FitAnswer, gateway
  <2> QED BY <1>3, <2>2, <2>3, <2>4, <2>5 DEF searchHandler, Problem
<1>4. CASE ListEntityFacts(c)
  <2> DEFINE found == rankFacts(queryFacts(expandEntityIDs(Slug(c)), NoFilter, Level(c)), Slug(c))
  <2>1. PICK body : body = [facts |-> found] /\ Shows(c, "entityFacts", body)
    BY <1>4 DEF ListEntityFacts
  <2>2. \A f \in Range(body.facts) : MaySee(c, f)
    BY <2>1, RankedAreFound, FoundAreVisible
  <2>3. Fits(c, body)
    BY <2>1, <2>2 DEF Fits, Shows, Handling
  <2> QED BY <2>1, <2>3, FittingFits, FailuresFit DEF Shows
<1>5. CASE ListExperiments(c)
  <2> DEFINE asked == Request(c).body
             seen == {f \in DOMAIN facts : /\ VisibleFact(f, Level(c))
                                           /\ asked.process \in {"", facts[f].subject}
                                           /\ asked.parameter \in {"", facts[f].parameter}
                                           /\ facts[f].year >= asked.yearFrom}
             Before(f, g) == \/ facts[f].year > facts[g].year
                             \/ facts[f].year = facts[g].year /\ facts[f].confidence > facts[g].confidence
                             \/ facts[f].year = facts[g].year /\ facts[f].confidence = facts[g].confidence
                                  /\ facts[f].id < facts[g].id
             F == [f \in seen |-> 1 + Cardinality({g \in seen : Before(g, f)})]
             body == [facts |-> First(50, AntiFunction(F))]
  <2>1. Shows(c, "experiments", body)
    BY <1>5 DEF ListExperiments, Sorted
  <2>2. \A f \in seen : MaySee(c, f)
    BY DEF VisibleFact, MaySee
  <2>3. Range(body.facts) \subseteq seen
    <3>1. DOMAIN F = seen
      OBVIOUS
    <3> HIDE DEF F, seen
    <3>2. body.facts = First(50, AntiFunction(F))
      OBVIOUS
    <3> HIDE DEF body
    <3> QED BY <3>1, <3>2, FirstRange, AntiFunctionRange
  <2>4. Fits(c, body)
    <3> HIDE DEF body, seen
    <3> QED BY <2>1, <2>2, <2>3 DEF Fits, Shows, Handling
  <2> HIDE DEF body, seen
  <2> QED BY <2>1, <2>4, FittingFits, FailuresFit DEF Shows
<1>6. ~Showing(c) \/ (buildPack(c) /\ UNCHANGED gateway) \/ searchHandler(c) \/ ListEntityFacts(c) \/ ListExperiments(c)
  BY DEF SearchStep, ListEntities, GetEntity, EntityGraph, ListExperts, Shows, Handling, Showing
<1> QED BY <1>1, <1>2, <1>3, <1>4, <1>5, <1>6

LEMMA ListsFit == ASSUME NEW c \in Players, BrowseStep(c) PROVE FitAnswer(c)
<1>1. CASE ~Showing(c)
  BY <1>1, OthersFit, BrowseHandled
<1>2. CASE GetContradictions(c)
  <2> DEFINE ks == ContradictionsOf(Request(c).kind, Request(c).slug, Level(c))
  <2>1. PICK body : /\ body = [items |-> {mapContradiction(contradictionMessage(k)) : k \in ks}]
                    /\ Shows(c, "contradictions", body)
    BY <1>2 DEF GetContradictions
  <2>2. \A k \in ks : MaySee(c, disputes[k].a) /\ MaySee(c, disputes[k].b)
    BY DEF ContradictionsOf, VisibleFact, MaySee
  <2>3. \A k : /\ mapContradiction(contradictionMessage(k)).aStatement = disputes[k].a
               /\ mapContradiction(contradictionMessage(k)).bStatement = disputes[k].b
    BY DEF mapContradiction, contradictionMessage
  <2>4. \A item \in body.items : MaySee(c, item.aStatement) /\ MaySee(c, item.bStatement)
    BY <2>1, <2>2, <2>3
  <2>5. Fits(c, body)
    BY <2>1, <2>4 DEF Fits, Shows, Handling
  <2> QED BY <2>1, <2>5, FittingFits, FailuresFit DEF Shows
<1>3. ~Showing(c) \/ GetContradictions(c)
  BY DEF BrowseStep, GetCoverage, dictionaryUnits, dictionarySynonyms, Shows, Reads, Handling, Showing
<1> QED BY <1>1, <1>2, <1>3

(* The queue looks with the context of the caller.                            *)
LEMMA DecisionsFit ==
  ASSUME AuditInv, AccessInv, NEW c \in Players, DecisionStep(c)
  PROVE  FitAnswer(c)
<1>1. CASE ~Showing(c)
  BY <1>1, OthersFit, DecisionsHandled
<1>2. CASE reviewQueue(c)
  <2>1. pc[c] = "handle" /\ Request(c).route = "queue"
    BY <1>2 DEF reviewQueue, Handling
  <2>2. caller[c] # None /\ normalizeRLS(caller[c]) = Level(c)
    BY <2>1, CallerContext DEF AuditInv, Traced
  <2>3. ASSUME Request(c).kind \in {"facts", "orphans"} PROVE \A f \in Waiting(c) : MaySee(c, f)
    BY <2>2, <2>3 DEF Waiting, Suspicious, Touches, MaySee
  <2>4. ASSUME NEW items \in SUBSET Waiting(c), Respond(c, 200, [items |-> items]) PROVE FitAnswer(c)
    <3>1. Fits(c, [items |-> items])
      BY <2>1, <2>3 DEF Fits
    <3> QED BY <2>4, <3>1, FittingFits
  <2>5. (\E code \in {400, 500} : \E body : Respond(c, code, body)) => FitAnswer(c)
    BY ProblemsFit DEF Codes
  <2>6. \/ Problem(c, 400) \/ Problem(c, 500)
        \/ \E items \in SUBSET Waiting(c) : Respond(c, 200, [items |-> items])
    BY <1>2 DEF reviewQueue
  <2>7. Problem(c, 400) \/ Problem(c, 500) => FitAnswer(c)
    BY <2>5 DEF Problem
  <2> QED BY <2>4, <2>6, <2>7
<1>3. ~Showing(c) \/ reviewQueue(c)
  BY DEF DecisionStep, UpdateFactStatus, updateEntityStatus, MergeEntities, DecideContradiction, Handling, Showing
<1> QED BY <1>1, <1>2, <1>3

LEMMA ActsFit == ASSUME AuditInv, AccessInv, PackInv, NEW c \in Players, Acts(c) PROVE FitAnswer(c)
<1>1. CASE DecisionStep(c)
  BY <1>1, DecisionsFit
<1>2. CASE AskStep(c)
  <2>1. ~Showing(c) \/ UNCHANGED gateway
    BY <1>2 DEF AskStep, queryParse, askHandler, planAndTerms, cacheGet, augmentFacts, searchFailed, augmentChunks,
                runSynthesis, emitDelta, cachePut, emitDone, askAborted, Going, Asking, Handling, Showing
  <2>2. UNCHANGED gateway => FitAnswer(c)
    BY DEF FitAnswer, gateway
  <2> QED BY <1>2, <2>1, <2>2, OthersFit, QuestionsHandled
<1> QED BY <1>1, <1>2, DocumentsFit, SearchesFit, ListsFit DEF Acts

LEMMA DocsStep == ASSUME HoldInv, [Next]_vars PROVE DocsKept
<1>1. CASE UNCHANGED uploads
  BY <1>1 DEF DocsKept, uploads
<1>2. ASSUME NEW c \in Players, Acts(c) PROVE DocsKept
  <2>1. UNCHANGED uploads \/ UploadStep(c)
    BY <1>2 DEF Acts
  <2> QED BY <1>1, <2>1, UploadKeepsDocs
<1>3. CASE Background
  <2>1. UNCHANGED uploads \/ ExtractionNext
    BY <1>3 DEF Background, vars
  <2> QED BY <1>1, <2>1, CommitKeepsDocs
<1> QED BY <1>1, <1>2, <1>3, Steps

LEMMA FitsStand ==
  ASSUME FactsStand, DisputesStand, DocsKept, scene' = scene, NEW c, caller'[c] = caller[c]
  PROVE  \A body : Fits(c, body) => Fits(c, body)'
<1>1. Level(c)' = Level(c) /\ Request(c)' = Request(c)
  BY DEF Level, Request
<1>2. \A d : MayRead(c, d) => MayRead(c, d)'
  BY <1>1 DEF MayRead, DocsKept
<1> QED BY <1>1, <1>2, PacksStand, Zenon DEF Fits

LEMMA ShownStands ==
  ASSUME FactsStand, DisputesStand, DocsKept, scene' = scene, NEW c, caller'[c] = caller[c],
         NEW body, Fits(c, body), reply'[c].body = body
  PROVE  Shown(c)'
<1>1. Fits(c, body)'
  BY FitsStand
<1>2. (reply[c].body)' = body
  OBVIOUS
<1>3. Fits(c, reply[c].body)'
  BY <1>1, <1>2
<1> QED BY <1>3 DEF Shown

LEMMA AccessInit == Init => AccessInv
BY DEF Init, GatewayInit, AccessInv, Unanswered

LEMMA VerifiedIsPrincipal ==
  ASSUME NEW t, NEW issuerUp, Verify(t, issuerUp) # None
  PROVE  t \in DOMAIN Definition /\ Verify(t, issuerUp) = PrincipalOf(t)
BY DEF Verify, Accepts

LEMMA AccessNext ==
  ASSUME DrainInv, AuditInv, HoldInv, RowsInv, PackInv, AccessInv, scene \in Scenes, [Next]_vars
  PROVE  AccessInv'
<1>0. FactsStand /\ DisputesStand /\ DocsKept /\ scene' = scene /\ Players' = Players
      /\ \A c : Request(c)' = Request(c)
  BY RowsStep, DocsStep, SceneStays DEF Players, Request
<1> DEFINE Good(c) == /\ caller[c] # None => /\ Request(c).token \in DOMAIN Definition
                                             /\ caller[c] = PrincipalOf(Request(c).token)
                      /\ reply[c].code = 200 => caller[c] # None /\ Shown(c)
<1>1. ASSUME NEW c \in Players, caller'[c] = caller[c], reply'[c] = reply[c] \/ reply'[c].code # 200
      PROVE  Good(c)'
  <2>1. Good(c)
    BY DEF AccessInv
  <2>2. reply'[c].code = 200 => caller[c] # None /\ Shown(c)'
    <3>1. CASE reply'[c].code = 200
      <4>1. reply'[c] = reply[c] /\ caller[c] # None /\ Fits(c, reply[c].body)
        BY <1>1, <2>1, <3>1 DEF Shown
      <4>2. PICK body : body = reply[c].body
        OBVIOUS
      <4> QED BY <1>0, <1>1, <4>1, <4>2, ShownStands
    <3> QED BY <3>1
  <2> QED BY <1>0, <1>1, <2>1, <2>2
<1>2. ASSUME NEW c \in Players, Acts(c) PROVE AccessInv'
  <2>1. UNCHANGED caller
    BY <1>2, ActsLeaveCallers
  <2>2. \A d \in Players \ {c} : reply'[d] = reply[d]
    BY <1>2, ActsAreHandled DEF Handled, Silent, Answers, Reviews, Respond, DrainInv
  <2>3. Good(c)'
    <3>1. CASE reply'[c] = reply[c] \/ reply'[c].code # 200
      BY <1>1, <2>1, <3>1
    <3>2. CASE reply'[c] # reply[c] /\ reply'[c].code = 200
      <4>1. pc[c] = "handle"
        BY <1>2, <3>2, ActsAreHandled DEF Handled, Silent, Answers, Reviews, Handling
      <4>2. caller[c] # None
        BY <4>1 DEF AuditInv, Traced
      <4>3. PICK body : Fits(c, body) /\ reply'[c] = [code |-> 200, body |-> body]
        <5>0. PICK code \in Codes : \E body : Respond(c, code, body) /\ (code = 200 => Fits(c, body))
          BY <1>2, <3>2, ActsFit DEF FitAnswer
        <5>1. PICK body : Respond(c, code, body) /\ (code = 200 => Fits(c, body))
          BY <5>0
        <5>2. reply'[c] = Unanswered \/ reply'[c] = [code |-> code, body |-> body]
          BY <5>1 DEF Respond, DrainInv
        <5> QED BY <3>2, <5>1, <5>2 DEF Unanswered
      <4>4. Shown(c)'
        BY <1>0, <2>1, <4>3, ShownStands
      <4>5. Good(c)
        BY DEF AccessInv
      <4> QED BY <1>0, <2>1, <4>2, <4>4, <4>5
    <3> QED BY <3>1, <3>2
  <2>4. \A d \in Players : Good(d)'
    <3> HIDE DEF Good
    <3> QED BY <1>1, <2>1, <2>2, <2>3
  <2> QED BY <1>0, <2>4 DEF AccessInv
<1>3. ASSUME NEW c \in Players, authorize(c) PROVE AccessInv'
  <2>1. \A d \in Players \ {c} : caller'[d] = caller[d] /\ reply'[d] = reply[d]
    BY <1>3 DEF authorize, Problem, Respond, DrainInv
  <2>2. CASE caller' = caller
    <3>1. reply'[c] = reply[c] \/ reply'[c].code # 200
      BY <1>3, <2>2 DEF authorize, Problem, Respond, DrainInv, Unanswered
    <3> HIDE DEF Good
    <3>2. \A d \in Players : Good(d)'
      BY <1>1, <2>1, <2>2, <3>1
    <3> QED BY <1>0, <3>2 DEF AccessInv, Good
  <2>3. CASE caller' # caller
    <3>1. PICK issuerUp \in BOOLEAN :
            /\ Verify(Request(c).token, issuerUp) # None
            /\ caller' = [caller EXCEPT ![c] = Verify(Request(c).token, issuerUp)] /\ reply' = reply
      BY <1>3, <2>3 DEF authorize, Problem, Respond
    <3>2. Request(c).token \in DOMAIN Definition /\ caller'[c] = PrincipalOf(Request(c).token)
      BY <3>1, VerifiedIsPrincipal DEF DrainInv
    <3>3. caller[c] = None
      BY <1>3 DEF authorize, DrainInv
    <3>4. reply'[c].code # 200
      BY <3>1, <3>3 DEF AccessInv
    <3>5. Good(c)'
      BY <1>0, <3>2, <3>4
    <3> HIDE DEF Good
    <3>6. \A d \in Players : Good(d)'
      BY <1>1, <2>1, <3>1, <3>5
    <3> QED BY <1>0, <3>6 DEF AccessInv, Good
  <2> QED BY <2>2, <2>3
<1>4. CASE UNCHANGED <<caller, reply>>
  <2> HIDE DEF Good
  <2>1. \A d \in Players : Good(d)'
    BY <1>1, <1>4
  <2> QED BY <1>0, <2>1 DEF AccessInv, Good
<1>5. CASE GatewayNext
  <2>1. UNCHANGED <<caller, reply>> \/ \E c \in Players : authorize(c)
    BY <1>5 DEF GatewayNext, emitAuditEvent, recordAudit, HangUp, RuntimeStep
  <2> QED BY <1>3, <1>4, <2>1
<1>6. CASE Background
  BY <1>4, <1>6, BackgroundIsSilent DEF Silent
<1> QED BY <1>2, <1>5, <1>6, Steps

-----------------------------------------------------------------------------
(* The stream of a question: what has been sent at each step of Ask.          *)
AskFields == {"step", "plan", "terms", "pack", "answer", "part", "cached"}

NameAt(i) ==
  IF i = 1 THEN "plan" ELSE IF i = 2 THEN "evidence" ELSE IF i <= Deltas + 2 THEN "answer.delta" ELSE "answer.done"

InPlace(e, i) == e.event = NameAt(i) /\ (e.event = "answer.delta" => e.part = i - 2)

Sent(step, part) ==
  CASE step \in {"search", "chunks"} -> 1
    [] step = "synthesis" -> 2
    [] step = "deltas" -> part + 1
    [] step \in {"put", "done"} -> Deltas + 2
    [] OTHER -> 0

Sending(c) ==
  /\ asks[c].step \in {"new", "parsing", "lookup", "search", "chunks", "synthesis"} => asks[c].part = 1
  /\ asks[c].step = "deltas" => asks[c].part \in 1..Deltas
  /\ Len(stream[c]) = Sent(asks[c].step, asks[c].part)
  /\ \A i \in 1..Len(stream[c]) : InPlace(stream[c][i], i)

Ended(c) ==
  LET n == Len(stream[c]) IN
  /\ n \in 1..Deltas + 3
  /\ \A i \in 1..n - 1 : InPlace(stream[c][i], i)
  /\ stream[c][n].event = "error" \/ (n = Deltas + 3 /\ InPlace(stream[c][n], n))

StreamInv ==
  /\ asks = [c \in Players |-> asks[c]] /\ stream = [c \in Players |-> stream[c]]
  /\ \A c \in Players :
       /\ DOMAIN asks[c] = AskFields /\ asks[c].step \in AskSteps
       /\ \E S : stream[c] \in Seq(S)
       /\ asks[c].step # "end" => Sending(c)
       /\ (Asked(c) /\ reply[c].code = 200) => asks[c].step = "end" /\ Ended(c)

(* A step of c's question: where it goes and what it has sent then.           *)
Proceeds(c, step, part) ==
  /\ asks' = [d \in Players |-> asks'[d]] /\ \A d \in Players \ {c} : asks'[d] = asks[d]
  /\ DOMAIN asks'[c] = AskFields /\ asks'[c].step = step /\ asks'[c].part = part

Grown(c, s) ==
  /\ stream' = [d \in Players |-> stream'[d]] /\ \A d \in Players \ {c} : stream'[d] = stream[d]
  /\ stream'[c] = s

Streams(c) ==
  /\ asks' = [d \in Players |-> asks'[d]] /\ stream' = [d \in Players |-> stream'[d]]
  /\ \A d \in Players \ {c} : asks'[d] = asks[d] /\ stream'[d] = stream[d]
  /\ DOMAIN asks'[c] = AskFields /\ asks'[c].step \in AskSteps
  /\ \E S : stream'[c] \in Seq(S)
  /\ asks'[c].step # "end" => Sending(c)'
  /\ (Asked(c) /\ reply'[c].code = 200) => asks'[c].step = "end" /\ Ended(c)'

LEMMA GoesTo ==
  ASSUME StreamInv, NEW c \in Players, NEW fields, Goes(c, fields)
  PROVE  Proceeds(c, IF "step" \in DOMAIN fields THEN fields.step ELSE asks[c].step,
                  IF "part" \in DOMAIN fields THEN fields.part ELSE asks[c].part)
<1>1. asks' = [asks EXCEPT ![c] = [k \in AskFields |-> IF k \in DOMAIN fields THEN fields[k] ELSE asks[c][k]]]
  BY DEF Goes, StreamInv
<1> QED BY <1>1 DEF StreamInv, Proceeds, AskFields

LEMMA StaysGrown ==
  ASSUME StreamInv, NEW c \in Players, UNCHANGED stream
  PROVE  Grown(c, stream[c])
BY DEF StreamInv, Grown

LEMMA EmitGrows ==
  ASSUME StreamInv, NEW c \in Players, NEW events, Emit(c, events)
  PROVE  Grown(c, stream[c] \o events)
BY DEF StreamInv, Grown, Emit

Longer(s, e, t) ==
  /\ Len(s) \in Nat /\ Len(t) = Len(s) + 1
  /\ \A i \in 1..Len(s) : t[i] = s[i]
  /\ t[Len(s) + 1] = e
  /\ \E T : t \in Seq(T)

LEMMA OneMore == ASSUME NEW S, NEW s \in Seq(S), NEW e PROVE Longer(s, e, s \o <<e>>)
<1>1. PICK T : T = S \cup {e}
  OBVIOUS
<1>2. s \in Seq(T) /\ <<e>> \in Seq(T) /\ Len(<<e>>) = 1 /\ <<e>>[1] = e
  BY <1>1, SeqMonotonic
<1>3. Len(s) \in Nat
  BY LenProperties
<1> QED BY <1>2, <1>3, ConcatProperties DEF Longer

LEMMA TwoMore ==
  ASSUME NEW S, NEW s \in Seq(S), NEW e, NEW f
  PROVE  \E t : Longer(s, e, t) /\ Longer(t, f, s \o <<e, f>>)
<1>1. PICK T : T = S \cup {e, f}
  OBVIOUS
<1>2. s \in Seq(T) /\ <<e>> \in Seq(T) /\ <<f>> \in Seq(T) /\ <<e, f>> = <<e>> \o <<f>>
  <2>1. s \in Seq(T) /\ <<e>> \in Seq(T) /\ <<f>> \in Seq(T) /\ <<e, f>> \in Seq(T)
    BY <1>1, SeqMonotonic
  <2>2. PICK t : t = <<e>> \o <<f>>
    OBVIOUS
  <2>3. t \in Seq(T) /\ Len(t) = 2 /\ t[1] = e /\ t[2] = f
    BY <2>1, <2>2, ConcatProperties
  <2>4. Len(<<e, f>>) = 2 /\ \A i \in 1..2 : <<e, f>>[i] = t[i]
    BY <2>3
  <2> QED BY <2>1, <2>2, <2>3, <2>4, SeqEqual
<1>3. s \o <<e, f>> = (s \o <<e>>) \o <<f>> /\ s \o <<e>> \in Seq(T)
  BY <1>2, ConcatAssociative, ConcatProperties
<1> QED BY <1>2, <1>3, OneMore

LEMMA StreamInit == Init => StreamInv
BY DeltasAssumption DEF Init, GatewayInit, AskInit, StreamInv, Sending, Sent, AskFields, AskSteps, Unanswered

(* The ways a question goes on: it has sent what its next step expects; or it *)
(* ends, with an answer that is no answer, an error, or the last event.       *)
LEMMA GoesOn ==
  ASSUME StreamInv, NEW c \in Players, NEW step \in AskSteps \ {"end"}, NEW part, NEW s,
         Proceeds(c, step, part), Grown(c, s), \E S : s \in Seq(S), ~Asked(c) \/ reply'[c].code # 200,
         step \in {"new", "parsing", "lookup", "search", "chunks", "synthesis"} => part = 1,
         step = "deltas" => part \in 1..Deltas,
         Len(s) = Sent(step, part),
         \A i \in 1..Len(s) : InPlace(s[i], i)
  PROVE  Streams(c)
<1>1. asks'[c].step = step /\ asks'[c].part = part /\ stream'[c] = s
  BY DEF Proceeds, Grown
<1>2. Sending(c)'
  BY <1>1 DEF Sending, Sent, InPlace, NameAt
<1> QED BY <1>1, <1>2 DEF Proceeds, Grown, Streams

LEMMA Ends ==
  ASSUME StreamInv, NEW c \in Players, NEW part, NEW s,
         Proceeds(c, "end", part), Grown(c, s), \E S : s \in Seq(S), reply'[c].code = 200 => Ended(c)'
  PROVE  Streams(c)
BY DEF Proceeds, Grown, Streams, AskSteps

LEMMA SentIs ==
  ASSUME StreamInv, NEW c \in Players, asks[c].step # "end"
  PROVE  /\ Len(stream[c]) = Sent(asks[c].step, asks[c].part)
         /\ Len(stream[c]) \in 0..Deltas + 2
         /\ \A i \in 1..Len(stream[c]) : InPlace(stream[c][i], i)
<1>1. Sending(c) /\ asks[c].step \in AskSteps
  BY DEF StreamInv
<1> QED BY <1>1, DeltasAssumption DEF Sending, Sent, AskSteps

LEMMA EndsWith ==
  ASSUME StreamInv, NEW c \in Players, asks[c].step # "end", NEW e, NEW part,
         Proceeds(c, "end", part), Grown(c, stream[c] \o <<e>>),
         e.event = "error" \/ (Len(stream[c]) = Deltas + 2 /\ e.event = "answer.done")
  PROVE  Streams(c)
<1>1. PICK S : stream[c] \in Seq(S)
  BY DEF StreamInv
<1>2. PICK n : n = Len(stream[c])
  OBVIOUS
<1>3. n \in 0..Deltas + 2 /\ \A i \in 1..n : InPlace(stream[c][i], i)
  BY <1>2, SentIs
<1>4. /\ Len(stream'[c]) = n + 1 /\ stream'[c][n + 1] = e
      /\ \A i \in 1..n : stream'[c][i] = stream[c][i]
      /\ \E T : stream'[c] \in Seq(T)
  <2>1. stream'[c] = stream[c] \o <<e>>
    BY DEF Grown
  <2>2. Longer(stream[c], e, stream'[c])
    BY <1>1, <2>1, OneMore
  <2> QED BY <1>2, <2>2 DEF Longer
<1>5. e.event = "error" \/ (n + 1 = Deltas + 3 /\ InPlace(e, n + 1))
  <2>1. n = Deltas + 2 => NameAt(n + 1) = "answer.done"
    BY DeltasAssumption DEF NameAt
  <2> QED BY <1>2, <2>1, DeltasAssumption DEF InPlace
<1>6. Ended(c)'
  <2>1. n + 1 \in 1..Deltas + 3 /\ (n + 1) - 1 = n
    BY <1>3, DeltasAssumption
  <2>2. \A i \in 1..n : InPlace(stream'[c][i], i)
    BY <1>3, <1>4
  <2> QED BY <1>4, <1>5, <2>1, <2>2 DEF Ended, InPlace, NameAt
<1>7. \E T : stream[c] \o <<e>> \in Seq(T)
  BY <1>4 DEF Grown
<1> QED BY <1>6, <1>7, Ends

LEMMA ResponseEnds == ASSUME NEW c \in Players, DrainInv, NEW code, NEW body, Respond(c, code, body)
                      PROVE  reply'[c].code \in {code, Unanswered.code}
BY DEF Respond, DrainInv, Unanswered

LEMMA Quietly ==
  ASSUME StreamInv, NEW c \in Players, asks[c].step # "end", NEW step \in AskSteps \ {"end"}, NEW part,
         Proceeds(c, step, part), UNCHANGED stream, ~Asked(c) \/ reply'[c].code # 200,
         step \in {"new", "parsing", "lookup", "search", "chunks", "synthesis"} => part = 1,
         step = "deltas" => part \in 1..Deltas,
         Sent(step, part) = Sent(asks[c].step, asks[c].part)
  PROVE  Streams(c)
<1>1. Grown(c, stream[c]) /\ \E S : stream[c] \in Seq(S)
  BY StaysGrown DEF StreamInv
<1>2. PICK s : s = stream[c]
  OBVIOUS
<1>3. Len(s) = Sent(step, part) /\ \A i \in 1..Len(s) : InPlace(s[i], i)
  BY <1>2, SentIs
<1>4. Grown(c, s) /\ \E S : s \in Seq(S)
  BY <1>1, <1>2
<1> QED BY <1>3, <1>4, GoesOn

LEMMA Sends ==
  ASSUME StreamInv, NEW c \in Players, asks[c].step # "end", NEW step \in AskSteps \ {"end"}, NEW part,
         Proceeds(c, step, part), NEW e, Emit(c, <<e>>), ~Asked(c) \/ reply'[c].code # 200,
         step \in {"new", "parsing", "lookup", "search", "chunks", "synthesis"} => part = 1,
         step = "deltas" => part \in 1..Deltas,
         Sent(step, part) = Len(stream[c]) + 1, InPlace(e, Len(stream[c]) + 1)
  PROVE  Streams(c)
<1>1. PICK S : stream[c] \in Seq(S)
  BY DEF StreamInv
<1>2. PICK s, n : s = stream[c] /\ n = Len(stream[c])
  OBVIOUS
<1>3. n \in Nat /\ \A i \in 1..n : InPlace(s[i], i)
  BY <1>2, SentIs, DeltasAssumption
<1>4. PICK t : t = s \o <<e>>
  OBVIOUS
<1>5. Longer(s, e, t)
  BY <1>1, <1>2, <1>4, OneMore
<1>6. Grown(c, t)
  BY <1>2, <1>4, EmitGrows
<1>7. Len(t) = Sent(step, part) /\ \A i \in 1..Len(t) : InPlace(t[i], i)
  BY <1>2, <1>3, <1>5 DEF InPlace, Longer
<1>8. \E T : t \in Seq(T)
  BY <1>5 DEF Longer
<1> QED BY <1>6, <1>7, <1>8, GoesOn

LEMMA SendsTwo ==
  ASSUME StreamInv, NEW c \in Players, asks[c].step = "lookup", NEW part,
         Proceeds(c, "deltas", part), part = 1, NEW e, NEW f, Emit(c, <<e, f>>), ~Asked(c) \/ reply'[c].code # 200,
         e.event = "plan", f.event = "evidence"
  PROVE  Streams(c)
<1>1. PICK S : stream[c] \in Seq(S)
  BY DEF StreamInv
<1>2. PICK s : s = stream[c]
  OBVIOUS
<1>3. Len(s) = 0
  BY <1>2, SentIs DEF Sent
<1>4. PICK t : t = s \o <<e, f>>
  OBVIOUS
<1>5. PICK u : Longer(s, e, u) /\ Longer(u, f, t)
  BY <1>1, <1>2, <1>4, TwoMore
<1>6. Grown(c, t)
  BY <1>2, <1>4, EmitGrows
<1>7. Len(t) = Sent("deltas", part) /\ \A i \in 1..Len(t) : InPlace(t[i], i)
  BY <1>3, <1>5, DeltasAssumption DEF InPlace, Sent, NameAt, Longer
<1>8. \E T : t \in Seq(T)
  BY <1>5 DEF Longer
<1> QED BY <1>6, <1>7, <1>8, DeltasAssumption, GoesOn DEF AskSteps

LEMMA QuestionStreams ==
  ASSUME StreamInv, DrainInv, AuditInv, NEW c \in Players, AskStep(c)
  PROVE  Streams(c)
<1> USE DeltasAssumption
<1>0. /\ asks[c].step # "end" => Sending(c)
      /\ pc[c] = "handle" => reply[c].code # 200
      /\ \A code, body : Respond(c, code, body) => reply'[c].code \in {code, Unanswered.code}
  BY ResponseEnds DEF StreamInv, AuditInv, Traced
<1>1. CASE queryParse(c)
  <2>1. ~Asked(c) /\ UNCHANGED <<asks, stream>>
    BY <1>1 DEF queryParse, Handling, Asked, answering
  <2>2. Sending(c) = Sending(c)'
    BY <2>1 DEF Sending, Sent, InPlace, NameAt
  <2> QED BY <1>0, <2>1, <2>2 DEF Streams, StreamInv
<1>2. CASE askHandler(c)
  <2>1. asks[c].step = "new" /\ pc[c] = "handle" /\ UNCHANGED stream /\ asks[c].part = 1
    BY <1>0, <1>2 DEF askHandler, Asking, Sending
  <2>2. CASE UNCHANGED asks /\ Problem(c, 400)
    <3>1. Proceeds(c, "new", 1)
      BY <2>1, <2>2 DEF Proceeds, StreamInv
    <3>2. reply'[c].code # 200
      BY <1>0, <2>2 DEF Problem, Unanswered
    <3> QED BY <2>1, <3>1, <3>2, Quietly DEF AskSteps
  <2>3. ASSUME NEW fields, Goes(c, fields), DOMAIN fields \cap {"step", "part"} = {"step"},
               fields.step \in {"parsing", "lookup"}, UNCHANGED gateway
        PROVE  Streams(c)
    <3>1. Proceeds(c, fields.step, 1)
      BY <2>1, <2>3, GoesTo
    <3>2. reply'[c].code # 200
      BY <1>0, <2>1, <2>3 DEF gateway
    <3> QED BY <2>1, <2>3, <3>1, <3>2, Quietly DEF AskSteps, Sent
  <2> QED BY <1>2, <2>2, <2>3 DEF askHandler, PlannedByRules, Planned
<1>3. CASE planAndTerms(c)
  <2>1. asks[c].step = "parsing" /\ pc[c] = "handle" /\ UNCHANGED <<stream, gateway>> /\ asks[c].part = 1
    BY <1>0, <1>3 DEF planAndTerms, Going, Asking, Sending
  <2>2. \E plan, terms : Planned(c, plan, terms)
    BY <1>3 DEF planAndTerms, PlannedByRules
  <2>3. Proceeds(c, "lookup", 1)
    BY <2>1, <2>2, GoesTo DEF Planned
  <2>4. reply'[c].code # 200
    BY <1>0, <2>1 DEF gateway
  <2> QED BY <2>1, <2>3, <2>4, Quietly DEF AskSteps, Sent
<1>4. CASE cacheGet(c)
  <2>1. asks[c].step = "lookup" /\ pc[c] = "handle" /\ UNCHANGED gateway /\ asks[c].part = 1
    BY <1>0, <1>4 DEF cacheGet, Going, Asking, Sending
  <2>2. reply'[c].code # 200
    BY <1>0, <2>1 DEF gateway
  <2>3. ASSUME NEW fields, NEW e, NEW f, Goes(c, fields), Emit(c, <<e, f>>),
               DOMAIN fields \cap {"step", "part"} = {"step"}, fields.step = "deltas",
               e.event = "plan", f.event = "evidence"
        PROVE  Streams(c)
    <3>1. Proceeds(c, "deltas", 1)
      BY <2>1, <2>3, GoesTo
    <3> QED BY <2>1, <2>2, <2>3, <3>1, SendsTwo
  <2>4. ASSUME NEW e, Goes(c, [step |-> "search"]), Emit(c, <<e>>), e.event = "plan"
        PROVE  Streams(c)
    <3>1. Proceeds(c, "search", 1)
      BY <2>1, <2>4, GoesTo
    <3>2. Len(stream[c]) = 0
      BY <2>1, SentIs DEF Sent
    <3>3. Sent("search", 1) = Len(stream[c]) + 1 /\ InPlace(e, Len(stream[c]) + 1)
      BY <2>4, <3>2 DEF Sent, InPlace, NameAt
    <3> QED BY <2>1, <2>2, <2>4, <3>1, <3>3, Sends DEF AskSteps
  <2> QED BY <1>4, <2>3, <2>4 DEF cacheGet
<1>5. CASE augmentFacts(c)
  <2>1. asks[c].step = "search" /\ pc[c] = "handle" /\ UNCHANGED <<stream, gateway>> /\ asks[c].part = 1
    BY <1>0, <1>5 DEF augmentFacts, Going, Asking, Sending
  <2>2. PICK fields : Goes(c, fields) /\ DOMAIN fields \cap {"step", "part"} = {"step"} /\ fields.step = "chunks"
    BY <1>5 DEF augmentFacts
  <2>3. Proceeds(c, "chunks", 1)
    BY <2>1, <2>2, GoesTo
  <2>4. reply'[c].code # 200
    BY <1>0, <2>1 DEF gateway
  <2> QED BY <2>1, <2>3, <2>4, Quietly DEF AskSteps, Sent
<1>6. CASE searchFailed(c)
  <2>1. asks[c].step = "search" /\ Goes(c, [step |-> "end"])
    BY <1>6 DEF searchFailed, Going, Asking, writeSSEProblem, EndStream
  <2>2. PICK e : Emit(c, <<e>>) /\ e.event = "error"
    BY <1>6 DEF searchFailed, writeSSEProblem
  <2>3. Proceeds(c, "end", asks[c].part)
    BY <2>1, GoesTo
  <2>4. Grown(c, stream[c] \o <<e>>)
    BY <2>2, EmitGrows
  <2> QED BY <2>1, <2>2, <2>3, <2>4, EndsWith
<1>7. CASE augmentChunks(c)
  <2>1. asks[c].step = "chunks" /\ pc[c] = "handle" /\ UNCHANGED gateway /\ asks[c].part = 1
    BY <1>0, <1>7 DEF augmentChunks, Going, Asking, Sending
  <2>2. reply'[c].code # 200
    BY <1>0, <2>1 DEF gateway
  <2>3. PICK pack : /\ Goes(c, [step |-> "synthesis", pack |-> pack])
                    /\ Emit(c, <<[event |-> "evidence", pack |-> mapEvidence(pack)]>>)
    BY <1>7 DEF augmentChunks
  <2>4. Proceeds(c, "synthesis", 1)
    BY <2>1, <2>3, GoesTo
  <2>5. Len(stream[c]) = 1
    BY <2>1, SentIs DEF Sent
  <2>6. PICK e : e = [event |-> "evidence", pack |-> mapEvidence(pack)]
    OBVIOUS
  <2>7. Sent("synthesis", 1) = Len(stream[c]) + 1 /\ InPlace(e, Len(stream[c]) + 1)
    BY <2>5, <2>6 DEF Sent, InPlace, NameAt
  <2> QED BY <2>1, <2>2, <2>3, <2>4, <2>6, <2>7, Sends DEF AskSteps
<1>8. CASE runSynthesis(c)
  <2>1. asks[c].step = "synthesis" /\ pc[c] = "handle" /\ UNCHANGED <<stream, gateway>>
    BY <1>8 DEF runSynthesis, Going, Asking
  <2>2. PICK answer : Goes(c, [step |-> "deltas", part |-> 1, answer |-> answer])
    BY <1>8 DEF runSynthesis
  <2>3. Proceeds(c, "deltas", 1)
    BY <2>2, GoesTo
  <2>4. reply'[c].code # 200
    BY <1>0, <2>1 DEF gateway
  <2> QED BY <2>1, <2>3, <2>4, Quietly DEF AskSteps, Sent
<1>9. CASE emitDelta(c)
  <2>1. asks[c].step = "deltas" /\ pc[c] = "handle" /\ UNCHANGED gateway /\ asks[c].part \in 1..Deltas
    BY <1>0, <1>9 DEF emitDelta, Going, Asking, Sending
  <2>2. PICK step, part : /\ Goes(c, [part |-> part, step |-> step]) /\ part = asks[c].part + 1
                          /\ step = IF asks[c].part < Deltas THEN "deltas" ELSE IF asks[c].cached THEN "done" ELSE "put"
    BY <1>9 DEF emitDelta
  <2>3. PICK e : Emit(c, <<e>>) /\ e.event = "answer.delta" /\ e.part = asks[c].part
    BY <1>9 DEF emitDelta
  <2>4. Proceeds(c, step, part)
    BY <2>2, GoesTo
  <2>5. reply'[c].code # 200
    BY <1>0, <2>1 DEF gateway
  <2>6. Len(stream[c]) = part
    BY <2>1, <2>2, SentIs DEF Sent
  <2>7. Sent(step, part) = part + 1
    BY <2>1, <2>2 DEF Sent
  <2>8. InPlace(e, part + 1)
    BY <2>1, <2>2, <2>3 DEF InPlace, NameAt
  <2> QED BY <2>1, <2>2, <2>3, <2>4, <2>5, <2>6, <2>7, <2>8, Sends DEF AskSteps
<1>10. CASE cachePut(c)
  <2>1. asks[c].step = "put" /\ pc[c] = "handle" /\ UNCHANGED <<stream, gateway>> /\ Goes(c, [step |-> "done"])
    BY <1>10 DEF cachePut, Going, Asking
  <2>2. Proceeds(c, "done", asks[c].part)
    BY <2>1, GoesTo
  <2>3. reply'[c].code # 200
    BY <1>0, <2>1 DEF gateway
  <2> QED BY <2>1, <2>2, <2>3, Quietly DEF AskSteps, Sent
<1>11. CASE emitDone(c)
  <2>1. asks[c].step = "done" /\ Goes(c, [step |-> "end"])
    BY <1>11 DEF emitDone, Going, Asking, EndStream
  <2>2. PICK e : Emit(c, <<e>>) /\ e.event = "answer.done"
    BY <1>11 DEF emitDone
  <2>3. Proceeds(c, "end", asks[c].part)
    BY <2>1, GoesTo
  <2>4. Grown(c, stream[c] \o <<e>>)
    BY <2>2, EmitGrows
  <2>5. Len(stream[c]) = Deltas + 2
    BY <2>1, SentIs DEF Sent
  <2> QED BY <2>1, <2>2, <2>3, <2>4, <2>5, EndsWith
<1>12. CASE askAborted(c)
  <2>1. asks[c].step # "end" /\ Goes(c, [step |-> "end"])
    BY <1>12 DEF askAborted, writeSSEProblem, EndStream
  <2>2. Proceeds(c, "end", asks[c].part)
    BY <2>1, GoesTo
  <2>3. CASE c \in left /\ EndStream(c) /\ UNCHANGED stream
    <3>1. reply'[c].code # 200
      BY <2>3 DEF EndStream, Respond, DrainInv, Unanswered
    <3>2. Grown(c, stream[c]) /\ \E S : stream[c] \in Seq(S)
      BY <2>3, StaysGrown DEF StreamInv
    <3> QED BY <2>2, <3>1, <3>2, Ends
  <2>4. CASE writeSSEProblem(c, "Unavailable")
    <3>1. PICK e : Emit(c, <<e>>) /\ e.event = "error"
      BY <2>4 DEF writeSSEProblem
    <3>2. Grown(c, stream[c] \o <<e>>)
      BY <3>1, EmitGrows
    <3> QED BY <2>1, <2>2, <3>1, <3>2, EndsWith
  <2> QED BY <1>12, <2>3, <2>4 DEF askAborted
<1> QED BY <1>1, <1>2, <1>3, <1>4, <1>5, <1>6, <1>7, <1>8, <1>9, <1>10, <1>11, <1>12 DEF AskStep

(* Who asks is answered by Ask alone.                                         *)
LEMMA OthersAnswer ==
  ASSUME NEW c \in Players, UploadStep(c) \/ DecisionStep(c) \/ SearchStep(c) \/ BrowseStep(c)
  PROVE  UNCHANGED reply \/ ~Asked(c)
<1>1. CASE UploadStep(c)
  BY <1>1 DEF UploadStep, collectParts, uploadDocument, FindIDBySHA256, Register, registerDocumentResponse,
              GetStatus, ListDocuments, documentFile, At, Handling, Asked
<1>2. CASE DecisionStep(c)
  BY <1>2 DEF DecisionStep, UpdateFactStatus, updateEntityStatus, MergeEntities, DecideContradiction,
              reviewQueue, Handling, Asked
<1>3. CASE SearchStep(c)
  BY <1>3 DEF SearchStep, searchHandler, ListEntities, GetEntity, ListEntityFacts, EntityGraph,
              ListExperts, ListExperiments, Shows, Handling, Asked, gateway
<1>4. CASE BrowseStep(c)
  BY <1>4 DEF BrowseStep, GetCoverage, GetContradictions, dictionaryUnits, dictionarySynonyms, Shows, Reads,
              Handling, Asked
<1> QED BY <1>1, <1>2, <1>3, <1>4

LEMMA RepliesStand ==
  ASSUME DrainInv, NEW c \in Players, Acts(c)
  PROVE  \A d \in Players \ {c} : reply'[d] = reply[d]
<1>1. ASSUME NEW code, NEW body, Respond(c, code, body)
      PROVE  \A d \in Players \ {c} : reply'[d] = reply[d]
  BY <1>1 DEF Respond, DrainInv
<1> QED BY <1>1, ActsAreHandled DEF Handled, Silent, Answers, Reviews

LEMMA StreamNext ==
  ASSUME DrainInv, AuditInv, StreamInv, [Next]_vars
  PROVE  StreamInv'
<1>0. scene' = scene /\ Players' = Players /\ \A c : Asked(c)' = Asked(c)
  BY SceneStays DEF Players, Asked, Request
<1>1. CASE /\ UNCHANGED <<asks, stream>>
           /\ \A c \in Players : (Asked(c) /\ reply'[c].code = 200) => reply[c].code = 200
  <2>1. \A c \in Players : /\ asks'[c] = asks[c] /\ stream'[c] = stream[c]
                           /\ Sending(c)' = Sending(c) /\ Ended(c)' = Ended(c)
    BY <1>1 DEF Sending, Ended, Sent, InPlace, NameAt
  <2> QED BY <1>0, <1>1, <2>1 DEF StreamInv
<1>2. ASSUME NEW c \in Players, Acts(c), AskStep(c) PROVE StreamInv'
  <2>1. Streams(c)
    BY <1>2, QuestionStreams
  <2>2. \A d \in Players \ {c} : asks'[d] = asks[d] /\ stream'[d] = stream[d] /\ reply'[d] = reply[d]
    BY <1>2, <2>1, RepliesStand DEF Streams
  <2>3. \A d \in Players \ {c} : Sending(d)' = Sending(d) /\ Ended(d)' = Ended(d)
    BY <2>2 DEF Sending, Ended, Sent, InPlace, NameAt
  <2>4. asks' = [d \in Players |-> asks'[d]] /\ stream' = [d \in Players |-> stream'[d]]
    BY <2>1 DEF Streams
  <2>5. ASSUME NEW d \in Players
        PROVE  /\ DOMAIN asks'[d] = AskFields /\ asks'[d].step \in AskSteps
               /\ \E S : stream'[d] \in Seq(S)
               /\ asks'[d].step # "end" => Sending(d)'
               /\ (Asked(d) /\ reply'[d].code = 200) => asks'[d].step = "end" /\ Ended(d)'
    <3>1. CASE d = c
      BY <2>1, <3>1 DEF Streams
    <3>2. CASE d # c
      BY <2>2, <2>3, <3>2 DEF StreamInv
    <3> QED BY <3>1, <3>2
  <2> QED BY <1>0, <2>4, <2>5 DEF StreamInv
<1>3. ASSUME NEW c \in Players, Acts(c), ~AskStep(c) PROVE StreamInv'
  <2>1. UNCHANGED <<asks, stream>> /\ (UNCHANGED reply \/ ~Asked(c))
    BY <1>3, OthersAnswer DEF Acts, answering
  <2> QED BY <1>1, <1>3, <2>1, RepliesStand
<1>4. CASE GatewayNext /\ UNCHANGED answering
  <2>1. \A c \in Players : reply'[c].code # 200 \/ reply'[c] = reply[c]
    BY <1>4 DEF GatewayNext, authorize, emitAuditEvent, recordAudit, HangUp, RuntimeStep, Problem, Respond,
                DrainInv, Unanswered
  <2> QED BY <1>1, <1>4, <2>1 DEF answering
<1>5. CASE Background
  <2>1. UNCHANGED <<asks, stream, reply>>
    BY <1>5, BackgroundIsSilent DEF Background, Silent, vars, answering
  <2> QED BY <1>1, <2>1
<1> QED BY <1>2, <1>3, <1>4, <1>5, Steps

EventNames == {"plan", "evidence", "answer.delta", "answer.done"}

LEMMA WholeAnswer ==
  ASSUME NEW answer, answer = <<"plan", "evidence">> \o [i \in 1..Deltas |-> "answer.delta"] \o <<"answer.done">>
  PROVE  answer \in [1..Deltas + 3 -> EventNames] /\ \A i \in 1..Deltas + 3 : answer[i] = NameAt(i)
<1>1. PICK begin, pieces, end : /\ begin = <<"plan", "evidence">> /\ pieces = [i \in 1..Deltas |-> "answer.delta"]
                                /\ end = <<"answer.done">>
  OBVIOUS
<1>2. begin \in Seq(EventNames) /\ Len(begin) = 2 /\ begin[1] = "plan" /\ begin[2] = "evidence"
  BY <1>1 DEF EventNames
<1>3. pieces \in Seq(EventNames) /\ Len(pieces) = Deltas /\ \A i \in 1..Deltas : pieces[i] = "answer.delta"
  BY <1>1, DeltasAssumption DEF EventNames
<1>4. end \in Seq(EventNames) /\ Len(end) = 1 /\ end[1] = "answer.done"
  BY <1>1 DEF EventNames
<1>5. PICK text : text = begin \o pieces
  OBVIOUS
<1>6. /\ text \in Seq(EventNames) /\ Len(text) = Deltas + 2
      /\ \A i \in 1..Deltas + 2 : text[i] = IF i <= 2 THEN begin[i] ELSE pieces[i - 2]
  <2>1. /\ text \in Seq(EventNames) /\ Len(text) = Len(begin) + Len(pieces)
        /\ \A i \in 1..Len(begin) + Len(pieces) :
             text[i] = IF i <= Len(begin) THEN begin[i] ELSE pieces[i - Len(begin)]
    BY <1>2, <1>3, <1>5, ConcatProperties
  <2>2. Len(begin) + Len(pieces) = Deltas + 2
    BY <1>2, <1>3, DeltasAssumption
  <2> QED BY <1>2, <2>1, <2>2
<1>7. /\ answer \in Seq(EventNames) /\ Len(answer) = Deltas + 3
      /\ \A i \in 1..Deltas + 3 : answer[i] = IF i <= Deltas + 2 THEN text[i] ELSE end[i - (Deltas + 2)]
  BY <1>1, <1>4, <1>5, <1>6, DeltasAssumption, ConcatProperties
<1>8. answer \in [1..Deltas + 3 -> EventNames]
  BY <1>7, LenProperties
<1>9. ASSUME NEW i \in 1..Deltas + 3 PROVE answer[i] = NameAt(i)
  <2>1. CASE i <= 2
    BY <1>2, <1>6, <1>7, <2>1, DeltasAssumption DEF NameAt
  <2>2. CASE i > 2 /\ i <= Deltas + 2
    <3>1. i \in 1..Deltas + 2 /\ i - 2 \in 1..Deltas
      BY <2>2, DeltasAssumption
    <3>2. answer[i] = text[i]
      BY <1>7, <2>2
    <3>3. text[i] = pieces[i - 2]
      BY <1>6, <2>2, <3>1, DeltasAssumption
    <3>4. pieces[i - 2] = "answer.delta"
      BY <1>3, <3>1
    <3>5. NameAt(i) = "answer.delta"
      BY <2>2, DeltasAssumption DEF NameAt
    <3> QED BY <3>2, <3>3, <3>4, <3>5
  <2>3. CASE i = Deltas + 3
    <3>1. i - (Deltas + 2) = 1 /\ ~(i <= Deltas + 2)
      BY <2>3, DeltasAssumption
    <3> QED BY <1>4, <1>7, <2>3, <3>1, DeltasAssumption DEF NameAt
  <2> QED BY <2>1, <2>2, <2>3, DeltasAssumption
<1> QED BY <1>8, <1>9

LEMMA BeginsLike ==
  ASSUME NEW k \in Nat, NEW m \in Nat, k <= m, NEW names, NEW answer \in [1..m -> EventNames],
         \A i \in 1..k : names[i] = answer[i]
  PROVE  SubSeq(names, 1, k) = First(k, answer)
<1>1. PICK begin : begin = SubSeq(names, 1, k)
  OBVIOUS
<1>2. \A i \in 1..k : names[i] \in EventNames
  OBVIOUS
<1>3. /\ begin \in Seq(EventNames) /\ Len(begin) = (IF 1 <= k THEN k - 1 + 1 ELSE 0)
      /\ \A i \in 1..k - 1 + 1 : begin[i] = names[1 + i - 1]
  BY <1>1, <1>2, SubSeqProperties
<1>4. begin \in [1..k -> EventNames] /\ \A i \in 1..k : begin[i] = names[i]
  BY <1>3, LenProperties
<1>5. {i \in DOMAIN answer : i <= k} = 1..k
  OBVIOUS
<1>6. First(k, answer) = [i \in 1..k |-> answer[i]]
  BY <1>5 DEF First
<1> QED BY <1>1, <1>4, <1>6

IsAnswer(answer) == answer \in [1..Deltas + 3 -> EventNames] /\ \A i \in 1..Deltas + 3 : answer[i] = NameAt(i)
AreNames(names, c, n) ==
  n = Len(stream[c]) /\ names = [i \in 1..n |-> names[i]] /\ \A i \in 1..n : names[i] = stream[c][i].event
Whole(answer, names, c, n) ==
  /\ names = answer \/ (n > 0 /\ names[n] = "error" /\ SubSeq(names, 1, n - 1) = First(n - 1, answer))
  /\ \A i \in 1..n : names[i] = "answer.delta" => stream[c][i].part = i - 2

LEMMA EndedIsWhole ==
  ASSUME NEW c \in Players, Ended(c), NEW n, NEW answer, IsAnswer(answer), NEW names, AreNames(names, c, n)
  PROVE  Whole(answer, names, c, n)
<1> USE DEF IsAnswer, AreNames
<1>1. /\ n \in 1..Deltas + 3 /\ \A i \in 1..n - 1 : InPlace(stream[c][i], i)
      /\ stream[c][n].event = "error" \/ (n = Deltas + 3 /\ InPlace(stream[c][n], n))
  BY DEF Ended
<1>2. PICK k \in Nat : n = k + 1 /\ n - 1 = k /\ k <= Deltas + 3 /\ Deltas + 3 \in Nat
  BY <1>1, DeltasAssumption
<1>3. \A i \in 1..k : i \in 1..Deltas + 3 /\ i \in 1..n
  BY <1>2, DeltasAssumption
<1>4. \A i \in 1..k : InPlace(stream[c][i], i)
  BY <1>1, <1>2
<1>5. \A i \in 1..k : names[i] = answer[i]
  BY <1>3, <1>4 DEF InPlace
<1>6. n \in 1..n /\ n > 0 /\ \A i \in 1..n : i \in 1..k \/ i = n
  BY <1>2
<1>7. names[n] = stream[c][n].event
  BY <1>6
<1>8. \A i \in 1..k : names[i] = "answer.delta" => stream[c][i].part = i - 2
  BY <1>3, <1>4 DEF InPlace
<1>9. CASE stream[c][n].event = "error"
  <2>1. names[n] = "error"
    BY <1>7, <1>9
  <2>2. SubSeq(names, 1, k) = First(k, answer)
    <3>1. PICK m \in Nat : m = Deltas + 3 /\ k <= m
      BY <1>2
    <3>2. answer \in [1..m -> EventNames]
      BY <3>1
    <3> HIDE DEF IsAnswer, AreNames
    <3> QED BY <1>5, <3>1, <3>2, BeginsLike
  <2>3. \A i \in 1..n : names[i] = "answer.delta" => stream[c][i].part = i - 2
    BY <1>6, <1>8, <2>1
  <2> QED BY <1>2, <1>6, <2>1, <2>2, <2>3 DEF Whole
<1>10. CASE n = Deltas + 3 /\ InPlace(stream[c][n], n)
  <2>1. \A i \in 1..n : InPlace(stream[c][i], i)
    BY <1>4, <1>6, <1>10
  <2>2. \A i \in 1..n : names[i] = answer[i] /\ (names[i] = "answer.delta" => stream[c][i].part = i - 2)
    BY <1>10, <2>1 DEF InPlace
  <2>3. names = answer
    BY <1>10, <2>2
  <2> QED BY <2>2, <2>3 DEF Whole
<1> QED BY <1>1, <1>9, <1>10

(* A client that stayed received a whole answer - its plan, its evidence, all *)
(* pieces of its text in order, its end - or a beginning of one and an error, *)
(* whatever the LLM does, whoever hangs up and however many pieces there are. *)
THEOREM StreamsAreWhole == Spec => []StreamIsWhole
<1>1. StreamInv => StreamIsWhole
  <2> DEFINE answer == <<"plan", "evidence">> \o [i \in 1..Deltas |-> "answer.delta"] \o <<"answer.done">>
             n(c) == Len(stream[c])
             names(c) == [i \in 1..n(c) |-> stream[c][i].event]
  <2>1. ASSUME StreamInv, NEW c \in Players, Asked(c), reply[c].code = 200
        PROVE  /\ \/ names(c) = answer
                  \/ n(c) > 0 /\ names(c)[n(c)] = "error" /\ SubSeq(names(c), 1, n(c) - 1) = First(n(c) - 1, answer)
               /\ \A i \in 1..n(c) : names(c)[i] = "answer.delta" => stream[c][i].part = i - 2
    <3>1. Ended(c)
      BY <2>1 DEF StreamInv
    <3>2. PICK a, m, s : a = answer /\ m = n(c) /\ s = names(c)
      OBVIOUS
    <3>3. IsAnswer(a)
      BY <3>2, WholeAnswer DEF IsAnswer
    <3>4. AreNames(s, c, m)
      BY <3>2 DEF AreNames
    <3>5. Whole(a, s, c, m)
      BY <2>1, <3>1, <3>3, <3>4, EndedIsWhole
    <3> HIDE DEF answer, n, names
    <3> QED BY <3>2, <3>5 DEF Whole
  <2> QED BY <2>1 DEF StreamIsWhole
<1>2. Init => DrainInv /\ AuditInv /\ HoldInv /\ StreamInv
  BY DrainInit, AuditInit, HoldInit, StreamInit
<1>3. DrainInv /\ AuditInv /\ HoldInv /\ StreamInv /\ [Next]_vars => (DrainInv /\ AuditInv /\ HoldInv /\ StreamInv)'
  BY DrainNext, AuditNext, HoldNext, StreamNext
<1> QED BY <1>1, <1>2, <1>3, PTL DEF Spec

-----------------------------------------------------------------------------
(* What is kept of an answer: that its numbers are in its evidence and its     *)
(* evidence is for whom it is kept stays true of the tables, whatever changes. *)
SeenBy(level, pack) ==
  /\ \A f \in Range(pack.facts) : Sees(Sight(pack.byText, level), facts[f].access)
  /\ \A k \in Range(pack.chunks) : Sees(Sight(pack.retrieved, level), scene.chunks[k].access)

Known(level, pack) ==
  /\ {"facts", "chunks", "consensus", "byText", "retrieved", "stats"} \subseteq DOMAIN pack
  /\ Range(pack.facts) \subseteq DOMAIN facts /\ {pack.byText, pack.retrieved} \subseteq BOOLEAN
  /\ SeenBy(level, pack)

Clean(level, answer, pack) ==
  /\ Known(level, pack) /\ runGuard(answer, pack) = 0
  /\ answer.by = "llm" \/ ~scene.writer \/ NothingFound(pack)

Cleared(c, step, cached, pack, answer) ==
  /\ step \in {"chunks", "synthesis"} => caller[c] # None /\ Known(caller[c].access, pack)
  /\ (step = "put" \/ (step = "deltas" /\ ~cached)) =>
       caller[c] # None /\ (Kept(answer) => Clean(caller[c].access, answer, pack))

CleanInv ==
  /\ \A c \in Players : Cleared(c, asks[c].step, asks[c].cached, asks[c].pack, asks[c].answer)
  /\ \A key \in DOMAIN cache : Clean(key[2], cache[key].answer, cache[key].pack)

LEMMA ValuesStand ==
  ASSUME RowsInv, FactsStand, NEW f \in DOMAIN facts
  PROVE  Values(f)' = Values(f) /\ facts'[f].quote = facts[f].quote /\ facts'[f].access = facts[f].access
BY DEF Values, FactsStand, FactColumns

LEMMA NumbersStand ==
  ASSUME RowsInv, FactsStand, scene' = scene, NEW pack, Range(pack.facts) \subseteq DOMAIN facts
  PROVE  allowedNumbers(pack)' = allowedNumbers(pack)
<1>1. PICK R : R = Range(pack.facts)
  OBVIOUS
<1>2. PICK F : F = [f \in R |-> Values(f) \cup facts[f].quote]
  OBVIOUS
<1>3. \A f \in R : Values(f)' \cup facts'[f].quote = F[f] /\ Values(f) \cup facts[f].quote = F[f]
  BY <1>1, <1>2, ValuesStand
<1>4. {Values(f)' \cup facts'[f].quote : f \in R} = {F[f] : f \in R}
  BY <1>3
<1>5. {Values(f) \cup facts[f].quote : f \in R} = {F[f] : f \in R}
  BY <1>3
<1>6. UNION {Values(f)' \cup facts'[f].quote : f \in Range(pack.facts)}
        = UNION {Values(f) \cup facts[f].quote : f \in Range(pack.facts)}
  BY <1>1, <1>4, <1>5
<1> QED BY <1>6 DEF allowedNumbers

LEMMA CleanStands ==
  ASSUME RowsInv, FactsStand, scene' = scene
  PROVE  /\ \A level, pack : Known(level, pack) => Known(level, pack)'
         /\ \A level, answer, pack : Clean(level, answer, pack) => Clean(level, answer, pack)'
<1>1. ASSUME NEW level, NEW pack, Known(level, pack) PROVE Known(level, pack)'
  <2>1. \A found : Sight(found, level)' = Sight(found, level)
    BY DEF Sight, normalizeRLS
  <2>2. \A f \in Range(pack.facts) : f \in DOMAIN facts' /\ facts'[f].access = facts[f].access
    BY <1>1, ValuesStand DEF Known, FactsStand
  <2>3. SeenBy(level, pack)'
    BY <1>1, <2>1, <2>2 DEF Known, SeenBy
  <2> QED BY <1>1, <2>2, <2>3 DEF Known
<1>2. ASSUME NEW level, NEW answer, NEW pack, Clean(level, answer, pack) PROVE Clean(level, answer, pack)'
  <2>1. Known(level, pack) /\ Known(level, pack)'
    BY <1>1, <1>2 DEF Clean
  <2>2. allowedNumbers(pack)' = allowedNumbers(pack)
    BY <2>1, NumbersStand DEF Known
  <2>3. Violations(answer.numbers, pack)' = Violations(answer.numbers, pack)
    BY <2>2 DEF Violations
  <2>4. runGuard(answer, pack)' = runGuard(answer, pack)
    BY <2>3 DEF runGuard
  <2> QED BY <1>2, <2>1, <2>4 DEF Clean, NothingFound
<1> QED BY <1>1, <1>2

(* What the guard passes without replacing it is the text itself.             *)
LEMMA GuardedIsClean ==
  ASSUME NEW text, NEW degraded, NEW pack, NEW answer, answer = Guarded(text, degraded, pack), Kept(answer)
  PROVE  runGuard(answer, pack) = 0 /\ ~degraded /\ answer.by = text.by
<1> HIDE DEF runGuard
<1>1. PICK kept : kept = IF runGuard(text, pack) > 0 THEN extractiveSynthesis(pack) ELSE text
  OBVIOUS
<1>2. PICK b : b = (degraded \/ runGuard(text, pack) > 0)
  OBVIOUS
<1>3. answer = [numbers |-> kept.numbers, methods |-> kept.methods, confidence |-> kept.confidence, by |-> kept.by,
                violations |-> runGuard(kept, pack), degraded |-> b]
  BY <1>1, <1>2, Zenon DEF Guarded
<1>4. runGuard(kept, pack) = 0 /\ ~b
  BY <1>3 DEF Kept
<1>5. runGuard(answer, pack) = runGuard(kept, pack)
  BY <1>3 DEF runGuard
<1>6. ~degraded /\ ~(runGuard(text, pack) > 0)
  BY <1>2, <1>4, Zenon
<1>7. kept = text
  BY <1>1, <1>6
<1> QED BY <1>3, <1>4, <1>5, <1>6, <1>7

LEMMA AskGoes ==
  ASSUME StreamInv, NEW c \in Players, NEW fields, Goes(c, fields)
  PROVE  \A k \in AskFields : asks'[c][k] = IF k \in DOMAIN fields THEN fields[k] ELSE asks[c][k]
<1>1. asks' = [asks EXCEPT ![c] = [k \in AskFields |-> IF k \in DOMAIN fields THEN fields[k] ELSE asks[c][k]]]
  BY DEF Goes, StreamInv
<1> QED BY <1>1 DEF StreamInv

LEMMA FoundByText ==
  ASSUME NEW c
  PROVE  /\ Range(FactsByText(c)) \subseteq DOMAIN facts
         /\ \A f \in Range(FactsByText(c)) : Sees(normalizeRLS(None), facts[f].access)
<1> DEFINE found == {f \in DOMAIN facts : /\ VisibleFact(f, normalizeRLS(None))
                                        /\ facts[f].doc \in {scene.chunks[k].doc : k \in Hits(c)}
                                        /\ facts[f].unitCode # "" /\ facts[f].quoted}
<1>1. PICK S : S = found
  OBVIOUS
<1>2. FactsByText(c) = Among(S, scene.byText)
  BY <1>1 DEF FactsByText
<1>3. \A f \in S : f \in DOMAIN facts /\ Sees(normalizeRLS(None), facts[f].access)
  BY <1>1 DEF VisibleFact
<1> QED BY <1>2, <1>3, AmongRange

(* Nor do the chunks that it reads go beyond the sight of its sessions.       *)
LEMMA InterleavedRange ==
  ASSUME NEW lexical, NEW semantic
  PROVE  Range(interleaveChunks(lexical, semantic)) \subseteq Range(lexical) \cup Range(semantic)
<1> DEFINE Turns(k) == {2 * i - 1 : i \in {i \in DOMAIN lexical : lexical[i] = k}}
                         \cup {2 * i : i \in {i \in DOMAIN semantic : semantic[i] = k}}
           Before(k, l) == Min(Turns(k)) < Min(Turns(l))
<1>1. PICK S : S = Range(lexical) \cup Range(semantic)
  OBVIOUS
<1>2. PICK F : F = [k \in S |-> 1 + Cardinality({l \in S : Before(l, k)})]
  OBVIOUS
<1>3. interleaveChunks(lexical, semantic) = First(TextTop, AntiFunction(F)) /\ DOMAIN F = S
  BY <1>1, <1>2 DEF interleaveChunks, Sorted
<1> QED BY <1>1, <1>3, FirstRange, AntiFunctionRange

LEMMA RetrievedRange ==
  ASSUME NEW c
  PROVE  /\ Range(ChunksByText(c)) \subseteq Retrievable
         /\ Range(Among({k \in Retrievable : isRussianProse(k)}, VectorChunks)) \subseteq Retrievable
<1>1. LongTexts(Hits(c), 120) \subseteq Retrievable /\ {k \in Retrievable : isRussianProse(k)} \subseteq Retrievable
  BY DEF LongTexts, Hits
<1>2. Range(ChunksByText(c)) \subseteq LongTexts(Hits(c), 120)
  BY AmongRange DEF ChunksByText
<1>3. PICK prose : prose = {k \in Retrievable : isRussianProse(k)}
  OBVIOUS
<1>4. Range(Among(prose, VectorChunks)) \subseteq prose
  BY AmongRange
<1> QED BY <1>1, <1>2, <1>3, <1>4

LEMMA AskerLevel ==
  ASSUME AccessInv, AuditInv, NEW c \in Players, pc[c] = "handle"
  PROVE  caller[c] # None /\ Level(c) = caller[c].access
BY LevelIsAccess DEF AccessInv, AuditInv, Traced

(* What a question holds of the evidence it has gathered, and of what it has   *)
(* written on it, is true after each of its steps; what it keeps is clean.     *)
LEMMA QuestionClears ==
  ASSUME StreamInv, DrainInv, AuditInv, PackInv, AccessInv, CleanInv, NEW c \in Players, AskStep(c), UNCHANGED scene
  PROVE  /\ Cleared(c, asks'[c].step, asks'[c].cached, asks'[c].pack, asks'[c].answer)
         /\ cache' = cache \/ (/\ DOMAIN cache' \subseteq DOMAIN cache \cup {planCacheKey(c)}
                               /\ \A key \in DOMAIN cache' : \/ key \in DOMAIN cache /\ cache'[key] = cache[key]
                                                             \/ Clean(key[2], cache'[key].answer, cache'[key].pack))
<1> DEFINE Good == Cleared(c, asks'[c].step, asks'[c].cached, asks'[c].pack, asks'[c].answer)
<1>0. Cleared(c, asks[c].step, asks[c].cached, asks[c].pack, asks[c].answer)
  BY DEF CleanInv
<1> HIDE DEF Kept
<1>a. ASSUME UNCHANGED asks PROVE Good
  BY <1>0, <1>a
<1>b. ASSUME NEW fields, Goes(c, fields), "step" \in DOMAIN fields,
             fields.step \in {"parsing", "lookup", "search", "done", "end"}
      PROVE  Good
  <2>1. asks'[c].step = fields.step
    BY <1>b, AskGoes DEF AskFields
  <2> QED BY <1>b, <2>1 DEF Cleared
<1>1. CASE queryParse(c) \/ askHandler(c) \/ planAndTerms(c)
  <2>1. UNCHANGED cache
    BY <1>1 DEF queryParse, askHandler, planAndTerms, answering
  <2>2. CASE UNCHANGED asks
    BY <1>a, <2>1, <2>2
  <2>3. CASE \E fields : Goes(c, fields) /\ "step" \in DOMAIN fields /\ fields.step \in {"parsing", "lookup"}
    BY <1>b, <2>1, <2>3
  <2>4. UNCHANGED asks \/ \E fields : Goes(c, fields) /\ "step" \in DOMAIN fields /\ fields.step \in {"parsing", "lookup"}
    <3>1. \A plan, terms : Planned(c, plan, terms) =>
            \E fields : Goes(c, fields) /\ "step" \in DOMAIN fields /\ fields.step \in {"parsing", "lookup"}
      BY DEF Planned
    <3>2. Goes(c, [step |-> "parsing"]) =>
            \E fields : Goes(c, fields) /\ "step" \in DOMAIN fields /\ fields.step \in {"parsing", "lookup"}
      OBVIOUS
    <3> HIDE DEF Good
    <3> QED BY <1>1, <3>1, <3>2 DEF queryParse, askHandler, planAndTerms, PlannedByRules, answering
  <2> QED BY <2>2, <2>3, <2>4
<1>2. CASE cacheGet(c)
  <2>1. UNCHANGED cache
    BY <1>2 DEF cacheGet
  <2>2. CASE Goes(c, [step |-> "search"])
    BY <1>b, <2>1, <2>2
  <2>3. ASSUME NEW plan, NEW pack, NEW answer,
               Goes(c, [step |-> "deltas", cached |-> TRUE, plan |-> plan, pack |-> pack, answer |-> answer])
        PROVE  Good
    <3>1. asks'[c].step = "deltas" /\ asks'[c].cached = TRUE
      BY <2>3, AskGoes DEF AskFields
    <3> QED BY <3>1 DEF Cleared
  <2> QED BY <1>2, <2>1, <2>2, <2>3 DEF cacheGet
<1>3. CASE augmentFacts(c)
  <2>1. UNCHANGED cache /\ pc[c] = "handle" /\ search[c].step = "ready"
    BY <1>3 DEF augmentFacts, Going, Asking
  <2>2. caller[c] # None /\ Level(c) = caller[c].access /\ PackFits(c, search[c].pack)
    BY <2>1, AskerLevel DEF PackInv, Packed
  <2>3. PICK pack : /\ pack = [part \in DOMAIN search[c].pack \cup {"byText", "retrieved"} |->
                                 IF part \in {"byText", "retrieved"} THEN FALSE ELSE search[c].pack[part]]
    OBVIOUS
  <2>4. /\ {"facts", "chunks", "consensus", "byText", "retrieved", "stats", "contradictions", "subjects"} \subseteq DOMAIN pack
        /\ pack.facts = search[c].pack.facts /\ pack.chunks = search[c].pack.chunks
        /\ pack.byText = FALSE /\ pack.retrieved = FALSE
    BY <2>2, <2>3 DEF PackFits, PackParts
  <2>5. Known(caller[c].access, pack)
    <3>1. PICK level : level = caller[c].access /\ level = Level(c)
      BY <2>2
    <3>2. Range(pack.facts) \subseteq DOMAIN facts /\ \A f \in Range(pack.facts) : Sees(level, facts[f].access)
      BY <2>2, <2>4, <3>1 DEF PackFits, MaySee
    <3>3. \A k \in Range(pack.chunks) : Sees(level, scene.chunks[k].access)
      BY <2>2, <2>4, <3>1 DEF PackFits, SeesChunk
    <3>4. Known(level, pack)
      BY <2>4, <3>2, <3>3 DEF Known, SeenBy, Sight
    <3> QED BY <3>1, <3>4
  <2>6. CASE Goes(c, [step |-> "chunks", pack |-> pack])
    <3>1. asks'[c].step = "chunks" /\ asks'[c].pack = pack
      BY <2>6, AskGoes DEF AskFields
    <3> QED BY <2>1, <2>2, <2>5, <3>1 DEF Cleared
  <2>7. ASSUME NEW subjects, NEW stats,
               Goes(c, [step |-> "chunks", pack |-> [pack EXCEPT !.facts = FactsByText(c), !.contradictions = {},
                                                     !.byText = TRUE, !.subjects = subjects, !.stats = stats]])
        PROVE  Good
    <3>1. PICK found : found = FactsByText(c)
      OBVIOUS
    <3>2. /\ Range(found) \subseteq DOMAIN facts
          /\ \A f \in Range(found) : Sees(normalizeRLS(None), facts[f].access)
      BY <3>1, FoundByText
    <3>3. PICK q : q = [pack EXCEPT !.facts = found, !.contradictions = {},
                                    !.byText = TRUE, !.subjects = subjects, !.stats = stats]
      OBVIOUS
    <3>4. /\ q.facts = found /\ q.byText = TRUE /\ DOMAIN q = DOMAIN pack
          /\ q.chunks = pack.chunks /\ q.retrieved = pack.retrieved
      BY <2>4, <3>3
    <3>5. Known(caller[c].access, q)
      <4>1. PICK level : level = caller[c].access /\ Known(level, pack)
        BY <2>5
      <4>2. \A k \in Range(q.chunks) : Sees(Sight(q.retrieved, level), scene.chunks[k].access)
        BY <3>4, <4>1 DEF Known, SeenBy
      <4>3. \A f \in Range(q.facts) : Sees(Sight(q.byText, level), facts[f].access)
        BY <3>2, <3>4 DEF Sight
      <4>4. Known(level, q)
        BY <2>4, <3>2, <3>4, <4>2, <4>3 DEF Known, SeenBy
      <4> QED BY <4>1, <4>4
    <3>6. asks'[c].step = "chunks" /\ asks'[c].pack = q
      BY <2>7, <3>1, <3>3, AskGoes DEF AskFields
    <3> QED BY <2>2, <3>5, <3>6 DEF Cleared
  <2>8. \/ Goes(c, [step |-> "chunks", pack |-> pack])
        \/ \E subjects, stats :
             Goes(c, [step |-> "chunks", pack |-> [pack EXCEPT !.facts = FactsByText(c), !.contradictions = {},
                                                   !.byText = TRUE, !.subjects = subjects, !.stats = stats]])
    <3> HIDE DEF Good
    <3> QED BY <1>3, <2>3 DEF augmentFacts
  <2> QED BY <2>1, <2>6, <2>7, <2>8
<1>4. CASE augmentChunks(c)
  <2>1. UNCHANGED cache /\ asks[c].step = "chunks"
    BY <1>4 DEF augmentChunks, Going, Asking
  <2>2. caller[c] # None /\ Known(caller[c].access, asks[c].pack)
    BY <1>0, <2>1 DEF Cleared
  <2>3. PICK before : before = asks[c].pack
    OBVIOUS
  <2>a. PICK lexical, semantic, pack :
          /\ Range(lexical) \subseteq Retrievable /\ Range(semantic) \subseteq Retrievable
          /\ Goes(c, [step |-> "synthesis", pack |-> pack])
          /\ LET chunks == interleaveChunks(lexical, semantic) IN
             pack = IF chunks = << >> THEN before
                    ELSE [before EXCEPT !.chunks = chunks, !.retrieved = TRUE, !.stats = evidenceStats(before.facts, chunks)]
    <3> DEFINE Lexical(found) == IF "lexical" \in found THEN ChunksByText(c) ELSE << >>
               Semantic(found) == IF "semantic" \in found
                                  THEN Among({k \in Retrievable : isRussianProse(k)}, VectorChunks) ELSE << >>
               Made(l, m, p) == LET chunks == interleaveChunks(l, m) IN
                 p = IF chunks = << >> THEN before
                     ELSE [before EXCEPT !.chunks = chunks, !.retrieved = TRUE, !.stats = evidenceStats(before.facts, chunks)]
    <3>1. Range(<< >>) = {}
      BY DEF Range
    <3>2. \A found : Range(Lexical(found)) \subseteq Retrievable /\ Range(Semantic(found)) \subseteq Retrievable
      BY <3>1, RetrievedRange
    <3>3. PICK found, pack : Goes(c, [step |-> "synthesis", pack |-> pack]) /\ Made(Lexical(found), Semantic(found), pack)
      BY <1>4, <2>3 DEF augmentChunks
    <3> HIDE DEF Lexical, Semantic, Made, Good
    <3>4. PICK l, m : l = Lexical(found) /\ m = Semantic(found)
      OBVIOUS
    <3>5. Made(l, m, pack) /\ Range(l) \subseteq Retrievable /\ Range(m) \subseteq Retrievable
      BY <3>2, <3>3, <3>4
    <3> QED BY <3>3, <3>5 DEF Made
  <2>4. PICK chunks :
          /\ chunks = interleaveChunks(lexical, semantic)
          /\ pack = IF chunks = << >> THEN before
                    ELSE [before EXCEPT !.chunks = chunks, !.retrieved = TRUE, !.stats = evidenceStats(before.facts, chunks)]
    BY <2>a
  <2>b. Range(chunks) \subseteq Retrievable
    BY <2>a, <2>4, InterleavedRange
  <2>c. \A k \in Range(chunks) : Sees(normalizeRLS(None), scene.chunks[k].access)
    BY <2>b DEF Retrievable, ChunksUpTo
  <2>5. /\ DOMAIN pack = DOMAIN before /\ pack.facts = before.facts /\ pack.byText = before.byText
        /\ \/ pack.chunks = before.chunks /\ pack.retrieved = before.retrieved
           \/ pack.chunks = chunks /\ pack.retrieved = TRUE
    <3>1. PICK stats : stats = evidenceStats(before.facts, chunks)
      OBVIOUS
    <3>2. pack = IF chunks = << >> THEN before ELSE [before EXCEPT !.chunks = chunks, !.retrieved = TRUE, !.stats = stats]
      BY <2>4, <3>1
    <3>3. {"facts", "chunks", "consensus", "byText", "retrieved", "stats"} \subseteq DOMAIN before
      BY <2>2, <2>3 DEF Known
    <3> QED BY <3>2, <3>3
  <2>6. Known(caller[c].access, pack)
    <3>1. PICK level : level = caller[c].access /\ Known(level, before)
      BY <2>2, <2>3
    <3>2. \A f \in Range(pack.facts) : Sees(Sight(pack.byText, level), facts[f].access)
      BY <2>5, <3>1 DEF Known, SeenBy
    <3>3. \A k \in Range(pack.chunks) : Sees(Sight(pack.retrieved, level), scene.chunks[k].access)
      <4>1. CASE pack.chunks = before.chunks /\ pack.retrieved = before.retrieved
        BY <3>1, <4>1 DEF Known, SeenBy
      <4>2. CASE pack.chunks = chunks /\ pack.retrieved = TRUE
        BY <2>c, <4>2 DEF Sight
      <4> QED BY <2>5, <4>1, <4>2
    <3>4. Known(level, pack)
      BY <2>5, <3>1, <3>2, <3>3 DEF Known, SeenBy
    <3> QED BY <3>1, <3>4
  <2>7. asks'[c].step = "synthesis" /\ asks'[c].pack = pack
    BY <2>a, AskGoes DEF AskFields
  <2> QED BY <2>1, <2>2, <2>6, <2>7 DEF Cleared
<1>5. CASE runSynthesis(c)
  <2>1. UNCHANGED cache /\ asks[c].step = "synthesis"
    BY <1>5 DEF runSynthesis, Going, Asking
  <2>2. caller[c] # None /\ Known(caller[c].access, asks[c].pack)
    BY <1>0, <2>1 DEF Cleared
  <2>3. PICK pack : pack = asks[c].pack
    OBVIOUS
  <2>4. PICK text, degraded :
          /\ Goes(c, [step |-> "deltas", part |-> 1, answer |-> Guarded(text, degraded, pack)])
          /\ degraded \/ text.by = "llm" \/ ~scene.writer \/ NothingFound(pack)
    <3> HIDE DEF Good
    <3>1. \A draft : llmSynthesis(c, pack, draft).by = "llm"
      BY DEF llmSynthesis
    <3> QED BY <1>5, <2>3, <3>1 DEF runSynthesis
  <2>5. PICK answer : answer = Guarded(text, degraded, pack)
    OBVIOUS
  <2>6. Kept(answer) => runGuard(answer, pack) = 0 /\ ~degraded /\ answer.by = text.by
    BY <2>5, GuardedIsClean
  <2>7. Kept(answer) => Clean(caller[c].access, answer, pack)
    BY <2>2, <2>3, <2>4, <2>6 DEF Clean
  <2>8. asks'[c].step = "deltas" /\ asks'[c].answer = answer /\ asks'[c].pack = pack
    BY <2>3, <2>4, <2>5, AskGoes DEF AskFields
  <2> QED BY <2>1, <2>2, <2>7, <2>8 DEF Cleared
<1>6. CASE emitDelta(c)
  <2>1. UNCHANGED cache /\ asks[c].step = "deltas"
    BY <1>6 DEF emitDelta, Going, Asking
  <2>2. PICK part, step : Goes(c, [part |-> part, step |-> step]) /\ (step = "put" => ~asks[c].cached)
                          /\ step \in {"deltas", "put", "done"}
    <3> HIDE DEF Good
    <3> QED BY <1>6 DEF emitDelta
  <2>3. /\ asks'[c].step = step /\ asks'[c].cached = asks[c].cached
        /\ asks'[c].pack = asks[c].pack /\ asks'[c].answer = asks[c].answer
    BY <2>2, AskGoes DEF AskFields
  <2> QED BY <1>0, <2>1, <2>2, <2>3 DEF Cleared
<1>7. CASE cachePut(c)
  <2>1. asks[c].step = "put" /\ Goes(c, [step |-> "done"])
    BY <1>7 DEF cachePut, Going, Asking
  <2>2. Good
    BY <1>b, <2>1
  <2>3. Kept(asks[c].answer) => Clean(caller[c].access, asks[c].answer, asks[c].pack)
    BY <1>0, <2>1 DEF Cleared
  <2>4. PICK level, key, entry : level = caller[c].access /\ key = planCacheKey(c)
                                 /\ entry = [plan |-> asks[c].plan, pack |-> asks[c].pack, answer |-> asks[c].answer]
    OBVIOUS
  <2>8. key[2] = level
    BY <2>4 DEF planCacheKey
  <2>5. UNCHANGED cache \/ (/\ Kept(asks[c].answer)
                            /\ cache' = [k \in DOMAIN cache \cup {key} |-> IF k = key THEN entry ELSE cache[k]])
    <3> HIDE DEF Good
    <3> QED BY <1>7, <2>4 DEF cachePut
  <2>6. Kept(asks[c].answer) => Clean(level, entry.answer, entry.pack)
    BY <2>3, <2>4
  <2> QED BY <2>2, <2>4, <2>5, <2>6, <2>8
<1>8. CASE searchFailed(c) \/ emitDone(c) \/ askAborted(c)
  <2>1. Goes(c, [step |-> "end"]) /\ UNCHANGED cache
    BY <1>8 DEF searchFailed, emitDone, askAborted, writeSSEProblem, EndStream
  <2> QED BY <1>b, <2>1
<1> QED BY <1>1, <1>2, <1>3, <1>4, <1>5, <1>6, <1>7, <1>8 DEF AskStep

LEMMA ClearedStands ==
  ASSUME RowsInv, FactsStand, scene' = scene, NEW c \in Players, caller[c] # None => caller'[c] = caller[c],
         NEW step, NEW cached, NEW pack, NEW answer, Cleared(c, step, cached, pack, answer)
  PROVE  Cleared(c, step, cached, pack, answer)'
<1> HIDE DEF Kept
<1>1. PICK level : level = caller[c].access
  OBVIOUS
<1>2. (Known(level, pack) => Known(level, pack)') /\ (Clean(level, answer, pack) => Clean(level, answer, pack)')
  BY CleanStands
<1>3. Kept(answer)' = Kept(answer)
  BY DEF Kept
<1>4. caller[c] # None => (Known(caller[c].access, pack)' <=> Known(level, pack)')
  <2>1. caller[c] # None => (caller[c].access)' = level
    BY <1>1
  <2> QED BY <2>1
<1>5. caller[c] # None => (Clean(caller[c].access, answer, pack)' <=> Clean(level, answer, pack)')
  <2>1. caller[c] # None => (caller[c].access)' = level
    BY <1>1
  <2> QED BY <2>1
<1> QED BY <1>1, <1>2, <1>3, <1>4, <1>5 DEF Cleared

LEMMA CacheStands ==
  ASSUME RowsInv, FactsStand, scene' = scene,
         \A key \in DOMAIN cache' : Clean(key[2], cache'[key].answer, cache'[key].pack)
  PROVE  (\A key \in DOMAIN cache : Clean(key[2], cache[key].answer, cache[key].pack))'
<1>1. ASSUME NEW key \in DOMAIN cache' PROVE Clean(key[2], cache[key].answer, cache[key].pack)'
  <2>1. PICK answer, pack : answer = cache'[key].answer /\ pack = cache'[key].pack
    OBVIOUS
  <2>2. Clean(key[2], answer, pack)'
    BY <2>1, CleanStands
  <2> QED BY <2>1, <2>2
<1> QED BY <1>1

LEMMA CleanInit == Init => CleanInv
BY DEF Init, AskInit, CleanInv, Cleared

LEMMA CleanNext ==
  ASSUME DrainInv, AuditInv, RowsInv, PackInv, AccessInv, StreamInv, CleanInv, scene \in Scenes, [Next]_vars
  PROVE  CleanInv'
<1>0. FactsStand /\ scene' = scene /\ Players' = Players
  BY RowsStep, SceneStays DEF Players
<1> DEFINE Own(c) == Cleared(c, asks[c].step, asks[c].cached, asks[c].pack, asks[c].answer)
           Stored == \A key \in DOMAIN cache : Clean(key[2], cache[key].answer, cache[key].pack)
<1>1. ASSUME NEW c \in Players, caller[c] # None => caller'[c] = caller[c],
             Cleared(c, asks'[c].step, asks'[c].cached, asks'[c].pack, asks'[c].answer)
      PROVE  Own(c)'
  <2>1. PICK step, cached, pack, answer :
          step = asks'[c].step /\ cached = asks'[c].cached /\ pack = asks'[c].pack /\ answer = asks'[c].answer
    OBVIOUS
  <2>2. Cleared(c, step, cached, pack, answer)'
    BY <1>0, <1>1, <2>1, ClearedStands
  <2> QED BY <2>1, <2>2
<1>2. ASSUME NEW c \in Players, caller[c] # None => caller'[c] = caller[c], asks'[c] = asks[c] PROVE Own(c)'
  <2>1. Cleared(c, asks'[c].step, asks'[c].cached, asks'[c].pack, asks'[c].answer)
    BY <1>2 DEF CleanInv
  <2> QED BY <1>1, <1>2, <2>1
<1>3. CASE UNCHANGED answering /\ \A c \in Players : caller[c] # None => caller'[c] = caller[c]
  <2>1. \A c \in Players : asks'[c] = asks[c]
    BY <1>3 DEF answering
  <2>2. \A c \in Players : Own(c)'
    <3> HIDE DEF Own
    <3> QED BY <1>2, <1>3, <2>1
  <2>3. Stored'
    BY <1>0, <1>3, CacheStands DEF CleanInv, answering
  <2> QED BY <1>0, <2>2, <2>3 DEF CleanInv
<1>4. ASSUME NEW c \in Players, Acts(c), AskStep(c) PROVE CleanInv'
  <2>1. UNCHANGED <<scene, caller>>
    BY <1>4, ActsLeaveCallers
  <2>2. Cleared(c, asks'[c].step, asks'[c].cached, asks'[c].pack, asks'[c].answer)
    BY <1>4, <2>1, QuestionClears
  <2>3. \A d \in Players \ {c} : asks'[d] = asks[d]
    BY <1>4, QuestionStreams DEF Streams
  <2>4. \A d \in Players : Own(d)'
    <3>1. Own(c)'
      BY <1>1, <2>1, <2>2
    <3> HIDE DEF Own
    <3> QED BY <1>2, <2>1, <2>3, <3>1
  <2>5. \A key \in DOMAIN cache' : Clean(key[2], cache'[key].answer, cache'[key].pack)
    <3>1. \/ cache' = cache
          \/ \A key \in DOMAIN cache' : \/ key \in DOMAIN cache /\ cache'[key] = cache[key]
                                        \/ Clean(key[2], cache'[key].answer, cache'[key].pack)
      BY <1>4, <2>1, QuestionClears
    <3> QED BY <3>1 DEF CleanInv
  <2>6. Stored'
    BY <1>0, <2>5, CacheStands
  <2> QED BY <1>0, <2>4, <2>6 DEF CleanInv
<1>5. ASSUME NEW c \in Players, Acts(c), ~AskStep(c) PROVE CleanInv'
  BY <1>3, <1>5, ActsLeaveCallers DEF Acts
<1>6. CASE GatewayNext /\ UNCHANGED answering
  <2>1. \A c \in Players : caller[c] # None => caller'[c] = caller[c]
    BY <1>6 DEF GatewayNext, authorize, emitAuditEvent, recordAudit, HangUp, RuntimeStep, Problem, Respond, DrainInv
  <2> QED BY <1>3, <1>6, <2>1
<1>7. CASE Background
  <2>1. UNCHANGED <<answering, caller>>
    BY <1>7, BackgroundIsSilent DEF Background, Silent, vars
  <2> QED BY <1>3, <2>1
<1> QED BY <1>4, <1>5, <1>6, <1>7, Steps

(* What the LLM failed to write is not remembered: what the cache keeps was    *)
(* written by the LLM where there is one, or says that nothing was found, its  *)
(* numbers are in its evidence, and whoever it is served to may see what the   *)
(* graph gave for it - whatever the LLM invents, and whatever is committed,    *)
(* merged and decided after the answer was kept.  A retriever that failed      *)
(* leaves evidence out; what was written on the rest is kept.                  *)
THEOREM CacheIsAlwaysClean == Spec => []CacheIsClean
<1>1. CleanInv => CacheIsClean
  BY DEF CleanInv, CacheIsClean, Clean, Known, SeenBy, Sight
<1>2. Init => DrainInv /\ AuditInv /\ HoldInv /\ AcceptInv /\ RowsInv /\ PackInv /\ AccessInv /\ StreamInv /\ CleanInv
  BY DrainInit, AuditInit, HoldInit, AcceptInit, RowsInit, PackInit, AccessInit, StreamInit, CleanInit
<1>3. DrainInv /\ AuditInv /\ HoldInv /\ AcceptInv /\ RowsInv /\ PackInv /\ AccessInv /\ StreamInv /\ CleanInv /\ [Next]_vars
        => (DrainInv /\ AuditInv /\ HoldInv /\ AcceptInv /\ RowsInv /\ PackInv /\ AccessInv /\ StreamInv /\ CleanInv)'
  BY DrainNext, AuditNext, HoldNext, AcceptNext, RowsStep, PackNext, AccessNext, StreamNext, CleanNext DEF AcceptInv
<1> QED BY <1>1, <1>2, <1>3, PTL DEF Spec
-----------------------------------------------------------------------------
(* What a client has been told of the evidence for its question: all of it is  *)
(* known to be of its level, or of the sight of the retriever.                 *)
Heard(c, events) ==
  \A i \in 1..Len(events) :
    events[i].event = "evidence" => caller[c] # None /\ Known(caller[c].access, events[i].pack)

SeenInv == \A c \in Players : Heard(c, stream[c])

Carries(c, e) == e.event = "evidence" => caller[c] # None /\ Known(caller[c].access, e.pack)

LEMMA HeardOneMore ==
  ASSUME StreamInv, NEW c \in Players, Heard(c, stream[c]), NEW e, Emit(c, <<e>>), Carries(c, e)
  PROVE  Heard(c, stream'[c])
<1>1. PICK S : stream[c] \in Seq(S)
  BY DEF StreamInv
<1>2. PICK s, t : s = stream[c] /\ t = stream'[c]
  OBVIOUS
<1>3. Longer(s, e, t)
  <2>1. t = s \o <<e>>
    BY <1>2, EmitGrows DEF Grown
  <2> QED BY <1>1, <1>2, <2>1, OneMore
<1>4. PICK n \in Nat : Len(s) = n /\ Len(t) = n + 1
  BY <1>3 DEF Longer
<1>5. \A i \in 1..n + 1 : i \in 1..n \/ i = n + 1
  BY <1>4
<1> QED BY <1>2, <1>3, <1>4, <1>5 DEF Heard, Carries, Longer

LEMMA HeardTwoMore ==
  ASSUME StreamInv, NEW c \in Players, Heard(c, stream[c]), NEW e, NEW f, Emit(c, <<e, f>>), Carries(c, e), Carries(c, f)
  PROVE  Heard(c, stream'[c])
<1>1. PICK s, t : s = stream[c] /\ t = stream'[c]
  OBVIOUS
<1>2. t = s \o <<e, f>>
  BY <1>1, EmitGrows DEF Grown
<1>3. PICK u : Longer(s, e, u) /\ Longer(u, f, t)
  <2>1. PICK S : s \in Seq(S)
    BY <1>1 DEF StreamInv
  <2>2. PICK v : v = s \o <<e, f>>
    OBVIOUS
  <2> QED BY <1>2, <2>1, <2>2, TwoMore
<1>4. PICK n \in Nat : Len(s) = n /\ Len(u) = n + 1 /\ Len(t) = n + 2
  BY <1>3 DEF Longer
<1>5. \A i \in 1..n + 2 : i \in 1..n \/ i = n + 1 \/ i = n + 2
  BY <1>4
<1>6. \A i \in 1..n : t[i] = s[i]
  BY <1>3, <1>4 DEF Longer
<1>7. t[n + 1] = e /\ t[n + 2] = f
  BY <1>3, <1>4 DEF Longer
<1> QED BY <1>1, <1>4, <1>5, <1>6, <1>7 DEF Heard, Carries

LEMMA EvidenceParted ==
  ASSUME NEW level, NEW pack, Known(level, pack)
  PROVE  Known(level, mapEvidence(pack))
<1>1. PICK shown : shown = mapEvidence(pack)
  OBVIOUS
<1>2. /\ {"facts", "chunks", "consensus", "byText", "retrieved", "stats"} \subseteq DOMAIN shown
      /\ shown.facts = pack.facts /\ shown.chunks = pack.chunks
      /\ shown.byText = pack.byText /\ shown.retrieved = pack.retrieved
  BY <1>1 DEF Known, mapEvidence
<1>3. Known(level, shown)
  BY <1>2 DEF Known, SeenBy
<1> QED BY <1>1, <1>3

LEMMA QuestionCarries ==
  ASSUME StreamInv, DrainInv, AuditInv, PackInv, AccessInv, CleanInv, SeenInv, NEW c \in Players, AskStep(c),
         UNCHANGED scene
  PROVE  Heard(c, stream'[c])
<1>0. Heard(c, stream[c])
  BY DEF SeenInv
<1>a. ASSUME UNCHANGED stream PROVE Heard(c, stream'[c])
  BY <1>0, <1>a
<1>b. ASSUME NEW e, Emit(c, <<e>>), e.event # "evidence" PROVE Heard(c, stream'[c])
  BY <1>0, <1>b, HeardOneMore DEF Carries
<1>1. CASE queryParse(c) \/ askHandler(c) \/ planAndTerms(c) \/ augmentFacts(c) \/ runSynthesis(c) \/ cachePut(c)
  BY <1>1, <1>a DEF queryParse, askHandler, planAndTerms, augmentFacts, runSynthesis, cachePut, answering
<1>2. CASE cacheGet(c)
  <2>0. pc[c] = "handle"
    BY <1>2 DEF cacheGet, Going, Asking
  <2>1. ASSUME NEW key \in DOMAIN cache, key[2] = caller[c].access, NEW e, e.event = "plan",
               Emit(c, <<e, [event |-> "evidence", pack |-> mapEvidence(cache[key].pack)]>>)
        PROVE  Heard(c, stream'[c])
    <3>1. PICK f : f = [event |-> "evidence", pack |-> mapEvidence(cache[key].pack)]
      OBVIOUS
    <3>2. Known(key[2], cache[key].pack)
      BY DEF CleanInv, Clean
    <3>3. PICK level, shown : level = caller[c].access /\ shown = mapEvidence(cache[key].pack)
      OBVIOUS
    <3>4. Known(level, shown)
      BY <2>1, <3>2, <3>3, EvidenceParted
    <3>5. Carries(c, f)
      BY <2>0, <3>1, <3>3, <3>4, AskerLevel DEF Carries
    <3> QED BY <1>0, <2>1, <3>1, <3>5, HeardTwoMore DEF Carries
  <2>2. ASSUME NEW plan, Emit(c, <<[event |-> "plan", plan |-> plan]>>) PROVE Heard(c, stream'[c])
    <3>1. PICK e : e = [event |-> "plan", plan |-> plan]
      OBVIOUS
    <3> QED BY <1>b, <2>2, <3>1
  <2>a. PICK level, key : level = caller[c].access /\ key = planCacheKey(c)
    OBVIOUS
  <2>b. key[2] = level
    BY <2>a DEF planCacheKey
  <2>3. key = planCacheKey(c) /\ key[2] = caller[c].access
    BY <2>a, <2>b
  <2>4. \/ /\ key \in DOMAIN cache
           /\ \E plan : Emit(c, <<[event |-> "plan", plan |-> plan],
                                 [event |-> "evidence", pack |-> mapEvidence(cache[key].pack)]>>)
        \/ \E plan : Emit(c, <<[event |-> "plan", plan |-> plan]>>)
    BY <1>2, <2>3 DEF cacheGet
  <2>5. ASSUME NEW plan, key \in DOMAIN cache,
               Emit(c, <<[event |-> "plan", plan |-> plan],
                         [event |-> "evidence", pack |-> mapEvidence(cache[key].pack)]>>)
        PROVE  Heard(c, stream'[c])
    <3>1. PICK e : e = [event |-> "plan", plan |-> plan]
      OBVIOUS
    <3> QED BY <2>1, <2>3, <2>5, <3>1
  <2> QED BY <2>2, <2>4, <2>5
<1>3. CASE augmentChunks(c)
  <2>1. PICK pack : /\ Goes(c, [step |-> "synthesis", pack |-> pack])
                    /\ Emit(c, <<[event |-> "evidence", pack |-> mapEvidence(pack)]>>)
    BY <1>3 DEF augmentChunks
  <2>2. asks'[c].step = "synthesis" /\ asks'[c].pack = pack
    BY <2>1, AskGoes DEF AskFields
  <2>3. caller[c] # None /\ Known(caller[c].access, pack)
    BY <2>2, QuestionClears DEF Cleared
  <2>4. PICK e, shown : e = [event |-> "evidence", pack |-> shown] /\ shown = mapEvidence(pack)
    OBVIOUS
  <2>5. PICK level : level = caller[c].access
    OBVIOUS
  <2>6. Known(level, shown)
    BY <2>3, <2>4, <2>5, EvidenceParted
  <2>7. Carries(c, e)
    BY <2>3, <2>4, <2>5, <2>6 DEF Carries
  <2> QED BY <1>0, <2>1, <2>4, <2>7, HeardOneMore
<1>4. CASE searchFailed(c) \/ emitDelta(c) \/ emitDone(c) \/ askAborted(c)
  <2>1. \A code : writeSSEProblem(c, code) => \E e : Emit(c, <<e>>) /\ e.event # "evidence"
    BY DEF writeSSEProblem
  <2>2. UNCHANGED stream \/ \E e : Emit(c, <<e>>) /\ e.event # "evidence"
    BY <1>4, <2>1 DEF searchFailed, emitDelta, emitDone, askAborted
  <2> QED BY <1>a, <1>b, <2>2
<1> QED BY <1>1, <1>2, <1>3, <1>4 DEF AskStep

LEMMA ToldStands ==
  ASSUME RowsInv, FactsStand, scene' = scene, NEW c \in Players, caller[c] # None => caller'[c] = caller[c],
         NEW events, Heard(c, events)
  PROVE  Heard(c, events)'
<1>1. PICK level : level = caller[c].access
  OBVIOUS
<1>2. \A pack : Known(level, pack) => Known(level, pack)'
  BY CleanStands
<1>3. caller[c] # None => (caller[c].access)' = level /\ caller'[c] # None
  BY <1>1
<1>4. ASSUME NEW i \in 1..Len(events), events[i].event = "evidence"
      PROVE  (caller[c] # None /\ Known(caller[c].access, events[i].pack))'
  <2>1. PICK pack : pack = events[i].pack
    OBVIOUS
  <2>2. caller[c] # None /\ Known(level, pack)
    BY <1>1, <1>4, <2>1 DEF Heard
  <2>3. Known(level, pack)'
    BY <1>2, <2>2
  <2> QED BY <1>3, <2>1, <2>2, <2>3
<1> QED BY <1>4 DEF Heard

LEMMA SeenInit == Init => SeenInv
BY DEF Init, AskInit, SeenInv, Heard

LEMMA SeenNext ==
  ASSUME DrainInv, AuditInv, RowsInv, PackInv, AccessInv, StreamInv, CleanInv, SeenInv, scene \in Scenes, [Next]_vars
  PROVE  SeenInv'
<1>0. FactsStand /\ scene' = scene /\ Players' = Players
  BY RowsStep, SceneStays DEF Players
<1>1. ASSUME NEW c \in Players, caller[c] # None => caller'[c] = caller[c], Heard(c, stream'[c])
      PROVE  Heard(c, stream[c])'
  <2>1. PICK events : events = stream'[c]
    OBVIOUS
  <2>2. Heard(c, events)'
    BY <1>0, <1>1, <2>1, ToldStands
  <2> QED BY <2>1, <2>2
<1>2. ASSUME NEW c \in Players, caller[c] # None => caller'[c] = caller[c], stream'[c] = stream[c]
      PROVE  Heard(c, stream[c])'
  <2>1. Heard(c, stream'[c])
    BY <1>2 DEF SeenInv
  <2> QED BY <1>1, <1>2, <2>1
<1>3. CASE UNCHANGED answering /\ \A c \in Players : caller[c] # None => caller'[c] = caller[c]
  <2>1. \A c \in Players : stream'[c] = stream[c]
    BY <1>3 DEF answering
  <2>2. \A c \in Players : Heard(c, stream[c])'
    BY <1>2, <1>3, <2>1
  <2> QED BY <1>0, <2>2 DEF SeenInv
<1>4. ASSUME NEW c \in Players, Acts(c), AskStep(c) PROVE SeenInv'
  <2>1. UNCHANGED <<scene, caller>>
    BY <1>4, ActsLeaveCallers
  <2>2. Heard(c, stream'[c])
    BY <1>4, <2>1, QuestionCarries
  <2>3. \A d \in Players \ {c} : stream'[d] = stream[d]
    BY <1>4, QuestionStreams DEF Streams
  <2>4. \A d \in Players : Heard(d, stream[d])'
    BY <1>1, <1>2, <2>1, <2>2, <2>3
  <2> QED BY <1>0, <2>4 DEF SeenInv
<1>5. ASSUME NEW c \in Players, Acts(c), ~AskStep(c) PROVE SeenInv'
  BY <1>3, <1>5, ActsLeaveCallers DEF Acts
<1>6. CASE GatewayNext /\ UNCHANGED answering
  <2>1. \A c \in Players : caller[c] # None => caller'[c] = caller[c]
    BY <1>6 DEF GatewayNext, authorize, emitAuditEvent, recordAudit, HangUp, RuntimeStep, Problem, Respond, DrainInv
  <2> QED BY <1>3, <1>6, <2>1
<1>7. CASE Background
  <2>1. UNCHANGED <<answering, caller>>
    BY <1>7, BackgroundIsSilent DEF Background, Silent, vars
  <2> QED BY <1>3, <2>1
<1> QED BY <1>4, <1>5, <1>6, <1>7, Steps

(* A list, a search or a file shows no document, fact or chunk above the       *)
(* access of the token it is asked with, and no contradiction of such a fact,  *)
(* whatever is uploaded, committed, merged and decided while it is read.  The  *)
(* evidence of an answer shows such facts and chunks too, up to the sight of a *)
(* session without context, but only those that were found by their text: what *)
(* the graph gave is for the asker, also when it was kept for another's        *)
(* question.                                                                   *)
THEOREM ShownIsAlwaysVisible == Spec => []ShownIsVisible
<1>1. StreamInv /\ AccessInv /\ SeenInv => ShownIsVisible
  <2> SUFFICES ASSUME StreamInv, AccessInv, SeenInv, NEW c \in Players,
                      NEW level, level = PrincipalOf(Request(c).token).access
               PROVE  /\ \A e \in EventsOf(c, "evidence") : SeenBy(level, e.pack)
                      /\ reply[c].code = 200 =>
                           /\ \A f \in ShownFacts(c) : Sees(level, facts[f].access)
                           /\ Request(c).route = "search" =>
                                \A k \in Range(reply[c].body.chunks) : Sees(level, scene.chunks[k].access)
                           /\ Request(c).route \in {"status", "documents", "file"} =>
                                \A d \in reply[c].body.shown : Sees(level, docs[d].access)
    BY DEF ShownIsVisible, SeenBy
  <2>1. ASSUME NEW e \in EventsOf(c, "evidence") PROVE SeenBy(level, e.pack)
    <3>1. DOMAIN stream[c] = 1..Len(stream[c])
      BY DEF StreamInv
    <3>2. caller[c] # None /\ Known(caller[c].access, e.pack)
      BY <3>1 DEF SeenInv, Heard, EventsOf
    <3>3. caller[c].access = level
      BY <3>2 DEF AccessInv
    <3> QED BY <3>2, <3>3 DEF Known
  <2>2. ASSUME reply[c].code = 200
        PROVE  /\ \A f \in ShownFacts(c) : Sees(level, facts[f].access)
               /\ Request(c).route = "search" =>
                    \A k \in Range(reply[c].body.chunks) : Sees(level, scene.chunks[k].access)
               /\ Request(c).route \in {"status", "documents", "file"} =>
                    \A d \in reply[c].body.shown : Sees(level, docs[d].access)
    <3>1. Level(c) = level /\ Shown(c)
      BY <2>2, LevelIsAccess DEF AccessInv
    <3> QED BY <3>1 DEF Shown, Fits, ShownFacts, MaySee, MayRead, SeesChunk
  <2> QED BY <2>1, <2>2
<1> DEFINE All == /\ DrainInv /\ AuditInv /\ HoldInv /\ AcceptInv /\ RowsInv
                  /\ PackInv /\ AccessInv /\ StreamInv /\ CleanInv /\ SeenInv
<1>2. Init => All
  BY DrainInit, AuditInit, HoldInit, AcceptInit, RowsInit, PackInit, AccessInit, StreamInit, CleanInit, SeenInit
<1>3. All /\ [Next]_vars => All'
  BY DrainNext, AuditNext, HoldNext, AcceptNext, RowsStep, PackNext, AccessNext, StreamNext, CleanNext, SeenNext
     DEF AcceptInv
<1> QED BY <1>1, <1>2, <1>3, PTL DEF Spec

-----------------------------------------------------------------------------
(* What a search counts, and what a question has told of its evidence and its  *)
(* answer, at each step.                                                      *)
Counts(pack) == pack.stats.sources = Cardinality(Sources(pack.facts))

Counted(step, pack) ==
  /\ step = "expand" => pack.facts = << >> /\ pack.stats = NoStats
  /\ step = "ready" => Counts(pack)

CountInv == \A c \in Players : Counted(search[c].step, search[c].pack)

EvidenceParts == {"facts", "subjects", "chunks", "consensus", "contradictions", "stats", "byText", "retrieved"}

DocsOf(pack) == Sources(pack.facts) \cup (IF pack.retrieved THEN {scene.chunks[k].doc : k \in Range(pack.chunks)} ELSE {})

PackHolds(pack) ==
  /\ EvidenceParts \subseteq DOMAIN pack /\ Range(pack.facts) \subseteq DOMAIN facts
  /\ \A k \in pack.contradictions : {k.a, k.b} \subseteq DOMAIN pack.facts
  /\ pack.stats.sources = Cardinality(DocsOf(pack))

Cites(methods, pack) == \A m \in methods : m.citations # {} /\ m.citations \subseteq DOMAIN pack.facts

AnswerHolds(answer, pack) ==
  PackHolds(pack) /\ answer.violations = runGuard(answer, pack) /\ Cites(answer.methods, pack)

TrueEvent(e, step, answer, pack) ==
  /\ e.event = "evidence" => /\ PackHolds(pack) /\ e.pack = mapEvidence(pack)
                             /\ step \in {"synthesis", "deltas", "put", "done", "end"}
  /\ e.event = "answer.done" => AnswerHolds(answer, pack) /\ e.answer = mapAnswer(answer) /\ step = "end"

Holds(step, answer, pack) ==
  /\ step = "chunks" => pack.retrieved = FALSE
  /\ step \in {"chunks", "synthesis"} => PackHolds(pack)
  /\ step \in {"deltas", "put", "done"} => AnswerHolds(answer, pack)

Fitting(s, step, answer, pack) ==
  Holds(step, answer, pack) /\ \A i \in 1..Len(s) : TrueEvent(s[i], step, answer, pack)

FitInv ==
  /\ \A c \in Players : Fitting(stream[c], asks[c].step, asks[c].answer, asks[c].pack)
  /\ \A key \in DOMAIN cache : AnswerHolds(cache[key].answer, cache[key].pack)

LEMMA NothingCounted ==
  ASSUME NEW pack, pack.facts = << >>, pack.stats = NoStats
  PROVE  Counts(pack)
<1>1. Sources(pack.facts) = {}
  BY DEF Sources, Range
<1>2. Cardinality(Sources(pack.facts)) = 0
  BY <1>1, FS_EmptySet
<1>3. pack.stats.sources = 0
  BY DEF NoStats
<1> QED BY <1>2, <1>3 DEF Counts

LEMMA SourcesStand ==
  ASSUME FactsStand, NEW fs, Range(fs) \subseteq DOMAIN facts
  PROVE  Sources(fs)' = Sources(fs)
<1>1. \A f \in Range(fs) : facts'[f].doc = facts[f].doc
  BY DEF FactsStand, FactColumns
<1>2. PICK R : R = Range(fs)
  OBVIOUS
<1>3. {facts'[f].doc : f \in R} = {facts[f].doc : f \in R}
  BY <1>1, <1>2
<1> QED BY <1>2, <1>3 DEF Sources

(* The step after a read counts what it leaves, or leaves it to be counted.   *)
LEMMA LaterGoes ==
  ASSUME PackInv, NEW c \in Players, search[c].step \in Range(ReadSteps) \ {"expand", "graph"},
         NEW pack, Then(c, pack)
  PROVE  \E step : Gives(c, pack, step) /\ step \notin {"expand", "ready"}
<1>1. PICK i \in 1..8 : i = CHOOSE j \in DOMAIN ReadSteps : ReadSteps[j] = search[c].step
  BY DEF ReadSteps, Range
<1>2. ReadSteps[i] = search[c].step
  BY <1>1 DEF Range
<1>3. i # 1 /\ i # 8 /\ Len(ReadSteps) = 8
  BY <1>2 DEF ReadSteps
<1> DEFINE step == ReadSteps[i + 1]
<1>4. step \notin {"expand", "ready"}
  <2>1. i = 2 \/ i = 3 \/ i = 4 \/ i = 5 \/ i = 6 \/ i = 7
    BY <1>3
  <2> QED BY <2>1 DEF ReadSteps
<1>5. search' = [search EXCEPT ![c].pack = pack, ![c].step = step]
  BY <1>1, <1>3 DEF Then
<1>6. Gives(c, pack, step)
  <2> HIDE DEF step
  <2> QED BY <1>5 DEF PackInv, Gives, SearchFields
<1> QED BY <1>4, <1>6

LEMMA LastReadGoes ==
  ASSUME PackInv, NEW c \in Players, search[c].step = "graph", NEW pack, Then(c, pack)
  PROVE  Gives(c, pack, "ready")
<1>1. PICK i \in 1..8 : i = CHOOSE j \in DOMAIN ReadSteps : ReadSteps[j] = search[c].step
  BY DEF ReadSteps
<1>2. ReadSteps[i] = "graph"
  <2>1. 8 \in DOMAIN ReadSteps /\ ReadSteps[8] = search[c].step
    BY DEF ReadSteps
  <2> QED BY <1>1, <2>1
<1>3. i = 8 /\ Len(ReadSteps) = 8
  <2>1. i = 1 \/ i = 2 \/ i = 3 \/ i = 4 \/ i = 5 \/ i = 6 \/ i = 7 \/ i = 8
    OBVIOUS
  <2> QED BY <1>2, <2>1 DEF ReadSteps
<1>4. search' = [search EXCEPT ![c].pack = pack, ![c].step = "ready"]
  <2>1. (IF i = Len(ReadSteps) THEN "ready" ELSE ReadSteps[i + 1]) = "ready"
    BY <1>3
  <2>2. search' = [search EXCEPT ![c].pack = pack, ![c].step = IF i = Len(ReadSteps) THEN "ready" ELSE ReadSteps[i + 1]]
    BY <1>1 DEF Then
  <2> QED BY <2>1, <2>2
<1> QED BY <1>4 DEF PackInv, Gives, SearchFields

LEMMA MoveCounts ==
  ASSUME PackInv, CountInv, NEW c \in Players, SearchMove(c), pc[c] = "handle" => caller[c] # None
  PROVE  \E pack, step : Gives(c, pack, step) /\ Counted(step, pack)
<1> DEFINE Good == \E pack, step : Gives(c, pack, step) /\ Counted(step, pack)
<1>1. ASSUME NEW plan, StartSearch(c, plan) PROVE Good
  <2>1. PICK step \in {"ready", "expand"} :
          search' = [search EXCEPT ![c] = [step |-> step, plan |-> plan, since |-> Len(history),
                                           before |-> DOMAIN facts, ids |-> {}, pack |-> EmptyPack]]
    BY <1>1 DEF StartSearch
  <2>2. Gives(c, EmptyPack, step)
    BY <2>1 DEF PackInv, Gives, SearchFields
  <2>3. EmptyPack.facts = << >> /\ EmptyPack.stats = NoStats
    BY DEF EmptyPack
  <2> QED BY <2>2, <2>3, NothingCounted DEF Counted
<1>2. CASE search[c].step = "ready" /\ search' = [search EXCEPT ![c].step = "done"]
  <2>1. Gives(c, search[c].pack, "done")
    BY <1>2 DEF PackInv, Gives, SearchFields
  <2> QED BY <2>1 DEF Counted
<1>3. CASE ExpandEntityIDs(c)
  <2>1. PICK ids, step : /\ search' = [search EXCEPT ![c].ids = ids, ![c].step = step]
                         /\ step \in {"ready", "facts"} /\ search[c].step = "expand"
    BY <1>3 DEF ExpandEntityIDs, Reading
  <2>2. Gives(c, search[c].pack, step)
    BY <2>1 DEF PackInv, Gives, SearchFields
  <2>3. Counts(search[c].pack)
    BY <2>1, NothingCounted DEF CountInv, Counted
  <2> QED BY <2>1, <2>2, <2>3 DEF Counted
<1>4. CASE Facts(c) \/ FTSChunks(c) \/ Consensus(c) \/ Contradictions(c) \/ Gaps(c) \/ Experts(c)
  <2>1. search[c].step \in Range(ReadSteps) \ {"expand", "graph"}
    BY <1>4, ReadsAre DEF Facts, FTSChunks, Consensus, Contradictions, Gaps, Experts, Reading
  <2>2. search' = [search EXCEPT ![c].step = "failed"] \/ \E pack : Then(c, pack)
    BY <1>4 DEF Facts, FTSChunks, Consensus, Contradictions, Gaps, Experts
  <2>3. CASE search' = [search EXCEPT ![c].step = "failed"]
    <3>1. Gives(c, search[c].pack, "failed")
      BY <2>3 DEF PackInv, Gives, SearchFields
    <3> QED BY <3>1 DEF Counted
  <2>4. ASSUME NEW pack, Then(c, pack) PROVE Good
    BY <2>1, <2>4, LaterGoes DEF Counted
  <2> QED BY <2>2, <2>3, <2>4
<1>5. CASE EgoGraph(c)
  <2>1. PICK before : before = search[c].pack
    OBVIOUS
  <2>2. PICK nodes, es, pack :
          Then(c, pack) /\ pack = [before EXCEPT !.nodes = nodes, !.edges = es, !.stats = computeStats(before.facts)]
    BY <1>5, <2>1 DEF EgoGraph
  <2>3. search[c].step = "graph"
    BY <1>5 DEF EgoGraph, Reading
  <2>4. PackParts \subseteq DOMAIN before
    BY <2>1, <2>3 DEF PackInv, Packed, PackFits
  <2>5. pack.facts = before.facts /\ pack.stats = computeStats(before.facts)
    BY <2>2, <2>4 DEF PackParts
  <2>6. Counts(pack)
    <3>1. computeStats(before.facts).sources = Cardinality(Sources(before.facts))
      BY DEF computeStats, StatsOf
    <3> QED BY <2>5, <3>1 DEF Counts
  <2>7. Gives(c, pack, "ready")
    BY <2>2, <2>3, LastReadGoes
  <2> QED BY <2>6, <2>7 DEF Counted
<1>6. CASE SearchFails(c)
  <2>1. Gives(c, search[c].pack, "failed")
    BY <1>6 DEF SearchFails, PackInv, Gives, SearchFields
  <2> QED BY <2>1 DEF Counted
<1> QED BY <1>1, <1>2, <1>3, <1>4, <1>5, <1>6 DEF SearchMove, buildPack

LEMMA CountedStands ==
  ASSUME FactsStand, NEW c, PackInv, c \in Players, NEW step, NEW pack, Counted(step, pack),
         Range(pack.facts) \subseteq DOMAIN facts
  PROVE  Counted(step, pack)'
<1>1. Sources(pack.facts)' = Sources(pack.facts)
  BY SourcesStand
<1>2. Counts(pack)' = Counts(pack)
  BY <1>1 DEF Counts
<1> QED BY <1>2 DEF Counted

LEMMA CountInit == Init => CountInv
BY DEF Init, SearchInit, CountInv, Counted, Nothing

LEMMA CountNext ==
  ASSUME DrainInv, AuditInv, RowsInv, PackInv, CountInv, scene \in Scenes, [Next]_vars
  PROVE  CountInv'
<1>0. FactsStand /\ Players' = Players /\ PackInv'
  BY RowsStep, SceneStays, PackNext DEF Players
<1>1. ASSUME NEW c \in Players, NEW step, NEW pack, search'[c].step = step, search'[c].pack = pack,
             Counted(step, pack), step \in {"expand", "ready"} => Range(pack.facts) \subseteq DOMAIN facts
      PROVE  Counted(search[c].step, search[c].pack)'
  <2>1. step \in {"expand", "ready"} => Counted(step, pack)'
    BY <1>0, <1>1, CountedStands
  <2>2. Counted(step, pack)'
    BY <2>1 DEF Counted
  <2>3. (search[c].step)' = step /\ (search[c].pack)' = pack
    BY <1>1
  <2> QED BY <2>2, <2>3
<1>2. ASSUME NEW c \in Players, search'[c] = search[c]
      PROVE  Counted(search[c].step, search[c].pack)'
  <2>1. search[c].step # "none" => Range(search[c].pack.facts) \subseteq DOMAIN facts
    BY DEF PackInv, Packed, PackFits, MaySee
  <2>2. Counted(search[c].step, search[c].pack)
    BY DEF CountInv
  <2>3. PICK step, pack : step = search[c].step /\ pack = search[c].pack
    OBVIOUS
  <2> HIDE DEF Counted
  <2> QED BY <1>1, <1>2, <2>1, <2>2, <2>3
<1>3. CASE UNCHANGED search
  BY <1>0, <1>2, <1>3 DEF CountInv
<1>4. ASSUME NEW c \in Players, Acts(c), SearchMove(c) PROVE CountInv'
  <2>1. PICK pack, step : Gives(c, pack, step) /\ Counted(step, pack)
    BY <1>4, MoveCounts DEF AuditInv, Traced
  <2>2. Range(pack.facts) \subseteq DOMAIN facts
    <3>1. PICK more, next : SearchGoes(c, more, next)
      BY <1>4, MoveGoes DEF AuditInv, Traced
    <3>2. more = pack
      BY <2>1, <3>1 DEF SearchGoes, Gives
    <3> QED BY <3>1, <3>2 DEF SearchGoes, PackFits, MaySee
  <2>3. Counted(search[c].step, search[c].pack)'
    <3> HIDE DEF Counted
    <3> QED BY <1>1, <2>1, <2>2 DEF Gives
  <2>4. \A d \in Players \ {c} : search'[d] = search[d]
    BY <2>1 DEF Gives
  <2> QED BY <1>0, <1>2, <2>3, <2>4 DEF CountInv
<1>5. ASSUME NEW c \in Players, Acts(c), UNCHANGED search PROVE CountInv'
  BY <1>3, <1>5
<1>6. CASE GatewayNext /\ UNCHANGED search
  BY <1>3, <1>6
<1>7. CASE Background
  <2>1. UNCHANGED search
    BY <1>7, BackgroundIsSilent DEF Background, Silent, vars
  <2> QED BY <1>3, <2>1
<1> QED BY <1>4, <1>5, <1>6, <1>7, Steps, SearchMoves

-----------------------------------------------------------------------------
(* What the evidence and the answer are made of fits.                         *)
LEMMA EvidenceCounts ==
  ASSUME NEW fs, NEW ks
  PROVE  evidenceStats(fs, ks).sources = Cardinality(Sources(fs) \cup {scene.chunks[k].doc : k \in Range(ks)})
<1>1. {scene.chunks[ks[i]].doc : i \in DOMAIN ks} = {scene.chunks[k].doc : k \in Range(ks)}
  BY DEF Range
<1>2. \A ds, geography, year : StatsOf(ds, geography, year).sources = Cardinality(ds)
  BY DEF StatsOf
<1> QED BY <1>1, <1>2 DEF evidenceStats

LEMMA MethodsCite == ASSUME NEW pack PROVE Cites(deriveMethods(pack), pack)
<1>1. PICK views : views = FactViews(pack)
  OBVIOUS
<1>2. DOMAIN views \subseteq DOMAIN pack.facts
  BY <1>1 DEF FactViews, First
<1> DEFINE Subject(i) == pack.subjects[views[i]]
           named == {i \in DOMAIN views : Subject(i) # None /\ scene.etype[Subject(i)] \in {"process", "technology"}}
<1>3. deriveMethods(pack)
        = {[method |-> s, citations |-> {i \in named : Subject(i) = s}] : s \in {Subject(i) : i \in named}}
  BY <1>1 DEF deriveMethods
<1>4. named \subseteq DOMAIN pack.facts
  BY <1>2
<1> HIDE DEF named
<1>5. ASSUME NEW m \in deriveMethods(pack) PROVE m.citations # {} /\ m.citations \subseteq DOMAIN pack.facts
  <2>1. PICK i \in named : m = [method |-> Subject(i), citations |-> {j \in named : Subject(j) = Subject(i)}]
    BY <1>3, <1>5
  <2>2. i \in m.citations /\ m.citations \subseteq named
    BY <2>1
  <2> QED BY <1>4, <2>2
<1> QED BY <1>5 DEF Cites

LEMMA GuardedFits ==
  ASSUME NEW text, NEW degraded, NEW pack, PackHolds(pack), Cites(text.methods, pack)
  PROVE  AnswerHolds(Guarded(text, degraded, pack), pack)
<1>1. PICK kept : kept = IF runGuard(text, pack) > 0 THEN extractiveSynthesis(pack) ELSE text
  OBVIOUS
<1>2. PICK b : b = (degraded \/ runGuard(text, pack) > 0)
  OBVIOUS
<1>3. PICK answer : answer = Guarded(text, degraded, pack)
  OBVIOUS
<1>4. answer = [numbers |-> kept.numbers, methods |-> kept.methods, confidence |-> kept.confidence, by |-> kept.by,
                violations |-> runGuard(kept, pack), degraded |-> b]
  BY <1>1, <1>2, <1>3, Zenon DEF Guarded
<1>5. runGuard(answer, pack) = runGuard(kept, pack)
  BY <1>4 DEF runGuard
<1>6. Cites(extractiveSynthesis(pack).methods, pack)
  BY MethodsCite DEF extractiveSynthesis, Cites
<1>7. Cites(kept.methods, pack)
  BY <1>1, <1>6
<1>8. answer.methods = kept.methods /\ answer.violations = runGuard(kept, pack)
  BY <1>4
<1> QED BY <1>3, <1>5, <1>7, <1>8 DEF AnswerHolds

LEMMA PackHoldsStill ==
  ASSUME FactsStand, scene' = scene, NEW pack, PackHolds(pack)
  PROVE  PackHolds(pack)'
<1>1. Sources(pack.facts)' = Sources(pack.facts)
  BY SourcesStand DEF PackHolds
<1>2. DocsOf(pack)' = DocsOf(pack)
  BY <1>1 DEF DocsOf
<1>3. Range(pack.facts) \subseteq DOMAIN facts'
  BY DEF PackHolds, FactsStand
<1> QED BY <1>2, <1>3 DEF PackHolds

LEMMA AnswerHoldsStill ==
  ASSUME RowsInv, FactsStand, scene' = scene, NEW answer, NEW pack, AnswerHolds(answer, pack)
  PROVE  AnswerHolds(answer, pack)'
<1>1. PackHolds(pack) /\ PackHolds(pack)'
  BY PackHoldsStill DEF AnswerHolds
<1>2. allowedNumbers(pack)' = allowedNumbers(pack)
  BY <1>1, NumbersStand DEF PackHolds
<1>3. runGuard(answer, pack)' = runGuard(answer, pack)
  BY <1>2 DEF runGuard, Violations
<1>4. Cites(answer.methods, pack)' = Cites(answer.methods, pack)
  BY DEF Cites
<1> QED BY <1>1, <1>3, <1>4 DEF AnswerHolds

LEMMA FittingStands ==
  ASSUME RowsInv, FactsStand, scene' = scene, NEW s, NEW step, NEW answer, NEW pack, Fitting(s, step, answer, pack)
  PROVE  Fitting(s, step, answer, pack)'
<1>1. (PackHolds(pack) => PackHolds(pack)') /\ (AnswerHolds(answer, pack) => AnswerHolds(answer, pack)')
  BY PackHoldsStill, AnswerHoldsStill
<1>2. \A e : TrueEvent(e, step, answer, pack) => TrueEvent(e, step, answer, pack)'
  BY <1>1 DEF TrueEvent
<1>3. Holds(step, answer, pack)'
  BY <1>1 DEF Fitting, Holds
<1> QED BY <1>2, <1>3 DEF Fitting

(* A question that sends nothing, or one event, tells the truth still if what  *)
(* it sent before is true of what it holds then.                              *)
Truthful(s, step, answer, pack) == \A i \in 1..Len(s) : TrueEvent(s[i], step, answer, pack)

LEMMA TellsOne ==
  ASSUME StreamInv, NEW c \in Players, NEW e, Emit(c, <<e>>),
         NEW step, NEW answer, NEW pack, Truthful(stream[c], step, answer, pack), TrueEvent(e, step, answer, pack)
  PROVE  Truthful(stream'[c], step, answer, pack)
<1>1. PICK S : stream[c] \in Seq(S)
  BY DEF StreamInv
<1>2. PICK s, t : s = stream[c] /\ t = stream'[c]
  OBVIOUS
<1>3. Longer(s, e, t)
  <2>1. t = s \o <<e>>
    BY <1>2, EmitGrows DEF Grown
  <2> QED BY <1>1, <1>2, <2>1, OneMore
<1> HIDE DEF TrueEvent
<1>4. PICK n \in Nat : Len(s) = n /\ Len(t) = n + 1
  BY <1>3 DEF Longer
<1>5. \A i \in 1..n + 1 : i \in 1..n \/ i = n + 1
  BY <1>4
<1> QED BY <1>2, <1>3, <1>4, <1>5 DEF Truthful, Longer

LEMMA TellsTwo ==
  ASSUME StreamInv, NEW c \in Players, NEW e, NEW f, Emit(c, <<e, f>>), stream[c] = << >>,
         NEW step, NEW answer, NEW pack, TrueEvent(e, step, answer, pack), TrueEvent(f, step, answer, pack)
  PROVE  Truthful(stream'[c], step, answer, pack)
<1>1. PICK s, t : s = stream[c] /\ t = stream'[c]
  OBVIOUS
<1>2. t = s \o <<e, f>>
  BY <1>1, EmitGrows DEF Grown
<1>3. PICK u : Longer(s, e, u) /\ Longer(u, f, t)
  <2>1. PICK S : s \in Seq(S)
    BY <1>1 DEF StreamInv
  <2>2. PICK v : v = s \o <<e, f>>
    OBVIOUS
  <2> QED BY <1>2, <2>1, <2>2, TwoMore
<1>4. Len(s) = 0
  BY <1>1
<1>5. Len(t) = 2 /\ t[1] = e /\ t[2] = f
  BY <1>3, <1>4 DEF Longer
<1> HIDE DEF TrueEvent
<1> QED BY <1>1, <1>5 DEF Truthful

(* What has been sent says nothing yet of the evidence, or of the answer.     *)
LEMMA OnlyPlans ==
  ASSUME StreamInv, NEW c \in Players, asks[c].step \in {"new", "parsing", "lookup", "search", "chunks"},
         NEW step, NEW answer, NEW pack
  PROVE  Truthful(stream[c], step, answer, pack)
<1>1. Len(stream[c]) \in 0..1 /\ \A i \in 1..Len(stream[c]) : InPlace(stream[c][i], i)
  <2>1. asks[c].step # "end" /\ Sent(asks[c].step, asks[c].part) \in 0..1
    BY DEF Sent
  <2> QED BY <2>1, SentIs
<1>2. \A i \in 1..Len(stream[c]) : stream[c][i].event = "plan"
  BY <1>1 DEF InPlace, NameAt
<1> QED BY <1>2 DEF Truthful, TrueEvent

LEMMA NoAnswerYet ==
  ASSUME StreamInv, NEW c \in Players, asks[c].step \in {"synthesis", "deltas", "put", "done"},
         Truthful(stream[c], asks[c].step, asks[c].answer, asks[c].pack),
         NEW step \in {"synthesis", "deltas", "put", "done", "end"}, NEW answer
  PROVE  Truthful(stream[c], step, answer, asks[c].pack)
<1>1. \A i \in 1..Len(stream[c]) : stream[c][i].event # "answer.done"
  <2>1. Len(stream[c]) \in 0..Deltas + 2 /\ \A i \in 1..Len(stream[c]) : InPlace(stream[c][i], i)
    BY SentIs
  <2>2. \A i \in 1..Len(stream[c]) : i <= Deltas + 2
    BY <2>1, DeltasAssumption
  <2> QED BY <2>1, <2>2 DEF InPlace, NameAt
<1> QED BY <1>1 DEF Truthful, TrueEvent

LEMMA TrueToTheEnd ==
  ASSUME NEW s, NEW step, NEW answer, NEW pack, Truthful(s, step, answer, pack)
  PROVE  Truthful(s, "end", answer, pack)
BY DEF Truthful, TrueEvent

LEMMA AugmentedFits ==
  ASSUME NEW c, NEW before, PackFits(c, before), Counts(before), NEW pack,
         pack = [part \in DOMAIN before \cup {"byText", "retrieved"} |->
                   IF part \in {"byText", "retrieved"} THEN FALSE ELSE before[part]]
  PROVE  PackHolds(pack) /\ pack.retrieved = FALSE
<1>1. /\ EvidenceParts \subseteq DOMAIN pack /\ pack.facts = before.facts /\ pack.stats = before.stats
      /\ pack.contradictions = before.contradictions /\ pack.retrieved = FALSE
  BY DEF PackFits, PackParts, EvidenceParts
<1>2. DocsOf(pack) = Sources(pack.facts)
  BY <1>1 DEF DocsOf
<1>3. Range(pack.facts) \subseteq DOMAIN facts
  BY <1>1 DEF PackFits, MaySee
<1>4. \A k \in pack.contradictions : {k.a, k.b} \subseteq DOMAIN pack.facts
  BY <1>1 DEF PackFits, Disputed
<1>5. pack.stats.sources = Cardinality(DocsOf(pack))
  BY <1>1, <1>2 DEF Counts
<1> QED BY <1>1, <1>3, <1>4, <1>5 DEF PackHolds

LEMMA FoundFits ==
  ASSUME NEW c, NEW before, EvidenceParts \subseteq DOMAIN before, before.retrieved = FALSE, NEW subjects, NEW pack,
         pack = [before EXCEPT !.facts = FactsByText(c), !.contradictions = {}, !.byText = TRUE,
                               !.subjects = subjects, !.stats = evidenceStats(FactsByText(c), << >>)]
  PROVE  PackHolds(pack) /\ pack.retrieved = FALSE
<1>1. PICK found, stats : found = FactsByText(c) /\ stats = evidenceStats(found, << >>)
  OBVIOUS
<1>2. pack = [before EXCEPT !.facts = found, !.contradictions = {}, !.byText = TRUE,
                            !.subjects = subjects, !.stats = stats]
  BY <1>1
<1>3. /\ EvidenceParts \subseteq DOMAIN pack /\ pack.facts = found /\ pack.stats = stats
      /\ pack.contradictions = {} /\ pack.retrieved = FALSE
  BY <1>2 DEF EvidenceParts
<1>4. stats.sources = Cardinality(Sources(found))
  <2>1. {scene.chunks[k].doc : k \in Range(<< >>)} = {}
    BY DEF Range
  <2> QED BY <1>1, <2>1, EvidenceCounts
<1>5. DocsOf(pack) = Sources(found)
  BY <1>3 DEF DocsOf
<1>6. Range(pack.facts) \subseteq DOMAIN facts
  BY <1>1, <1>3, FoundByText
<1> QED BY <1>3, <1>4, <1>5, <1>6 DEF PackHolds

LEMMA WithChunksFits ==
  ASSUME NEW before, PackHolds(before), before.retrieved = FALSE, NEW chunks, NEW pack,
         pack = IF chunks = << >> THEN before
                ELSE [before EXCEPT !.chunks = chunks, !.retrieved = TRUE, !.stats = evidenceStats(before.facts, chunks)]
  PROVE  PackHolds(pack)
<1>1. CASE chunks = << >>
  BY <1>1
<1>2. CASE chunks # << >>
  <2>1. PICK stats : stats = evidenceStats(before.facts, chunks)
    OBVIOUS
  <2>2. pack = [before EXCEPT !.chunks = chunks, !.retrieved = TRUE, !.stats = stats]
    BY <1>2, <2>1
  <2>3. /\ EvidenceParts \subseteq DOMAIN pack /\ pack.facts = before.facts /\ pack.stats = stats
        /\ pack.contradictions = before.contradictions /\ pack.retrieved = TRUE /\ pack.chunks = chunks
    BY <2>2 DEF PackHolds, EvidenceParts
  <2>4. stats.sources = Cardinality(DocsOf(pack))
    <3>1. DocsOf(pack) = Sources(before.facts) \cup {scene.chunks[k].doc : k \in Range(chunks)}
      BY <2>3 DEF DocsOf
    <3> QED BY <2>1, <3>1, EvidenceCounts
  <2> QED BY <2>3, <2>4 DEF PackHolds
<1> QED BY <1>1, <1>2

LEMMA QuestionFits ==
  ASSUME StreamInv, DrainInv, AuditInv, PackInv, CountInv, FitInv, NEW c \in Players, AskStep(c), UNCHANGED scene
  PROVE  /\ Fitting(stream'[c], asks'[c].step, asks'[c].answer, asks'[c].pack)
         /\ \A key \in DOMAIN cache' : AnswerHolds(cache'[key].answer, cache'[key].pack)
<1> DEFINE Good == Fitting(stream'[c], asks'[c].step, asks'[c].answer, asks'[c].pack)
           Stored == \A key \in DOMAIN cache' : AnswerHolds(cache'[key].answer, cache'[key].pack)
<1>0. /\ Holds(asks[c].step, asks[c].answer, asks[c].pack)
      /\ Truthful(stream[c], asks[c].step, asks[c].answer, asks[c].pack)
      /\ UNCHANGED cache => Stored
  BY DEF FitInv, Fitting, Truthful
<1>a. ASSUME NEW step, NEW answer, NEW pack, asks'[c].step = step, asks'[c].answer = answer, asks'[c].pack = pack,
             Holds(step, answer, pack), Truthful(stream'[c], step, answer, pack)
      PROVE  Good
  BY <1>a DEF Fitting, Truthful
<1>b. CASE UNCHANGED <<asks, stream, cache>>
  BY <1>b, <1>0 DEF FitInv
<1>c. ASSUME NEW fields, Goes(c, fields), "step" \in DOMAIN fields, fields.step \in {"parsing", "lookup"},
             UNCHANGED <<stream, cache>>, asks[c].step \in {"new", "parsing"}
      PROVE  Good /\ Stored
  <2>1. PICK answer, pack : answer = asks'[c].answer /\ pack = asks'[c].pack
    OBVIOUS
  <2>2. asks'[c].step = fields.step /\ Holds(fields.step, answer, pack)
    BY <1>c, AskGoes DEF AskFields, Holds
  <2>3. Truthful(stream[c], fields.step, answer, pack)
    BY <1>c, OnlyPlans
  <2> HIDE DEF Good, Stored
  <2> QED BY <1>0, <1>a, <1>c, <2>1, <2>2, <2>3
<1> SUFFICES Good /\ Stored
  OBVIOUS
<1> HIDE DEF Good, Stored
<1>d. ASSUME NEW code, writeSSEProblem(c, code), asks[c].step # "end", UNCHANGED cache
      PROVE  Good /\ Stored
  <2>1. PICK e : e.event = "error" /\ Emit(c, <<e>>) /\ Goes(c, [step |-> "end"])
    BY <1>d DEF writeSSEProblem, EndStream
  <2>2. asks'[c].step = "end" /\ asks'[c].answer = asks[c].answer /\ asks'[c].pack = asks[c].pack
    BY <2>1, AskGoes DEF AskFields
  <2>3. Truthful(stream'[c], "end", asks[c].answer, asks[c].pack)
    <3>1. TrueEvent(e, "end", asks[c].answer, asks[c].pack)
      BY <2>1 DEF TrueEvent
    <3> QED BY <1>0, <2>1, <3>1, TrueToTheEnd, TellsOne
  <2>4. Holds("end", asks[c].answer, asks[c].pack)
    BY DEF Holds
  <2> QED BY <1>0, <1>a, <1>d, <2>2, <2>3, <2>4
<1>1. CASE queryParse(c)
  BY <1>b, <1>1 DEF queryParse, answering, Good, Stored
<1>2. CASE askHandler(c) \/ planAndTerms(c)
  <2>1. asks[c].step \in {"new", "parsing"} /\ UNCHANGED <<stream, cache>>
    BY <1>2 DEF askHandler, planAndTerms, Asking, Going
  <2>2. UNCHANGED asks \/ \E fields : Goes(c, fields) /\ "step" \in DOMAIN fields /\ fields.step \in {"parsing", "lookup"}
    <3>1. \A plan, terms : Planned(c, plan, terms) =>
            \E fields : Goes(c, fields) /\ "step" \in DOMAIN fields /\ fields.step \in {"parsing", "lookup"}
      BY DEF Planned
    <3>2. Goes(c, [step |-> "parsing"]) =>
            \E fields : Goes(c, fields) /\ "step" \in DOMAIN fields /\ fields.step \in {"parsing", "lookup"}
      OBVIOUS
    <3> QED BY <1>2, <3>1, <3>2 DEF askHandler, planAndTerms, PlannedByRules
  <2> QED BY <1>b, <1>c, <2>1, <2>2 DEF Good, Stored
<1>3. CASE cacheGet(c)
  <2>1. asks[c].step = "lookup" /\ UNCHANGED cache
    BY <1>3 DEF cacheGet, Going, Asking
  <2>2. ASSUME NEW e, Goes(c, [step |-> "search"]), Emit(c, <<e>>), e.event = "plan"
        PROVE  Good
    <3>1. PICK answer, pack : answer = asks'[c].answer /\ pack = asks'[c].pack
      OBVIOUS
    <3>2. asks'[c].step = "search" /\ Holds("search", answer, pack)
      BY <2>2, AskGoes DEF AskFields, Holds
    <3>3. Truthful(stream'[c], "search", answer, pack)
      <4>1. Truthful(stream[c], "search", answer, pack) /\ TrueEvent(e, "search", answer, pack)
        BY <2>1, <2>2, OnlyPlans DEF TrueEvent
      <4> QED BY <2>2, <4>1, TellsOne
    <3> QED BY <1>a, <3>1, <3>2, <3>3
  <2>3. ASSUME NEW key \in DOMAIN cache, NEW plan, NEW e, NEW f,
               Goes(c, [step |-> "deltas", cached |-> TRUE, plan |-> plan,
                        pack |-> cache[key].pack, answer |-> cache[key].answer]),
               Emit(c, <<e, f>>), e.event = "plan", f = [event |-> "evidence", pack |-> mapEvidence(cache[key].pack)]
        PROVE  Good
    <3>1. PICK answer, pack : answer = cache[key].answer /\ pack = cache[key].pack
      OBVIOUS
    <3>2. AnswerHolds(answer, pack)
      BY <3>1 DEF FitInv
    <3>3. asks'[c].step = "deltas" /\ asks'[c].answer = answer /\ asks'[c].pack = pack
      BY <2>3, <3>1, AskGoes DEF AskFields
    <3>4. TrueEvent(e, "deltas", answer, pack) /\ TrueEvent(f, "deltas", answer, pack)
      BY <2>3, <3>1, <3>2 DEF TrueEvent, AnswerHolds
    <3>5. stream[c] = << >>
      <4>1. Len(stream[c]) = 0 /\ \E S : stream[c] \in Seq(S)
        BY <2>1, SentIs DEF Sent, StreamInv
      <4> QED BY <4>1, EmptySeq
    <3>6. Truthful(stream'[c], "deltas", answer, pack)
      BY <2>3, <3>4, <3>5, TellsTwo
    <3>7. Holds("deltas", answer, pack)
      BY <3>2 DEF Holds
    <3> QED BY <1>a, <3>3, <3>6, <3>7
  <2> QED BY <1>0, <1>3, <2>1, <2>2, <2>3 DEF cacheGet
<1>4. CASE augmentFacts(c)
  <2>1. asks[c].step = "search" /\ search[c].step = "ready" /\ UNCHANGED <<stream, cache>>
    BY <1>4 DEF augmentFacts, Going, Asking
  <2>2. PICK before : before = search[c].pack
    OBVIOUS
  <2>3. PackFits(c, before) /\ Counts(before)
    BY <2>1, <2>2 DEF PackInv, Packed, CountInv, Counted
  <2>4. PICK pack : pack = [part \in DOMAIN before \cup {"byText", "retrieved"} |->
                              IF part \in {"byText", "retrieved"} THEN FALSE ELSE before[part]]
    OBVIOUS
  <2>5. PackHolds(pack) /\ pack.retrieved = FALSE
    BY <2>3, <2>4, AugmentedFits
  <2>6. ASSUME NEW more, Goes(c, [step |-> "chunks", pack |-> more]), PackHolds(more) /\ more.retrieved = FALSE
        PROVE  Good
    <3>1. asks'[c].step = "chunks" /\ asks'[c].pack = more
      BY <2>6, AskGoes DEF AskFields
    <3>2. PICK answer : answer = asks'[c].answer
      OBVIOUS
    <3>3. Holds("chunks", answer, more)
      BY <2>6 DEF Holds
    <3>4. Truthful(stream[c], "chunks", answer, more)
      BY <2>1, OnlyPlans
    <3> QED BY <1>a, <2>1, <3>1, <3>2, <3>3, <3>4
  <2>7. \/ Goes(c, [step |-> "chunks", pack |-> pack])
        \/ \E subjects :
             Goes(c, [step |-> "chunks",
                      pack |-> [pack EXCEPT !.facts = FactsByText(c), !.contradictions = {}, !.byText = TRUE,
                                            !.subjects = subjects, !.stats = evidenceStats(FactsByText(c), << >>)]])
    BY <1>4, <2>2, <2>4 DEF augmentFacts
  <2>8. \A subjects, more :
          more = [pack EXCEPT !.facts = FactsByText(c), !.contradictions = {}, !.byText = TRUE,
                              !.subjects = subjects, !.stats = evidenceStats(FactsByText(c), << >>)]
          => PackHolds(more) /\ more.retrieved = FALSE
    BY <2>5, FoundFits DEF PackHolds
  <2> QED BY <1>0, <2>1, <2>5, <2>6, <2>7, <2>8
<1>5. CASE searchFailed(c)
  BY <1>d, <1>5 DEF searchFailed, Going, Asking
<1>6. CASE augmentChunks(c)
  <2>1. asks[c].step = "chunks" /\ UNCHANGED cache
    BY <1>6 DEF augmentChunks, Going, Asking
  <2>2. PICK before : before = asks[c].pack
    OBVIOUS
  <2>3. PackHolds(before) /\ before.retrieved = FALSE
    BY <1>0, <2>1, <2>2 DEF Holds
  <2>4. PICK chunks, pack :
          /\ Goes(c, [step |-> "synthesis", pack |-> pack])
          /\ Emit(c, <<[event |-> "evidence", pack |-> mapEvidence(pack)]>>)
          /\ pack = IF chunks = << >> THEN before
                    ELSE [before EXCEPT !.chunks = chunks, !.retrieved = TRUE, !.stats = evidenceStats(before.facts, chunks)]
    BY <1>6, <2>2 DEF augmentChunks
  <2>5. PackHolds(pack)
    BY <2>3, <2>4, WithChunksFits
  <2>6. asks'[c].step = "synthesis" /\ asks'[c].pack = pack
    BY <2>4, AskGoes DEF AskFields
  <2>7. PICK answer, e : answer = asks'[c].answer /\ e = [event |-> "evidence", pack |-> mapEvidence(pack)]
    OBVIOUS
  <2>8. TrueEvent(e, "synthesis", answer, pack) /\ Truthful(stream[c], "synthesis", answer, pack)
    BY <2>1, <2>5, <2>7, OnlyPlans DEF TrueEvent
  <2>9. Truthful(stream'[c], "synthesis", answer, pack)
    BY <2>4, <2>7, <2>8, TellsOne
  <2>10. Holds("synthesis", answer, pack)
    BY <2>5 DEF Holds
  <2> QED BY <1>0, <1>a, <2>1, <2>6, <2>7, <2>9, <2>10
<1>7. CASE runSynthesis(c)
  <2>1. asks[c].step = "synthesis" /\ UNCHANGED <<stream, cache>>
    BY <1>7 DEF runSynthesis, Going, Asking
  <2>2. PICK pack : pack = asks[c].pack
    OBVIOUS
  <2>3. PackHolds(pack)
    BY <1>0, <2>1, <2>2 DEF Holds
  <2>4. PICK text, degraded :
          /\ Goes(c, [step |-> "deltas", part |-> 1, answer |-> Guarded(text, degraded, pack)])
          /\ text = extractiveSynthesis(pack) \/ \E draft : text = llmSynthesis(c, pack, draft)
    BY <1>7, <2>2 DEF runSynthesis
  <2>5. Cites(text.methods, pack)
    <3>1. Cites(extractiveSynthesis(pack).methods, pack)
      BY MethodsCite DEF extractiveSynthesis, Cites
    <3>2. \A draft : llmSynthesis(c, pack, draft).methods = deriveMethods(pack)
      BY DEF llmSynthesis
    <3> QED BY <2>4, <3>1, <3>2, MethodsCite
  <2>6. PICK answer : answer = Guarded(text, degraded, pack)
    OBVIOUS
  <2>7. AnswerHolds(answer, pack)
    BY <2>3, <2>5, <2>6, GuardedFits
  <2>8. asks'[c].step = "deltas" /\ asks'[c].answer = answer /\ asks'[c].pack = pack
    BY <2>2, <2>4, <2>6, AskGoes DEF AskFields
  <2>9. Truthful(stream[c], "deltas", answer, pack)
    BY <1>0, <2>1, <2>2, NoAnswerYet
  <2>10. Holds("deltas", answer, pack)
    BY <2>7 DEF Holds
  <2> QED BY <1>0, <1>a, <2>1, <2>8, <2>9, <2>10
<1>8. CASE emitDelta(c)
  <2>1. asks[c].step = "deltas" /\ UNCHANGED cache
    BY <1>8 DEF emitDelta, Going, Asking
  <2>2. PICK part, step : Goes(c, [part |-> part, step |-> step]) /\ step \in {"deltas", "put", "done"}
    BY <1>8 DEF emitDelta
  <2>3. PICK e : Emit(c, <<e>>) /\ e.event = "answer.delta"
    BY <1>8 DEF emitDelta
  <2>4. asks'[c].step = step /\ asks'[c].pack = asks[c].pack /\ asks'[c].answer = asks[c].answer
    BY <2>2, AskGoes DEF AskFields
  <2>5. Truthful(stream[c], step, asks[c].answer, asks[c].pack)
    BY <1>0, <2>1, <2>2, NoAnswerYet
  <2>6. TrueEvent(e, step, asks[c].answer, asks[c].pack)
    BY <2>3 DEF TrueEvent
  <2>7. Truthful(stream'[c], step, asks[c].answer, asks[c].pack)
    BY <2>3, <2>5, <2>6, TellsOne
  <2>8. Holds(step, asks[c].answer, asks[c].pack)
    BY <1>0, <2>1, <2>2 DEF Holds
  <2> QED BY <1>0, <1>a, <2>1, <2>4, <2>7, <2>8
<1>9. CASE cachePut(c)
  <2>1. asks[c].step = "put" /\ Goes(c, [step |-> "done"]) /\ UNCHANGED stream
    BY <1>9 DEF cachePut, Going, Asking
  <2>2. asks'[c].step = "done" /\ asks'[c].pack = asks[c].pack /\ asks'[c].answer = asks[c].answer
    BY <2>1, AskGoes DEF AskFields
  <2>3. AnswerHolds(asks[c].answer, asks[c].pack)
    BY <1>0, <2>1 DEF Holds
  <2>4. Good
    <3>1. Truthful(stream[c], "done", asks[c].answer, asks[c].pack)
      BY <1>0, <2>1, NoAnswerYet
    <3>2. Holds("done", asks[c].answer, asks[c].pack)
      BY <2>3 DEF Holds
    <3> QED BY <1>a, <2>1, <2>2, <3>1, <3>2
  <2>5. PICK key, entry : key = planCacheKey(c)
                          /\ entry = [plan |-> asks[c].plan, pack |-> asks[c].pack, answer |-> asks[c].answer]
    OBVIOUS
  <2>6. UNCHANGED cache \/ cache' = [k \in DOMAIN cache \cup {key} |-> IF k = key THEN entry ELSE cache[k]]
    BY <1>9, <2>5 DEF cachePut
  <2>7. AnswerHolds(entry.answer, entry.pack)
    BY <2>3, <2>5
  <2>8. ASSUME cache' = [k \in DOMAIN cache \cup {key} |-> IF k = key THEN entry ELSE cache[k]] PROVE Stored
    BY <2>7, <2>8 DEF Stored, FitInv
  <2> QED BY <1>0, <2>4, <2>6, <2>8
<1>10. CASE emitDone(c)
  <2>1. asks[c].step = "done" /\ UNCHANGED cache /\ Goes(c, [step |-> "end"])
    BY <1>10 DEF emitDone, Going, Asking, EndStream
  <2>2. PICK e : Emit(c, <<e>>) /\ e = [event |-> "answer.done", answer |-> mapAnswer(asks[c].answer)]
    BY <1>10 DEF emitDone
  <2>3. asks'[c].step = "end" /\ asks'[c].pack = asks[c].pack /\ asks'[c].answer = asks[c].answer
    BY <2>1, AskGoes DEF AskFields
  <2>4. TrueEvent(e, "end", asks[c].answer, asks[c].pack)
    BY <1>0, <2>1, <2>2 DEF TrueEvent, Holds
  <2>5. Truthful(stream'[c], "end", asks[c].answer, asks[c].pack)
    BY <1>0, <2>2, <2>4, TrueToTheEnd, TellsOne
  <2>6. Holds("end", asks[c].answer, asks[c].pack)
    BY DEF Holds
  <2> QED BY <1>0, <1>a, <2>1, <2>3, <2>5, <2>6
<1>11. CASE askAborted(c)
  <2>1. asks[c].step # "end" /\ UNCHANGED cache
    BY <1>11 DEF askAborted
  <2>2. CASE EndStream(c) /\ UNCHANGED stream
    <3>1. asks'[c].step = "end" /\ asks'[c].pack = asks[c].pack /\ asks'[c].answer = asks[c].answer
      BY <2>2, AskGoes DEF AskFields, EndStream
    <3>2. Truthful(stream[c], "end", asks[c].answer, asks[c].pack)
      BY <1>0, TrueToTheEnd
    <3>3. Holds("end", asks[c].answer, asks[c].pack)
      BY DEF Holds
    <3> QED BY <1>0, <1>a, <2>1, <2>2, <3>1, <3>2, <3>3
  <2>3. CASE writeSSEProblem(c, "Unavailable")
    BY <1>d, <2>1, <2>3
  <2> QED BY <1>11, <2>2, <2>3 DEF askAborted
<1> QED BY <1>1, <1>2, <1>3, <1>4, <1>5, <1>6, <1>7, <1>8, <1>9, <1>10, <1>11 DEF AskStep

LEMMA FitInit == Init => FitInv
BY DEF Init, AskInit, FitInv, Fitting, Holds, TrueEvent

LEMMA FitNext ==
  ASSUME DrainInv, AuditInv, RowsInv, PackInv, StreamInv, CountInv, FitInv, scene \in Scenes, [Next]_vars
  PROVE  FitInv'
<1>0. FactsStand /\ scene' = scene /\ Players' = Players
  BY RowsStep, SceneStays DEF Players
<1> DEFINE Own(c) == Fitting(stream[c], asks[c].step, asks[c].answer, asks[c].pack)
           Stored == \A key \in DOMAIN cache : AnswerHolds(cache[key].answer, cache[key].pack)
<1>1. ASSUME NEW c \in Players, Fitting(stream'[c], asks'[c].step, asks'[c].answer, asks'[c].pack) PROVE Own(c)'
  <2>1. PICK s, step, answer, pack :
          s = stream'[c] /\ step = asks'[c].step /\ answer = asks'[c].answer /\ pack = asks'[c].pack
    OBVIOUS
  <2>2. Fitting(s, step, answer, pack)'
    BY <1>0, <1>1, <2>1, FittingStands
  <2> QED BY <2>1, <2>2
<1>2. ASSUME NEW c \in Players, asks'[c] = asks[c], stream'[c] = stream[c] PROVE Own(c)'
  <2>1. Fitting(stream'[c], asks'[c].step, asks'[c].answer, asks'[c].pack)
    BY <1>2 DEF FitInv
  <2> QED BY <1>1, <2>1
<1>3. ASSUME \A key \in DOMAIN cache' : AnswerHolds(cache'[key].answer, cache'[key].pack) PROVE Stored'
  <2>1. ASSUME NEW key \in DOMAIN cache' PROVE AnswerHolds(cache[key].answer, cache[key].pack)'
    <3>1. PICK answer, pack : answer = cache'[key].answer /\ pack = cache'[key].pack
      OBVIOUS
    <3>2. AnswerHolds(answer, pack)'
      BY <1>0, <1>3, <3>1, AnswerHoldsStill
    <3> QED BY <3>1, <3>2
  <2> QED BY <2>1
<1> HIDE DEF Own
<1>4. CASE UNCHANGED answering
  <2>1. \A c \in Players : Own(c)'
    BY <1>2, <1>4 DEF answering
  <2>2. Stored'
    BY <1>3, <1>4 DEF FitInv, answering
  <2> QED BY <1>0, <2>1, <2>2 DEF FitInv, Own
<1>5. ASSUME NEW c \in Players, Acts(c), AskStep(c) PROVE FitInv'
  <2>1. /\ Fitting(stream'[c], asks'[c].step, asks'[c].answer, asks'[c].pack)
        /\ \A key \in DOMAIN cache' : AnswerHolds(cache'[key].answer, cache'[key].pack)
    BY <1>0, <1>5, QuestionFits
  <2>2. \A d \in Players \ {c} : asks'[d] = asks[d] /\ stream'[d] = stream[d]
    BY <1>5, QuestionStreams DEF Streams
  <2>3. \A d \in Players : Own(d)'
    <3>1. Own(c)'
      BY <1>1, <2>1
    <3> QED BY <1>2, <2>2, <3>1
  <2>4. Stored'
    BY <1>3, <2>1
  <2> QED BY <1>0, <2>3, <2>4 DEF FitInv, Own
<1>6. ASSUME NEW c \in Players, Acts(c), ~AskStep(c) PROVE FitInv'
  BY <1>4, <1>6 DEF Acts
<1>7. CASE GatewayNext /\ UNCHANGED answering
  BY <1>4, <1>7
<1>8. CASE Background
  <2>1. UNCHANGED answering
    BY <1>8, BackgroundIsSilent DEF Background, Silent, vars
  <2> QED BY <1>4, <2>1
<1> QED BY <1>5, <1>6, <1>7, <1>8, Steps

LEMMA ToldFits ==
  ASSUME StreamInv, FitInv, NEW c \in Players
  PROVE  /\ \A e \in EventsOf(c, "evidence") : PackHolds(asks[c].pack) /\ e.pack = mapEvidence(asks[c].pack)
         /\ \A e \in EventsOf(c, "answer.done") :
              AnswerHolds(asks[c].answer, asks[c].pack) /\ e.answer = mapAnswer(asks[c].answer)
<1>1. DOMAIN stream[c] = 1..Len(stream[c])
  BY DEF StreamInv
<1> QED BY <1>1 DEF FitInv, Fitting, TrueEvent, EventsOf

LEMMA ShownPack ==
  ASSUME NEW pack, PackHolds(pack), NEW shown, shown = mapEvidence(pack)
  PROVE  /\ shown.facts = pack.facts /\ shown.contradictions = pack.contradictions /\ shown.stats = pack.stats
         /\ shown.retrieved = pack.retrieved /\ shown.chunks = pack.chunks /\ shown.consensus = pack.consensus
BY DEF PackHolds, EvidenceParts, mapEvidence

(* What a client is told belongs together: the violations that an answer       *)
(* states are those that the guard finds in its text against the evidence sent *)
(* before it, its methods cite facts of that evidence, whose contradictions    *)
(* are between its facts and whose statistics count its documents - whether    *)
(* the answer was written or remembered, and whatever changed meanwhile.       *)
THEOREM AnswersFitTheirEvidence == Spec => []AnswerFitsEvidence
<1>1. StreamInv /\ FitInv => AnswerFitsEvidence
  <2>1. SUFFICES ASSUME StreamInv, FitInv PROVE AnswerFitsEvidence
    OBVIOUS
  <2>2. ASSUME NEW c \in Players, NEW e \in EventsOf(c, "evidence")
        PROVE  /\ \A k \in e.pack.contradictions : {k.a, k.b} \subseteq DOMAIN e.pack.facts
               /\ e.pack.stats.sources =
                    Cardinality(Sources(e.pack.facts) \cup
                                (IF e.pack.retrieved THEN {scene.chunks[k].doc : k \in Range(e.pack.chunks)} ELSE {}))
    <3>1. PICK pack, shown : pack = asks[c].pack /\ shown = e.pack
      OBVIOUS
    <3>2. PackHolds(pack) /\ shown = mapEvidence(pack)
      BY <2>1, <2>2, <3>1, ToldFits
    <3>3. /\ shown.facts = pack.facts /\ shown.contradictions = pack.contradictions /\ shown.stats = pack.stats
          /\ shown.retrieved = pack.retrieved /\ shown.chunks = pack.chunks
      BY <3>2, ShownPack
    <3>4. \A k \in shown.contradictions : {k.a, k.b} \subseteq DOMAIN shown.facts
      BY <3>2, <3>3 DEF PackHolds
    <3>5. shown.stats.sources =
            Cardinality(Sources(shown.facts) \cup
                        (IF shown.retrieved THEN {scene.chunks[k].doc : k \in Range(shown.chunks)} ELSE {}))
      BY <3>2, <3>3 DEF PackHolds, DocsOf
    <3> QED BY <3>1, <3>4, <3>5
  <2>3. ASSUME NEW c \in Players, NEW e \in EventsOf(c, "evidence"), NEW done \in EventsOf(c, "answer.done")
        PROVE  /\ done.answer.guard.violations = runGuard([numbers |-> done.answer.summary], e.pack)
               /\ \A m \in done.answer.methods : m.citations # {} /\ m.citations \subseteq DOMAIN e.pack.facts
    <3>1. PICK pack, answer, shown, told : /\ pack = asks[c].pack /\ answer = asks[c].answer
                                           /\ shown = e.pack /\ told = done.answer
      OBVIOUS
    <3>2. PackHolds(pack) /\ shown = mapEvidence(pack) /\ AnswerHolds(answer, pack) /\ told = mapAnswer(answer)
      BY <2>1, <2>3, <3>1, ToldFits
    <3>3. told.summary = answer.numbers /\ told.methods = answer.methods /\ told.guard.violations = answer.violations
      BY <3>2 DEF mapAnswer
    <3>4. allowedNumbers(shown) = allowedNumbers(pack)
      BY <3>2, ShownPack DEF allowedNumbers
    <3>5. runGuard([numbers |-> told.summary], shown) = runGuard(answer, pack)
      BY <3>3, <3>4 DEF runGuard, Violations
    <3>6. shown.facts = pack.facts
      BY <3>2, ShownPack
    <3> QED BY <3>1, <3>2, <3>3, <3>5, <3>6 DEF AnswerHolds, Cites
  <2> QED BY <2>2, <2>3 DEF AnswerFitsEvidence
<1>2. Init => /\ DrainInv /\ AuditInv /\ HoldInv /\ AcceptInv /\ RowsInv /\ PackInv
              /\ StreamInv /\ CountInv /\ FitInv
  BY DrainInit, AuditInit, HoldInit, AcceptInit, RowsInit, PackInit, StreamInit, CountInit, FitInit
<1>3. /\ DrainInv /\ AuditInv /\ HoldInv /\ AcceptInv /\ RowsInv /\ PackInv
      /\ StreamInv /\ CountInv /\ FitInv /\ [Next]_vars
      => (/\ DrainInv /\ AuditInv /\ HoldInv /\ AcceptInv /\ RowsInv /\ PackInv
          /\ StreamInv /\ CountInv /\ FitInv)'
  BY DrainNext, AuditNext, HoldNext, AcceptNext, RowsStep, PackNext, StreamNext, CountNext, FitNext DEF AcceptInv
<1> QED BY <1>1, <1>2, <1>3, PTL DEF Spec

-----------------------------------------------------------------------------
(***************************************************************************)
(* The history of a fact that every session sees: its last decision is in   *)
(* force, and without one its status is that of the start or of the commit  *)
(* that brought it.  A delivery brings a fact that no decision names yet,    *)
(* and a fact keeps its kind and its access, so that no later decision finds *)
(* a row it did not find before.                                            *)
(***************************************************************************)
NamedBy(f) == {i \in DOMAIN history : history[i].id = f /\ history[i].kind = facts[f].kind}

LastSays(f) ==
  \E i \in NamedBy(f) : /\ \A j \in NamedBy(f) : i >= j
                        /\ facts[f].status = Body(history[i].client).status

Faulty(said) == said.unitCode = "" \/ ~validBounds(said)
Refused(f) == facts[f].status \in {"rejected", "needs_unit_review"}

Untouched(f) ==
  /\ f \in DOMAIN scene.facts => facts[f].status = scene.facts[f].status
  /\ f \notin DOMAIN scene.facts => (Refused(f) <=> Faulty(SaidOf(f)))

Tells(f) == IF NamedBy(f) = {} THEN Untouched(f) ELSE LastSays(f)

StatusColumns == {"kind", "access", "status"}

HistoryInv ==
  /\ DOMAIN scene.facts \subseteq DOMAIN facts
  /\ \A f \in DOMAIN facts : StatusColumns \subseteq DOMAIN facts[f] /\ facts[f].kind \in {"numeric", "claim"}
  /\ \A i \in DOMAIN history : history[i].kind # "entity" => Nameable(history[i].id)
  /\ \A f \in DOMAIN facts : Touches(f, "public") => Tells(f)

LEMMA HistoryInit == Init => HistoryInv
<1> SUFFICES ASSUME Init PROVE HistoryInv
  OBVIOUS
<1>1. scene \in Scenes /\ facts = scene.facts /\ DOMAIN history = {}
  BY DEF Init, GatewayInit, DecisionsInit
<1>2. \A f \in DOMAIN facts : NamedBy(f) = {}
  BY <1>1 DEF NamedBy
<1> QED BY <1>1, <1>2, FactsAssumption DEF HistoryInv, StatusColumns, Tells, Untouched

(* A step that appends nothing and changes no status.                        *)
SameHistory(f) ==
  /\ f \in DOMAIN facts /\ f \in DOMAIN facts'
  /\ facts'[f].kind = facts[f].kind /\ facts'[f].status = facts[f].status

LEMMA UntouchedStill ==
  ASSUME NEW f, scene' = scene, facts'[f].status = facts[f].status
  PROVE  Untouched(f)' <=> Untouched(f)
BY DEF Untouched, Refused, Faulty, SaidOf, Delivered

LEMMA TellsStill ==
  ASSUME NEW f, SameHistory(f), history' = history, scene' = scene
  PROVE  Tells(f)' <=> Tells(f)
<1>1. NamedBy(f)' = NamedBy(f)
  BY DEF NamedBy, SameHistory
<1>2. Untouched(f)' <=> Untouched(f)
  BY UntouchedStill DEF SameHistory
<1>3. LastSays(f)' <=> LastSays(f)
  BY <1>1 DEF LastSays, SameHistory, Body, Request
<1> QED BY <1>1, <1>2, <1>3 DEF Tells

(* One more decision, which names this fact or does not.                     *)
Names(row, f) == row.id = f /\ row.kind = facts[f].kind

LEMMA OneMoreDecision ==
  ASSUME NEW row, \E S : history \in Seq(S), history' = Append(history, row),
         NEW f \in DOMAIN facts, f \in DOMAIN facts', facts'[f].kind = facts[f].kind
  PROVE  /\ ~Names(row, f) => NamedBy(f)' = NamedBy(f)
         /\ Names(row, f) => NamedBy(f)' = NamedBy(f) \cup {Len(history) + 1}
         /\ NamedBy(f) \subseteq 1..Len(history) /\ Len(history) \in Nat
         /\ \A i \in 1..Len(history) : history'[i] = history[i]
         /\ history'[Len(history) + 1] = row
<1>1. PICK S : history \in Seq(S)
  OBVIOUS
<1>2. history \in Seq(S \cup {row}) /\ row \in S \cup {row}
  BY <1>1, SeqMonotonic
<1>3. /\ Len(history) \in Nat /\ DOMAIN history = 1..Len(history)
      /\ DOMAIN history' = 1..Len(history) \cup {Len(history) + 1}
      /\ \A i \in 1..Len(history) : history'[i] = history[i]
      /\ history'[Len(history) + 1] = row
  <2>1. /\ history' \in Seq(S \cup {row}) /\ Len(history') = Len(history) + 1
        /\ \A i \in 1..Len(history) : history'[i] = history[i]
        /\ history'[Len(history) + 1] = row
    BY <1>2, AppendProperties
  <2>2. /\ Len(history) \in Nat /\ DOMAIN history = 1..Len(history)
        /\ DOMAIN history' = 1..Len(history) + 1
    BY <1>2, <2>1, LenProperties
  <2> QED BY <2>1, <2>2
<1>4. NamedBy(f)' = {i \in DOMAIN history' : history'[i].id = f /\ history'[i].kind = facts[f].kind}
  BY DEF NamedBy
<1> QED BY <1>3, <1>4 DEF NamedBy, Names

LEMMA NewestTells ==
  ASSUME NEW row, \E S : history \in Seq(S), history' = Append(history, row),
         NEW f \in DOMAIN facts, f \in DOMAIN facts', facts'[f].kind = facts[f].kind, scene' = scene,
         IF Names(row, f) THEN facts'[f].status = Body(row.client).status
                          ELSE Tells(f) /\ facts'[f].status = facts[f].status
  PROVE  Tells(f)'
<1> USE OneMoreDecision
<1>1. CASE Names(row, f)
  <2>1. PICK n : n = Len(history) + 1
    OBVIOUS
  <2>2. n \in NamedBy(f)' /\ \A j \in NamedBy(f)' : n >= j
    BY <1>1, <2>1
  <2>3. facts'[f].status = (Body(history[n].client).status)'
    BY <1>1, <2>1 DEF Body, Request
  <2> QED BY <2>2, <2>3 DEF Tells, LastSays
<1>2. CASE ~Names(row, f) /\ NamedBy(f) = {}
  <2>1. facts'[f].status = facts[f].status /\ NamedBy(f)' = {} /\ Untouched(f)
    BY <1>2 DEF Tells
  <2>2. Untouched(f)' <=> Untouched(f)
    BY <2>1, UntouchedStill
  <2> QED BY <2>1, <2>2 DEF Tells
<1>3. CASE ~Names(row, f) /\ NamedBy(f) # {}
  <2>1. PICK i \in NamedBy(f) : (\A j \in NamedBy(f) : i >= j) /\ facts[f].status = Body(history[i].client).status
    BY <1>3 DEF Tells, LastSays
  <2>2. i \in NamedBy(f)' /\ (\A j \in NamedBy(f)' : i >= j) /\ NamedBy(f)' # {}
    BY <1>3, <2>1
  <2>3. facts'[f].status = Body(history'[i].client).status
    BY <1>3, <2>1
  <2>4. Body(history'[i].client).status = (Body(history[i].client).status)'
    BY DEF Body, Request
  <2> QED BY <2>2, <2>3, <2>4 DEF Tells, LastSays
<1> QED BY <1>1, <1>2, <1>3

LEMMA PublicIsWidest ==
  ASSUME NEW f, NEW level \in {"internal", "public"}, Touches(f, "public")
  PROVE  Touches(f, level)
BY DEF Touches, Sees

(* Every column but the one that a step writes.                              *)
KindsStay ==
  /\ DOMAIN facts' = DOMAIN facts
  /\ \A f \in DOMAIN facts : facts'[f].kind = facts[f].kind /\ facts'[f].access = facts[f].access
                             /\ StatusColumns \subseteq DOMAIN facts'[f]

LEMMA NamesStay ==
  ASSUME HistoryInv, KindsStay, scene' = scene, \E S : history \in Seq(S),
         NEW row, row.kind # "entity" => Nameable(row.id), history' = Append(history, row)
  PROVE  (\A i \in DOMAIN history : history[i].kind # "entity" => Nameable(history[i].id))'
<1>1. \A f : Nameable(f) => Nameable(f)'
  BY DEF Nameable, KindsStay
<1>2. \A i \in DOMAIN history' : history'[i] = row \/ \E j \in DOMAIN history : history'[i] = history[j]
  <2>1. PICK S : history \in Seq(S)
    OBVIOUS
  <2>2. history \in Seq(S \cup {row}) /\ row \in S \cup {row}
    BY <2>1, SeqMonotonic
  <2>3. /\ history' \in Seq(S \cup {row}) /\ Len(history') = Len(history) + 1
        /\ \A i \in 1..Len(history) : history'[i] = history[i]
        /\ history'[Len(history) + 1] = row
    BY <2>2, AppendProperties
  <2>4. Len(history) \in Nat /\ DOMAIN history = 1..Len(history) /\ DOMAIN history' = 1..Len(history) + 1
    BY <2>2, <2>3, LenProperties
  <2> QED BY <2>3, <2>4
<1>3. \A j \in DOMAIN history : history[j].kind # "entity" => Nameable(history[j].id)
  BY DEF HistoryInv
<1>4. ASSUME NEW i \in DOMAIN history', history'[i].kind # "entity"
      PROVE  \E p : p = history'[i].id /\ Nameable(p)
  BY <1>2, <1>3, <1>4
<1>5. ASSUME NEW i \in DOMAIN history', history'[i].kind # "entity" PROVE Nameable(history[i].id)'
  <2>1. PICK p : p = history'[i].id /\ Nameable(p)
    BY <1>4, <1>5
  <2>2. Nameable(p)'
    BY <1>1, <2>1
  <2> QED BY <2>1, <2>2 DEF Nameable
<1> QED BY <1>5

LEMMA AppendedTells ==
  ASSUME HistoryInv, KindsStay, scene' = scene, \E S : history \in Seq(S),
         NEW row, row.kind # "entity" => Nameable(row.id), history' = Append(history, row),
         \A f \in DOMAIN facts : Touches(f, "public") =>
           IF Names(row, f) THEN facts'[f].status = Body(row.client).status
                            ELSE facts'[f].status = facts[f].status
  PROVE  HistoryInv'
<1>1. (\A i \in DOMAIN history : history[i].kind # "entity" => Nameable(history[i].id))'
  BY NamesStay
<1>2. ASSUME NEW f \in DOMAIN facts', Touches(f, "public")' PROVE Tells(f)'
  <2>1. f \in DOMAIN facts /\ facts'[f].kind = facts[f].kind /\ Touches(f, "public")
    BY <1>2 DEF KindsStay, Touches
  <2>2. Tells(f)
    BY <2>1 DEF HistoryInv
  <2> QED BY <1>2, <2>1, <2>2, NewestTells
<1>5. (\A f \in DOMAIN facts : Touches(f, "public") => Tells(f))'
  BY <1>2
<1>3. DOMAIN scene'.facts \subseteq DOMAIN facts'
  BY DEF HistoryInv, KindsStay
<1>4. \A f \in DOMAIN facts' : StatusColumns \subseteq DOMAIN facts'[f] /\ facts'[f].kind \in {"numeric", "claim"}
  BY DEF HistoryInv, KindsStay
<1> QED BY <1>1, <1>3, <1>4, <1>5 DEF HistoryInv

LEMMA DecisionTells ==
  ASSUME HistoryInv, NEW c, NEW level \in {"internal", "public"}, facts' = WithDecision(c, level)
  PROVE  /\ KindsStay
         /\ \A f \in DOMAIN facts : Touches(f, "public") =>
              IF f = Id(c) /\ Kind(c) = facts[f].kind
              THEN facts'[f].status = Body(c).status ELSE facts'[f].status = facts[f].status
<1>1. \A f \in DOMAIN facts : StatusColumns \subseteq DOMAIN facts[f]
  BY DEF HistoryInv
<1>2. /\ DOMAIN facts' = DOMAIN facts
      /\ \A f \in DOMAIN facts :
           IF f = Id(c) /\ Touches(f, level) /\ facts[f].kind = Kind(c)
           THEN facts'[f] = [facts[f] EXCEPT !.status = Body(c).status] ELSE facts'[f] = facts[f]
  BY DEF WithDecision
<1>3. KindsStay
  BY <1>1, <1>2 DEF KindsStay, StatusColumns
<1>4. ASSUME NEW f \in DOMAIN facts, Touches(f, "public")
      PROVE  IF f = Id(c) /\ Kind(c) = facts[f].kind
             THEN facts'[f].status = Body(c).status ELSE facts'[f].status = facts[f].status
  <2>1. Touches(f, level)
    BY <1>4, PublicIsWidest
  <2> QED BY <1>1, <1>2, <2>1 DEF StatusColumns
<1> QED BY <1>3, <1>4

LEMMA MergeTells ==
  ASSUME HistoryInv, NEW x, NEW into, NEW level, facts' = FactsAfter(x, into, level)
  PROVE  KindsStay /\ \A f \in DOMAIN facts : facts'[f].status = facts[f].status
<1>1. /\ DOMAIN facts' = DOMAIN facts
      /\ \A f \in DOMAIN facts :
           \/ facts'[f] = facts[f]
           \/ \E s, p : facts'[f] = [facts[f] EXCEPT !.subject = s, !.parameter = p]
  BY DEF FactsAfter
<1>2. \A f \in DOMAIN facts : StatusColumns \subseteq DOMAIN facts[f]
  BY DEF HistoryInv
<1> QED BY <1>1, <1>2 DEF KindsStay, StatusColumns

LEMMA OrderedKeepsNone ==
  ASSUME NEW lo \in Int \cup {None}, NEW hi \in Int \cup {None}
  PROVE  (Ordered(lo, hi)[1] = None <=> lo = None) /\ (Ordered(lo, hi)[2] = None <=> hi = None)
<1>1. CASE lo # None /\ hi # None
  <2>1. Min({lo, hi}) \in {lo, hi}
    <3>1. \E m \in {lo, hi} : \A y \in {lo, hi} : m <= y
      BY <1>1
    <3> QED BY <3>1 DEF Min
  <2>2. Max({lo, hi}) \in {lo, hi}
    <3>1. \E m \in {lo, hi} : \A y \in {lo, hi} : m >= y
      BY <1>1
    <3> QED BY <3>1 DEF Max
  <2>3. PICK a, b : a = Min({lo, hi}) /\ b = Max({lo, hi})
    OBVIOUS
  <2>4. Ordered(lo, hi) = <<a, b>>
    BY <1>1, <2>3 DEF Ordered
  <2> QED BY <1>1, <2>1, <2>2, <2>3, <2>4
<1>2. CASE lo = None \/ hi = None
  BY <1>2 DEF Ordered
<1> QED BY <1>1, <1>2

(* The bounds of a reading are put in order; which of them it has stays.      *)
LEMMA NormalizedFault ==
  ASSUME NEW said, {"op", "unitCode", "vmin", "vmax", "siMin", "siMax"} \subseteq DOMAIN said,
         {said.vmin, said.vmax} \subseteq Int \cup {None}
  PROVE  Faulty(NormalizeBounds(said)) <=> Faulty(said)
<1>1. PICK v : v = Ordered(said.vmin, said.vmax)
  OBVIOUS
<1>2. PICK si : si = Ordered(said.siMin, said.siMax)
  OBVIOUS
<1>3. NormalizeBounds(said) = [said EXCEPT !.vmin = v[1], !.vmax = v[2], !.siMin = si[1], !.siMax = si[2]]
  BY <1>1, <1>2 DEF NormalizeBounds
<1>4. PICK after : after = NormalizeBounds(said)
  OBVIOUS
<1>5. PICK a, b : a = v[1] /\ b = v[2]
  OBVIOUS
<1>6. after.op = said.op /\ after.unitCode = said.unitCode /\ after.vmin = a /\ after.vmax = b
  BY <1>3, <1>4, <1>5
<1>7. (a = None <=> said.vmin = None) /\ (b = None <=> said.vmax = None)
  BY <1>1, <1>5, OrderedKeepsNone
<1>8. Faulty(after) <=> Faulty(said)
  BY <1>6, <1>7 DEF Faulty, validBounds
<1> QED BY <1>4, <1>8

LEMMA CommittedIsJudged ==
  ASSUME NEW x
  PROVE  /\ StatusColumns \subseteq DOMAIN FactFrom(x) /\ FactFrom(x).kind = "numeric"
         /\ FactFrom(x).status \in {"rejected", "needs_unit_review"} <=> Faulty(NormalizeBounds(x.said))
<1>1. PICK said : said = NormalizeBounds(x.said)
  OBVIOUS
<1>2. PICK class : class = ClassifyFact(said, ParameterDef(x.parameter))
  OBVIOUS
<1>3. StatusColumns \subseteq DOMAIN FactFrom(x) /\ FactFrom(x).kind = "numeric" /\ FactFrom(x).status = class.status
  BY <1>1, <1>2 DEF FactFrom, StatusColumns
<1>4. class.status \in {"rejected", "needs_unit_review"} <=> Faulty(said)
  <2>1. CASE Faulty(said)
    BY <1>2, <2>1 DEF ClassifyFact, Faulty
  <2>2. CASE ~Faulty(said)
    <3>1. class.status \in {"weak_evidence", "machine_extracted"}
      BY <1>2, <2>2 DEF ClassifyFact, Faulty
    <3> QED BY <2>2, <3>1
  <2> QED BY <2>1, <2>2
<1> QED BY <1>1, <1>3, <1>4

LEMMA RowTellsReading ==
  ASSUME scene \in Scenes, NEW i \in DOMAIN scene.deliveries, NEW x \in Range(scene.deliveries[i].candidates)
  PROVE  SaidOf(x.row) = x.said
<1>1. x \in Delivered
  BY DEF Delivered
<1>2. \A y \in Delivered : y.row = x.row => y.said = x.said
  BY RowsAssumption DEF Delivered
<1>3. PICK z : z = CHOOSE y \in Delivered : y.row = x.row
  OBVIOUS
<1>4. z \in Delivered /\ z.row = x.row
  BY <1>1, <1>3
<1> QED BY <1>2, <1>3, <1>4 DEF SaidOf

LEMMA CommitTells ==
  ASSUME HistoryInv, RowsInv, scene \in Scenes, commit.at <= Len(scene.deliveries),
         facts' = InsertedFacts, history' = history, scene' = scene
  PROVE  HistoryInv'
<1>1. commit.at \in DOMAIN scene.deliveries
  <2>1. scene.deliveries \in Seq(Range(scene.deliveries))
    BY BundlesAssumption
  <2>2. Len(scene.deliveries) \in Nat /\ DOMAIN scene.deliveries = 1..Len(scene.deliveries)
    BY <2>1, LenProperties
  <2> QED BY <2>2 DEF RowsInv
<1>2. \A x \in NewRows : x \in Range(scene.deliveries[commit.at].candidates)
  BY DEF NewRows, Range, Bundle
<1>3. /\ DOMAIN facts' = DOMAIN facts \cup {x.row : x \in NewRows}
      /\ \A f \in DOMAIN facts : facts'[f] = facts[f]
      /\ \A f \in DOMAIN facts' \ DOMAIN facts : \E x \in NewRows : x.row = f /\ facts'[f] = FactFrom(x)
  <2> HIDE DEF NewRows, FactFrom
  <2> QED BY DEF InsertedFacts
<1>4. ASSUME NEW f \in DOMAIN facts' \ DOMAIN facts
      PROVE  /\ StatusColumns \subseteq DOMAIN facts'[f] /\ facts'[f].kind \in {"numeric", "claim"}
             /\ Tells(f)'
  <2>1. PICK x \in NewRows : x.row = f /\ facts'[f] = FactFrom(x)
    BY <1>3, <1>4
  <2>2. /\ {"op", "unitCode", "vmin", "vmax", "siMin", "siMax"} \subseteq DOMAIN x.said
        /\ {x.said.vmin, x.said.vmax} \subseteq Int \cup {None}
    BY <1>1, <1>2, BundlesAssumption
  <2>3. /\ StatusColumns \subseteq DOMAIN facts'[f] /\ facts'[f].kind = "numeric"
        /\ facts'[f].status \in {"rejected", "needs_unit_review"} <=> Faulty(x.said)
    BY <2>1, <2>2, CommittedIsJudged, NormalizedFault
  <2>4. SaidOf(f) = x.said
    BY <1>1, <1>2, <2>1, RowTellsReading
  <2>5. NamedBy(f)' = {}
    <3>1. ~Nameable(f)
      BY <1>1, <1>2, <1>4, <2>1 DEF Nameable
    <3>2. ASSUME NEW i \in DOMAIN history, history[i].id = f, history[i].kind = "numeric" PROVE FALSE
      BY <3>1, <3>2 DEF HistoryInv
    <3> QED BY <2>3, <3>2 DEF NamedBy
  <2>6. f \notin DOMAIN scene.facts
    BY <1>4 DEF HistoryInv
  <2>7. SaidOf(f)' = SaidOf(f)
    BY DEF SaidOf, Delivered
  <2>8. Untouched(f)'
    BY <2>3, <2>4, <2>6, <2>7 DEF Untouched, Refused, Faulty, validBounds
  <2> QED BY <2>3, <2>5, <2>8 DEF Tells
<1>5. ASSUME NEW f \in DOMAIN facts, Touches(f, "public")' PROVE Tells(f)'
  <2>1. Tells(f)
    BY <1>3, <1>5 DEF Touches, HistoryInv
  <2>2. SameHistory(f)
    BY <1>3 DEF SameHistory
  <2> QED BY <2>1, <2>2, TellsStill
<1>6. (\A f \in DOMAIN facts : Touches(f, "public") => Tells(f))'
  BY <1>4, <1>5
<1>7. \A f \in DOMAIN facts' : StatusColumns \subseteq DOMAIN facts'[f] /\ facts'[f].kind \in {"numeric", "claim"}
  BY <1>3, <1>4 DEF HistoryInv
<1>8. DOMAIN scene'.facts \subseteq DOMAIN facts'
  BY <1>3 DEF HistoryInv
<1>9. (\A i \in DOMAIN history : history[i].kind # "entity" => Nameable(history[i].id))'
  <2>1. \A p : Nameable(p) => Nameable(p)'
    BY <1>3 DEF Nameable
  <2>2. \A i \in DOMAIN history : history[i].kind # "entity" => Nameable(history[i].id)
    BY DEF HistoryInv
  <2>3. \A i \in DOMAIN history : history[i].kind # "entity" => Nameable(history[i].id)'
    <3> SUFFICES ASSUME NEW i \in DOMAIN history, history[i].kind # "entity" PROVE Nameable(history[i].id)'
      OBVIOUS
    <3>1. PICK p : p = history[i].id
      OBVIOUS
    <3>2. Nameable(p)'
      BY <2>1, <2>2, <3>1
    <3> QED BY <3>1, <3>2 DEF Nameable
  <2> QED BY <2>3
<1> QED BY <1>6, <1>7, <1>8, <1>9 DEF HistoryInv

LEMMA NothingTold ==
  ASSUME HistoryInv, UNCHANGED <<facts, history, scene>>
  PROVE  HistoryInv'
<1>1. \A f \in DOMAIN facts : Tells(f)' <=> Tells(f)
  BY TellsStill DEF SameHistory
<1>2. (\A f \in DOMAIN facts : Touches(f, "public") => Tells(f))'
  BY <1>1 DEF HistoryInv, Touches
<1>3. (\A i \in DOMAIN history : history[i].kind # "entity" => Nameable(history[i].id))'
  BY DEF HistoryInv, Nameable
<1> QED BY <1>2, <1>3 DEF HistoryInv

LEMMA StatusStep ==
  ASSUME HistoryInv, \E S : history \in Seq(S), scene' = scene, NEW c \in Players, UpdateFactStatus(c)
  PROVE  HistoryInv'
<1>1. CASE UNCHANGED <<facts, history>>
  BY <1>1, NothingTold
<1>2. ASSUME NEW level \in {"internal", "public"}, factTable(Kind(c)), Nameable(Id(c)),
             facts' = WithDecision(c, level),
             history' = Append(history, [kind |-> Kind(c), id |-> Id(c), client |-> c])
      PROVE  HistoryInv'
  <2>1. PICK row : row = [kind |-> Kind(c), id |-> Id(c), client |-> c]
    OBVIOUS
  <2>2. row.kind = Kind(c) /\ row.id = Id(c) /\ row.client = c
    BY <2>1
  <2>3. /\ KindsStay
        /\ \A f \in DOMAIN facts : Touches(f, "public") =>
             IF f = Id(c) /\ Kind(c) = facts[f].kind
             THEN facts'[f].status = Body(c).status ELSE facts'[f].status = facts[f].status
    BY <1>2, DecisionTells
  <2>4. \A f \in DOMAIN facts : Touches(f, "public") =>
          IF Names(row, f) THEN facts'[f].status = Body(row.client).status
                           ELSE facts'[f].status = facts[f].status
    BY <2>2, <2>3 DEF Names
  <2> QED BY <1>2, <2>1, <2>2, <2>3, <2>4, AppendedTells
<1>3. \/ UNCHANGED <<facts, history>>
      \/ /\ factTable(Kind(c)) /\ Nameable(Id(c))
         /\ \E level \in {"internal", "public"} : facts' = WithDecision(c, level)
         /\ history' = Append(history, [kind |-> Kind(c), id |-> Id(c), client |-> c])
  BY DEF UpdateFactStatus, updateFactStatusHandler, Refuse, decisions
<1> QED BY <1>1, <1>2, <1>3

LEMMA MergeStep ==
  ASSUME HistoryInv, \E S : history \in Seq(S), scene' = scene, NEW c \in Players, MergeEntities(c)
  PROVE  HistoryInv'
<1>1. CASE UNCHANGED <<facts, history>>
  BY <1>1, NothingTold
<1>2. ASSUME KindsStay, \A f \in DOMAIN facts : facts'[f].status = facts[f].status,
             NEW x, history' = Append(history, [kind |-> "entity", id |-> x, client |-> c])
      PROVE  HistoryInv'
  <2>1. PICK row : row = [kind |-> "entity", id |-> x, client |-> c]
    OBVIOUS
  <2>2. row.kind = "entity"
    BY <2>1
  <2>3. \A f \in DOMAIN facts : ~Names(row, f)
    BY <2>2 DEF Names, HistoryInv
  <2> QED BY <1>2, <2>1, <2>2, <2>3, AppendedTells
<1>3. facts' = facts => KindsStay
  BY DEF KindsStay, HistoryInv
<1>4. \/ UNCHANGED <<facts, history>>
      \/ /\ facts' = facts \/ \E into, level : facts' = FactsAfter(Id(c), into, level)
         /\ history' = Append(history, [kind |-> "entity", id |-> Id(c), client |-> c])
  BY DEF MergeEntities, mergeEntityHandler, Refuse, decisions
<1> QED BY <1>1, <1>2, <1>3, <1>4, MergeTells

LEMMA HistoryNext ==
  ASSUME HistoryInv, RowsInv, \E S : history \in Seq(S), scene \in Scenes, [Next]_vars
  PROVE  HistoryInv'
<1>0. scene' = scene
  BY SceneStays
<1>1. CASE UNCHANGED <<facts, history>>
  BY <1>0, <1>1, NothingTold
<1>2. ASSUME NEW c \in Players, DecisionStep(c) PROVE HistoryInv'
  <2>1. CASE updateEntityStatus(c) \/ DecideContradiction(c) \/ reviewQueue(c)
    BY <1>1, <2>1 DEF updateEntityStatus, DecideContradiction, decideContradictionHandler, reviewQueue, Refuse, decisions
  <2> QED BY <1>0, <1>2, <2>1, StatusStep, MergeStep DEF DecisionStep
<1>3. CASE ExtractionNext
  <2>1. facts' = facts \/ (commit.at <= Len(scene.deliveries) /\ facts' = InsertedFacts)
    BY <1>3 DEF ExtractionNext, fetchBundle, ResolveByNames, Commit, Consuming, Nak
  <2> QED BY <1>0, <1>1, <1>3, <2>1, CommitTells DEF ExtractionNext
<1>4. CASE Background /\ ~ExtractionNext
  BY <1>1, <1>4 DEF Background, vars, decisions
<1>5. CASE GatewayNext /\ UNCHANGED decisions
  BY <1>1, <1>5 DEF decisions
<1>6. ASSUME NEW c \in Players, Acts(c), ~DecisionStep(c) PROVE HistoryInv'
  BY <1>1, <1>6, OnlyDecisionsDecide DEF decisions
<1> QED BY <1>2, <1>3, <1>4, <1>5, <1>6, Steps

LEMMA LastIsMax ==
  ASSUME NEW S, S \subseteq Int, NEW i \in S, \A j \in S : i >= j
  PROVE  Max(S) = i
<1>1. Max(S) \in S /\ \A j \in S : Max(S) >= j
  BY DEF Max
<1>2. PICK m : m = Max(S)
  OBVIOUS
<1>3. m \in Int /\ i \in Int /\ m >= i /\ i >= m
  BY <1>1, <1>2
<1> QED BY <1>2, <1>3

(* The history of a fact that every session sees tells its status: the last   *)
(* decision that names it is in force, and without one the fact is as it was  *)
(* at the start or as its commit found it, whatever is committed again,       *)
(* merged and decided in between.                                             *)
THEOREM HistoryAlwaysTellsStatus == Spec => []HistoryTellsStatus
<1>1. HistoryInv /\ AuditInv => HistoryTellsStatus
  <2> SUFFICES ASSUME HistoryInv, AuditInv, NEW f \in DOMAIN facts, Touches(f, "public"),
                      NEW naming, naming = {i \in DOMAIN history : history[i].id = f /\ history[i].kind = facts[f].kind}
               PROVE  /\ naming # {} => facts[f].status = Body(history[Max(naming)].client).status
                      /\ naming = {} /\ f \in DOMAIN scene.facts => facts[f].status = scene.facts[f].status
                      /\ naming = {} /\ f \notin DOMAIN scene.facts =>
                           facts[f].status \in {"rejected", "needs_unit_review"} <=>
                             (SaidOf(f).unitCode = "" \/ ~validBounds(SaidOf(f)))
    BY DEF HistoryTellsStatus
  <2>1. Tells(f) /\ naming = NamedBy(f)
    BY DEF HistoryInv, NamedBy
  <2>2. naming \subseteq Int
    <3>1. PICK S : history \in Seq(S)
      BY DEF AuditInv
    <3>2. DOMAIN history = 1..Len(history) /\ Len(history) \in Nat
      BY <3>1, LenProperties
    <3> QED BY <3>2
  <2>3. CASE naming # {}
    <3>1. PICK i \in naming : (\A j \in naming : i >= j) /\ facts[f].status = Body(history[i].client).status
      BY <2>1, <2>3 DEF Tells, LastSays
    <3>2. Max(naming) = i
      BY <2>2, <3>1, LastIsMax
    <3> QED BY <2>3, <3>1, <3>2
  <2>4. CASE naming = {}
    <3>1. Untouched(f)
      BY <2>1, <2>4 DEF Tells
    <3>2. CASE f \in DOMAIN scene.facts
      BY <2>4, <3>1, <3>2 DEF Untouched
    <3>3. CASE f \notin DOMAIN scene.facts
      <4>1. Refused(f) <=> Faulty(SaidOf(f))
        BY <3>1, <3>3 DEF Untouched
      <4> QED BY <2>4, <3>3, <4>1 DEF Refused, Faulty
    <3> QED BY <3>2, <3>3
  <2> QED BY <2>3, <2>4
<1>2. Init => DrainInv /\ AuditInv /\ HoldInv /\ AcceptInv /\ RowsInv /\ HistoryInv
  BY DrainInit, AuditInit, HoldInit, AcceptInit, RowsInit, HistoryInit
<1>3. DrainInv /\ AuditInv /\ HoldInv /\ AcceptInv /\ RowsInv /\ HistoryInv /\ [Next]_vars
        => (DrainInv /\ AuditInv /\ HoldInv /\ AcceptInv /\ RowsInv /\ HistoryInv)'
  BY DrainNext, AuditNext, HoldNext, AcceptNext, RowsStep, HistoryNext DEF AcceptInv, AuditInv
<1> QED BY <1>1, <1>2, <1>3, PTL DEF Spec
-----------------------------------------------------------------------------
(***************************************************************************)
(* The failures of the server: every handler answers with one only when a   *)
(* call fails or the answer is explained.  A search carries why it failed    *)
(* until it is answered, and an upload that found no document with its file  *)
(* knows that whoever registers one has an event in the outbox.              *)
(***************************************************************************)
Excused(c) == c \in left \/ Explained(c)

Owns(c) ==
  \/ UNCHANGED reply
  \/ \E code \in Codes : \E body : Respond(c, code, body) /\ (code >= 500 => Excused(c))

FailInv ==
  \A c \in Players : search[c].step = "failed" =>
    \/ c \in left \/ scene.faults \/ process.state \in {"closing", "stopped"}
    \/ BadBounds(search[c].plan)

LookupInv ==
  \A c \in Players : (Request(c).route = "upload" /\ work[c].step = "insert") =>
    \A d \in DOMAIN docs : docs[d].sha256 = LastFile(c) => d \in outbox

LEMMA FailureExcuses == ASSUME NEW c, Fails(c) PROVE Excused(c)
BY DEF Fails, Excused, Explained

LEMMA AnswerOwns ==
  ASSUME NEW c, NEW code \in {200, 400, 401, 403, 404}, NEW body, Respond(c, code, body)
  PROVE  Owns(c)
BY DEF Owns, Codes

LEMMA FailureOwns ==
  ASSUME NEW c, Excused(c), NEW code \in Codes, NEW body, Respond(c, code, body)
  PROVE  Owns(c)
BY DEF Owns

LEMMA ProblemOwns ==
  ASSUME NEW c, NEW code \in Codes, Problem(c, code), code \in {400, 401, 403, 404} \/ Excused(c)
  PROVE  Owns(c)
BY AnswerOwns, FailureOwns DEF Problem

LEMMA RefusalOwns ==
  ASSUME NEW c, NEW required, Refuse(c, required)
  PROVE  Owns(c)
<1>1. Problem(c, 400) => Owns(c)
  BY ProblemOwns DEF Codes
<1>2. Fails(c) /\ Problem(c, 500) => Owns(c)
  BY ProblemOwns, FailureExcuses DEF Codes
<1> QED BY <1>1, <1>2 DEF Refuse

LEMMA ServiceOwns ==
  ASSUME NEW c, NEW body, Answer(c, body)
  PROVE  Owns(c)
<1>1. grpcHTTPStatus("Unavailable") \in Codes
  BY StatusIsCode
<1> QED BY <1>1, AnswerOwns, FailureOwns, FailureExcuses DEF Answer

LEMMA LookupIsOwned ==
  ASSUME HoldInv, AcceptInv, LookupInv, NEW c \in Players, Register(c)
  PROVE  Owns(c)
<1> USE StatusIsCode
<1>1. Request(c).route = "upload" /\ work[c].step = "insert"
  BY DEF Register, At, Handling
<1>2. Sha256(c) = LastFile(c)
  BY <1>1, HashIsOfLastFile DEF AcceptInv
<1>3. ASSUME WithSha256(Sha256(c)) # {}, WithSha256(Sha256(c)) \cap VisibleTo(Level(c)) = {}
      PROVE  Excused(c)
  <2>1. PICK d \in DOMAIN docs : docs[d].sha256 = Sha256(c)
    BY <1>3 DEF WithSha256
  <2>2. ~Sees(Level(c), docs[d].access)
    BY <1>3, <2>1 DEF WithSha256, VisibleTo
  <2>3. c \notin DOMAIN docs
    BY <1>1 DEF HoldInv
  <2>4. d \in outbox \ {c}
    BY <1>1, <1>2, <2>1, <2>3 DEF LookupInv
  <2> QED BY <1>1, <1>2, <2>1, <2>2, <2>4 DEF Excused, Explained, UploadErrorIsExplained
<1>4. ~Sees(Level(c), NormalizeMeta(c).access) => Excused(c)
  BY <1>1 DEF Excused, Explained, UploadErrorIsExplained
<1>5. \/ UNCHANGED gateway
      \/ Existing(c, WithSha256(Sha256(c)) \cap VisibleTo(Level(c)))
      \/ /\ \/ Fails(c)
            \/ WithSha256(Sha256(c)) # {} /\ WithSha256(Sha256(c)) \cap VisibleTo(Level(c)) = {}
            \/ ~Sees(Level(c), NormalizeMeta(c).access)
         /\ Problem(c, grpcHTTPStatus("Internal"))
  BY DEF Register
<1>6. CASE UNCHANGED gateway
  BY <1>6 DEF Owns, gateway
<1>7. CASE Existing(c, WithSha256(Sha256(c)) \cap VisibleTo(Level(c)))
  BY <1>7, AnswerOwns DEF Existing, Registered
<1>8. ASSUME Excused(c), Problem(c, grpcHTTPStatus("Internal")) PROVE Owns(c)
  BY <1>8, ProblemOwns
<1> QED BY <1>3, <1>4, <1>5, <1>6, <1>7, <1>8, FailureExcuses

LEMMA UploadsOwn ==
  ASSUME HoldInv, AcceptInv, LookupInv, NEW c \in Players, UploadStep(c)
  PROVE  Owns(c)
<1> USE StatusIsCode, FailureExcuses
<1>0. UNCHANGED gateway => Owns(c)
  BY DEF Owns, gateway
<1>1. CASE collectParts(c)
  <2>1. UNCHANGED gateway \/ Problem(c, 400)
    BY <1>1 DEF collectParts
  <2> QED BY <1>0, <2>1, ProblemOwns DEF Codes
<1>2. CASE uploadDocument(c)
  <2>1. UNCHANGED gateway \/ Problem(c, 400)
    BY <1>2 DEF uploadDocument
  <2> QED BY <1>0, <2>1, ProblemOwns DEF Codes
<1>3. CASE FindIDBySHA256(c)
  <2>1. \/ UNCHANGED gateway \/ Problem(c, grpcHTTPStatus("InvalidArgument"))
        \/ Fails(c) /\ Problem(c, grpcHTTPStatus("Internal"))
        \/ Existing(c, WithSha256(Sha256(c)))
    BY <1>3 DEF FindIDBySHA256
  <2>2. grpcHTTPStatus("InvalidArgument") = 400
    BY DEF grpcHTTPStatus
  <2>3. Existing(c, WithSha256(Sha256(c))) => Owns(c)
    BY AnswerOwns DEF Existing, Registered
  <2> QED BY <1>0, <2>1, <2>2, <2>3, ProblemOwns DEF Codes
<1>4. CASE Register(c)
  BY <1>4, LookupIsOwned
<1>5. CASE registerDocumentResponse(c)
  <2>1. \/ Registered(c, c, FALSE)
        \/ Fails(c) /\ Problem(c, grpcHTTPStatus("Unavailable"))
    BY <1>5 DEF registerDocumentResponse
  <2> QED BY <2>1, ProblemOwns, AnswerOwns DEF Registered
<1>6. CASE GetStatus(c)
  <2>1. \/ \E body : Respond(c, 200, body)
        \/ Respond(c, grpcHTTPStatus("NotFound"), None)
        \/ Fails(c) /\ Respond(c, grpcHTTPStatus("Internal"), None)
    BY <1>6 DEF GetStatus
  <2>2. grpcHTTPStatus("NotFound") = 404
    BY DEF grpcHTTPStatus
  <2> QED BY <2>1, <2>2, AnswerOwns, FailureOwns
<1>7. CASE ListDocuments(c)
  <2>1. \/ \E body : Respond(c, 200, body)
        \/ Fails(c) /\ Respond(c, grpcHTTPStatus("Internal"), None)
    BY <1>7 DEF ListDocuments
  <2> QED BY <2>1, AnswerOwns, FailureOwns
<1>8. CASE documentFile(c)
  <2>1. \/ Problem(c, 404)
        \/ Fails(c) /\ \E code \in {500, 502} : Problem(c, code)
        \/ \E body : Respond(c, 200, body)
        \/ Respond(c, 404, None)
    BY <1>8 DEF documentFile
  <2> QED BY <2>1, AnswerOwns, ProblemOwns DEF Codes
<1> QED BY <1>1, <1>2, <1>3, <1>4, <1>5, <1>6, <1>7, <1>8 DEF UploadStep

LEMMA DecisionsOwn ==
  ASSUME NEW c \in Players, DecisionStep(c)
  PROVE  Owns(c)
<1> USE StatusIsCode, FailureExcuses
<1>1. CASE UpdateFactStatus(c)
  <2>1. \/ Refuse(c, IF Body(c) = None THEN "" ELSE Body(c).status)
        \/ /\ ~factTable(Kind(c)) \/ Body(c).status \notin ValidationStatus
           /\ Problem(c, grpcHTTPStatus("Unknown"))
        \/ Answer(c, [fact |-> Id(c)])
    BY <1>1 DEF UpdateFactStatus, updateFactStatusHandler
  <2>2. Request(c).route = "fact"
    BY <1>1 DEF UpdateFactStatus, Handling
  <2>3. (~factTable(Kind(c)) \/ Body(c).status \notin ValidationStatus) => Excused(c)
    BY <2>2 DEF Excused, Explained
  <2>4. Refuse(c, IF Body(c) = None THEN "" ELSE Body(c).status) => Owns(c)
    BY RefusalOwns
  <2> QED BY <2>1, <2>3, <2>4, ServiceOwns, ProblemOwns
<1>2. CASE updateEntityStatus(c)
  <2>1. \/ \E required : Refuse(c, required)
        \/ Problem(c, 404)
        \/ \E body : Respond(c, 200, body)
    BY <1>2 DEF updateEntityStatus
  <2> QED BY <2>1, RefusalOwns, AnswerOwns, ProblemOwns DEF Codes
<1>3. CASE MergeEntities(c)
  <2>1. \/ \E required : Refuse(c, required)
        \/ \E body : Answer(c, body)
        \/ /\ \/ Body(c).into \notin DOMAIN entities
              \/ \E level \in {"internal", "public"} :
                   Clashes(Id(c), Body(c).into, FactsAfter(Id(c), Body(c).into, level))
           /\ Problem(c, grpcHTTPStatus("Unknown"))
    BY <1>3 DEF MergeEntities, mergeEntityHandler
  <2>2. Request(c).route = "merge"
    BY <1>3 DEF MergeEntities, Handling
  <2> QED BY <2>1, <2>2, RefusalOwns, ServiceOwns, ProblemOwns DEF Excused, Explained
<1>4. CASE DecideContradiction(c)
  <2>1. \/ \E required : Refuse(c, required)
        \/ \E body : Answer(c, body)
        \/ Id(c) \notin DOMAIN disputes /\ Problem(c, grpcHTTPStatus("Internal"))
    BY <1>4 DEF DecideContradiction, decideContradictionHandler
  <2>2. Request(c).route = "contradiction"
    BY <1>4 DEF DecideContradiction, Handling
  <2> QED BY <2>1, <2>2, RefusalOwns, ServiceOwns, ProblemOwns DEF Excused, Explained
<1>5. CASE reviewQueue(c)
  <2>1. \/ Problem(c, 400)
        \/ Fails(c) /\ Problem(c, 500)
        \/ \E body : Respond(c, 200, body)
    BY <1>5 DEF reviewQueue
  <2> QED BY <2>1, AnswerOwns, ProblemOwns DEF Codes
<1> QED BY <1>1, <1>2, <1>3, <1>4, <1>5 DEF DecisionStep

LEMMA ListOwns ==
  ASSUME NEW c \in Players, NEW route, NEW body, Shows(c, route, body) \/ Reads(c, route, body)
  PROVE  Owns(c)
<1>1. CASE Shows(c, route, body)
  <2>1. grpcHTTPStatus("Internal") \in Codes
    BY StatusIsCode
  <2> QED BY <1>1, <2>1, AnswerOwns, FailureOwns, FailureExcuses DEF Shows
<1>2. CASE Reads(c, route, body)
  <2>1. \/ \E items : Respond(c, 200, items)
        \/ Fails(c) /\ \E code \in {500, 502} : Respond(c, code, None)
    BY <1>2 DEF Reads
  <2>2. {500, 502} \subseteq Codes
    BY DEF Codes
  <2> QED BY <2>1, <2>2, AnswerOwns, FailureOwns, FailureExcuses
<1> QED BY <1>1, <1>2

LEMMA SearchesOwn ==
  ASSUME FailInv, process.state # "stopped", NEW c \in Players, SearchStep(c)
  PROVE  Owns(c)
<1>1. UNCHANGED gateway => Owns(c)
  BY DEF Owns, gateway
<1>2. CASE searchHandler(c)
  <2>1. Request(c).route = "search"
    BY <1>2 DEF searchHandler, Handling
  <2>2. \/ UNCHANGED gateway \/ Problem(c, 400)
        \/ \E body : Respond(c, 200, body)
        \/ search[c].step = "failed" /\ Problem(c, grpcHTTPStatus("Internal"))
    BY <1>2 DEF searchHandler
  <2>3. search[c].step = "failed" => Excused(c)
    BY <2>1 DEF FailInv, Excused, Explained
  <2>4. grpcHTTPStatus("Internal") \in Codes /\ 400 \in Codes
    BY StatusIsCode DEF Codes
  <2> QED BY <1>1, <2>2, <2>3, <2>4, AnswerOwns, ProblemOwns
<1>3. CASE GetEntity(c)
  <2>1. \/ \E body : Shows(c, "entity", body)
        \/ Problem(c, grpcHTTPStatus("NotFound"))
    BY <1>3 DEF GetEntity
  <2>2. grpcHTTPStatus("NotFound") = 404 /\ 404 \in Codes
    BY DEF grpcHTTPStatus, Codes
  <2> QED BY <2>1, <2>2, ListOwns, ProblemOwns
<1>4. CASE ListEntities(c) \/ ListEntityFacts(c) \/ EntityGraph(c) \/ ListExperts(c) \/ ListExperiments(c)
  <2>1. \E route, body : Shows(c, route, body)
    BY <1>4 DEF ListEntities, ListEntityFacts, EntityGraph, ListExperts, ListExperiments
  <2> QED BY <2>1, ListOwns
<1> QED BY <1>1, <1>2, <1>3, <1>4 DEF SearchStep

LEMMA ListsOwn ==
  ASSUME NEW c \in Players, BrowseStep(c)
  PROVE  Owns(c)
<1>1. \E route, body : Shows(c, route, body) \/ Reads(c, route, body)
  BY DEF BrowseStep, GetCoverage, GetContradictions, dictionaryUnits, dictionarySynonyms
<1> QED BY <1>1, ListOwns

(* A question is answered with 200 when its stream ends; before, it may be    *)
(* refused.                                                                   *)
LEMMA QuestionsOwn ==
  ASSUME NEW c \in Players, AskStep(c)
  PROVE  Owns(c)
<1>0. (UNCHANGED gateway \/ UNCHANGED reply => Owns(c)) /\ (EndStream(c) => Owns(c))
  BY AnswerOwns DEF Owns, gateway, EndStream
<1>1. CASE queryParse(c)
  <2>1. \/ Respond(c, 400, None)
        \/ \E body : Respond(c, 200, body)
        \/ Fails(c) /\ Respond(c, grpcHTTPStatus("Unavailable"), None)
    BY <1>1 DEF queryParse
  <2>2. grpcHTTPStatus("Unavailable") \in Codes
    BY StatusIsCode
  <2> QED BY <2>1, <2>2, AnswerOwns, FailureOwns, FailureExcuses
<1>2. CASE askHandler(c)
  <2>1. UNCHANGED gateway \/ Problem(c, 400)
    BY <1>2 DEF askHandler
  <2> QED BY <1>0, <2>1, ProblemOwns DEF Codes
<1>3. CASE planAndTerms(c) \/ cacheGet(c) \/ augmentFacts(c) \/ augmentChunks(c) \/ runSynthesis(c)
           \/ emitDelta(c) \/ cachePut(c)
  <2>1. UNCHANGED gateway
    BY <1>3 DEF planAndTerms, cacheGet, augmentFacts, augmentChunks, runSynthesis, emitDelta, cachePut
  <2> QED BY <1>0, <2>1
<1>4. CASE searchFailed(c) \/ emitDone(c) \/ askAborted(c)
  <2>1. EndStream(c)
    BY <1>4 DEF searchFailed, emitDone, askAborted, writeSSEProblem
  <2> QED BY <1>0, <2>1
<1> QED BY <1>1, <1>2, <1>3, <1>4 DEF AskStep

LEMMA ActsOwn ==
  ASSUME HoldInv, AcceptInv, LookupInv, FailInv, process.state # "stopped", NEW c \in Players, Acts(c)
  PROVE  Owns(c)
BY UploadsOwn, DecisionsOwn, SearchesOwn, ListsOwn, QuestionsOwn DEF Acts

(* An error in a stream ends it.                                             *)
LEMMA ErrorsAreExplained ==
  ASSUME StreamInv, StreamInv', FailInv, process.state # "stopped", scene' = scene, NEW c \in Players, AskStep(c)
  PROVE  (EventsOf(c, "error"))' = {} \/ EventsOf(c, "error")' = EventsOf(c, "error") \/ Explained(c)
<1>1. CASE UNCHANGED stream
  BY <1>1 DEF EventsOf
<1>2. CASE asks'[c].step # "end"
  <2>1. Sending(c)' /\ \E S : stream'[c] \in Seq(S)
    <3>1. Players' = Players
      BY DEF Players
    <3> QED BY <1>2, <3>1 DEF StreamInv
  <2>2. PICK S : stream'[c] \in Seq(S)
    BY <2>1
  <2>3. DOMAIN stream'[c] = 1..Len(stream'[c])
    BY <2>2, LenProperties
  <2>4. \A i \in DOMAIN stream'[c] : stream'[c][i].event # "error"
    BY <2>1, <2>3 DEF Sending, InPlace, NameAt
  <2> QED BY <2>4 DEF EventsOf
<1>3. CASE emitDone(c)
  <2>1. asks[c].step = "done"
    BY <1>3 DEF emitDone, Going, Asking
  <2>2. PICK e : Emit(c, <<e>>) /\ e.event = "answer.done"
    BY <1>3 DEF emitDone
  <2>3. PICK S : stream[c] \in Seq(S)
    BY DEF StreamInv
  <2>4. stream'[c] = stream[c] \o <<e>>
    BY <2>2 DEF StreamInv, Emit
  <2>5. Longer(stream[c], e, stream'[c])
    BY <2>3, <2>4, OneMore
  <2>6. PICK T : stream'[c] \in Seq(T)
    BY <2>5 DEF Longer
  <2>7. DOMAIN stream'[c] = 1..Len(stream[c]) + 1 /\ Len(stream[c]) \in Nat
    BY <2>5, <2>6, LenProperties DEF Longer
  <2>8. \A i \in 1..Len(stream[c]) : stream[c][i].event # "error"
    BY <2>1 DEF StreamInv, Sending, InPlace, NameAt
  <2>9. \A i \in DOMAIN stream'[c] : stream'[c][i].event # "error"
    BY <2>2, <2>5, <2>7, <2>8 DEF Longer
  <2> QED BY <2>9 DEF EventsOf
<1>4. CASE searchFailed(c)
  <2>1. Request(c).route = "ask" /\ search[c].step = "failed" /\ c \notin left
    BY <1>4 DEF searchFailed, Going, Asking
  <2> QED BY <2>1 DEF FailInv, Explained
<1>5. CASE askAborted(c)
  <2>1. UNCHANGED stream \/ scene.faults
    BY <1>5 DEF askAborted
  <2> QED BY <1>1, <2>1 DEF Explained
<1>6. CASE planAndTerms(c) \/ augmentFacts(c) \/ runSynthesis(c) \/ cachePut(c) \/ askHandler(c)
  <2>1. UNCHANGED stream
    BY <1>6 DEF planAndTerms, augmentFacts, runSynthesis, cachePut, askHandler
  <2> QED BY <1>1, <2>1
<1>8. CASE cacheGet(c) \/ augmentChunks(c) \/ emitDelta(c)
  <2>1. \E fields : Goes(c, fields) /\ "step" \in DOMAIN fields /\ fields.step # "end"
    <3>1. CASE cacheGet(c)
      BY <3>1 DEF cacheGet
    <3>2. CASE augmentChunks(c)
      BY <3>2 DEF augmentChunks
    <3>3. CASE emitDelta(c)
      BY <3>3 DEF emitDelta
    <3> QED BY <1>8, <3>1, <3>2, <3>3
  <2> QED BY <1>2, <2>1, GoesTo DEF Proceeds
<1>7. CASE queryParse(c)
  BY <1>1, <1>7 DEF queryParse, answering
<1> QED BY <1>3, <1>4, <1>5, <1>6, <1>7, <1>8 DEF AskStep

LEMMA FaultsStay ==
  ASSUME [Next]_vars
  PROVE  /\ scene' = scene /\ left \subseteq left'
         /\ process.state \in {"closing", "stopped"} => process'.state \in {"closing", "stopped"}
<1>1. CASE \E c \in Players : HangUp(c)
  BY <1>1, SceneStays DEF HangUp
<1>2. CASE \E c \in Players : authorize(c) \/ emitAuditEvent(c) \/ recordAudit(c)
  BY <1>2, SceneStays DEF authorize, emitAuditEvent, recordAudit, Problem, Respond
<1>3. CASE RuntimeStep
  <2>1. UNCHANGED left
    BY <1>3 DEF RuntimeStep
  <2>2. ASSUME process.state \in {"closing", "stopped"} PROVE process'.state \in {"closing", "stopped"}
    <3>1. process' = [process EXCEPT !.state = "stopped"]
      BY <1>3, <2>2 DEF RuntimeStep, signal, listenerFails, shutdown, closeResources
    <3>2. process' = process \/ process'.state = "stopped"
      BY <3>1
    <3> QED BY <2>2, <3>2
  <2> QED BY <2>1, <2>2, SceneStays
<1>4. CASE Silent \/ \E c \in Players : Answers(c) \/ Reviews(c)
  BY <1>4 DEF Silent, Answers, Reviews, Respond
<1> QED BY <1>1, <1>2, <1>3, <1>4, StepIsHandled DEF GatewayNext

(* A read that succeeds goes on.                                             *)
LEMMA ThenSucceeds ==
  ASSUME PackInv, NEW c \in Players, search[c].step \in Range(ReadSteps), NEW pack, Then(c, pack)
  PROVE  search'[c].step # "failed"
<1>1. PICK i \in 1..8 : i = CHOOSE j \in DOMAIN ReadSteps : ReadSteps[j] = search[c].step
  BY DEF ReadSteps, Range
<1> DEFINE step == IF i = Len(ReadSteps) THEN "ready" ELSE ReadSteps[i + 1]
<1>2. step # "failed"
  <2>1. i = 1 \/ i = 2 \/ i = 3 \/ i = 4 \/ i = 5 \/ i = 6 \/ i = 7 \/ i = 8
    BY <1>1
  <2> QED BY <2>1 DEF ReadSteps
<1>3. search' = [search EXCEPT ![c].pack = pack, ![c].step = step]
  BY <1>1 DEF Then
<1>4. search'[c].step = step
  <2> HIDE DEF step
  <2> QED BY <1>3 DEF PackInv, SearchFields
<1> QED BY <1>2, <1>4

LEMMA MoveFails ==
  ASSUME PackInv, NEW c \in Players, SearchMove(c), search'[c].step = "failed"
  PROVE  (search'[c].plan = search[c].plan /\ BadBounds(search[c].plan)) \/ Fails(c)
<1>0. search = [d \in Players |-> search[d]] /\ DOMAIN search[c] = SearchFields
  BY DEF PackInv
<1>1. CASE \E plan : StartSearch(c, plan)
  BY <1>0, <1>1 DEF StartSearch
<1>2. CASE search' = [search EXCEPT ![c].step = "done"]
  BY <1>0, <1>2 DEF SearchFields
<1>3. CASE ExpandEntityIDs(c)
  <2>1. PICK ids, step : search' = [search EXCEPT ![c].ids = ids, ![c].step = step] /\ step # "failed"
    BY <1>3 DEF ExpandEntityIDs
  <2> QED BY <1>0, <2>1 DEF SearchFields
<1>4. ASSUME search[c].step \in Range(ReadSteps), NEW pack, Then(c, pack) PROVE FALSE
  BY <1>4, ThenSucceeds
<1>5. CASE FTSChunks(c) \/ Consensus(c) \/ Contradictions(c) \/ Gaps(c) \/ Experts(c) \/ EgoGraph(c)
  <2>1. \E pack : Then(c, pack)
    BY <1>5 DEF FTSChunks, Consensus, Contradictions, Gaps, Experts, EgoGraph
  <2>2. search[c].step \in {"chunks", "consensus", "contradictions", "gaps", "experts", "graph"}
    BY <1>5 DEF FTSChunks, Consensus, Contradictions, Gaps, Experts, EgoGraph, Reading
  <2> QED BY <1>4, <2>1, <2>2, ReadsAre
<1>6. CASE Facts(c)
  <2>1. search[c].step \in Range(ReadSteps)
    BY <1>6, ReadsAre DEF Facts, Reading
  <2>2. PICK filter : filter = factFilter(search[c].plan)
    OBVIOUS
  <2>3. BadRange(search[c].ids, filter, Level(c)) /\ search' = [search EXCEPT ![c].step = "failed"]
    BY <1>4, <1>6, <2>1, <2>2 DEF Facts
  <2>4. \E r \in filter.ranges : r.lo > r.hi
    BY <2>3 DEF BadRange, RangesFor
  <2>5. search'[c].plan = search[c].plan
    BY <1>0, <2>3 DEF SearchFields
  <2> QED BY <2>2, <2>4, <2>5 DEF BadBounds
<1>7. CASE SearchFails(c)
  BY <1>7 DEF SearchFails
<1> QED BY <1>1, <1>2, <1>3, <1>5, <1>6, <1>7 DEF SearchMove, buildPack

LEMMA FailNext ==
  ASSUME PackInv, FailInv, [Next]_vars
  PROVE  FailInv'
<1>0. /\ scene' = scene /\ left \subseteq left' /\ Players' = Players
      /\ process.state \in {"closing", "stopped"} => process'.state \in {"closing", "stopped"}
  BY FaultsStay DEF Players
<1>1. CASE UNCHANGED search
  BY <1>0, <1>1 DEF FailInv, BadBounds
<1>2. ASSUME NEW c \in Players, SearchMove(c) PROVE FailInv'
  <2>1. \A d \in Players \ {c} : search'[d] = search[d]
    <3>1. search = [d \in Players |-> search[d]]
      BY DEF PackInv
    <3>2. \E step : search' = [search EXCEPT ![c] = step]
      BY <1>2, <3>1 DEF SearchMove, StartSearch, buildPack, ExpandEntityIDs, Facts, FTSChunks, Consensus, Contradictions,
                 Gaps, Experts, EgoGraph, SearchFails, Then
    <3> QED BY <3>1, <3>2
  <2>2. ASSUME NEW d \in Players, search'[d].step = "failed"
        PROVE  \/ d \in left' \/ scene'.faults \/ process'.state \in {"closing", "stopped"}
               \/ (BadBounds(search[d].plan))'
    <3>1. CASE d # c
      BY <1>0, <2>1, <2>2, <3>1 DEF FailInv, BadBounds
    <3>2. CASE d = c
      BY <1>0, <1>2, <2>2, <3>2, MoveFails DEF Fails, BadBounds
    <3> QED BY <3>1, <3>2
  <2> QED BY <1>0, <2>2 DEF FailInv
<1>3. CASE Background \/ (GatewayNext /\ UNCHANGED search)
  BY <1>1, <1>3 DEF Background, vars
<1> QED BY <1>1, <1>2, <1>3, Steps, SearchMoves

(* Documents that are new have an event; nobody else's locals change.         *)
LEMMA NewDocsAnnounced ==
  ASSUME HoldInv, [Next]_vars
  PROVE  \A d \in DOMAIN docs' : d \in DOMAIN docs \/ d \in outbox'
<1>1. CASE DOMAIN docs' = DOMAIN docs
  BY <1>1
<1>2. ASSUME NEW c \in Players, Acts(c), ~(DOMAIN docs' = DOMAIN docs)
      PROVE  \A d \in DOMAIN docs' : d \in DOMAIN docs \/ d \in outbox'
  <2>1. Register(c)
    BY <1>2 DEF Acts, UploadStep, collectParts, uploadDocument, FindIDBySHA256, registerDocumentResponse,
                GetStatus, ListDocuments, documentFile, uploads
  <2> QED BY <1>2, <2>1 DEF Register
<1>3. CASE ExtractionNext
  <2>1. UNCHANGED docs \/ docs' = [docs EXCEPT ![Doc].status = "indexed"]
    BY <1>3 DEF ExtractionNext, fetchBundle, ResolveByNames, Commit, Nak
  <2> QED BY <2>1
<1>4. CASE (Background /\ ~ExtractionNext) \/ (GatewayNext /\ UNCHANGED uploads)
  BY <1>4 DEF Background, vars, uploads
<1> QED BY <1>1, <1>2, <1>3, <1>4, Steps

(* Reading a part leaves the step of the upload where it is.                  *)
LEMMA ReadingKeepsStep ==
  ASSUME NEW c, c \in DOMAIN work, DOMAIN work[c] = {"step", "at", "key", "meta"}, collectParts(c)
  PROVE  work'[c].step = work[c].step
<1> DEFINE i == work[c].at
<1>1. CASE UNCHANGED work
  BY <1>1
<1>2. CASE work' = [work EXCEPT ![c].at = i + 1, ![c].key = Key(c, i)]
  <2>1. PICK at, key : at = i + 1 /\ key = Key(c, i)
    OBVIOUS
  <2>2. work' = [work EXCEPT ![c].at = at, ![c].key = key]
    BY <1>2, <2>1
  <2> QED BY <2>2
<1>3. CASE \E meta : work' = [work EXCEPT ![c].at = i + 1, ![c].meta = meta @@ @]
  <2>1. PICK at : at = i + 1
    OBVIOUS
  <2>2. PICK meta : work' = [work EXCEPT ![c].at = at, ![c].meta = meta @@ @]
    BY <1>3, <2>1
  <2> QED BY <2>2
<1>4. CASE work' = [work EXCEPT ![c].at = i + 1]
  <2>1. PICK at : at = i + 1
    OBVIOUS
  <2>2. work' = [work EXCEPT ![c].at = at]
    BY <1>4, <2>1
  <2> QED BY <2>2
<1>5. CASE work' = [work EXCEPT ![c].at = i + 1, ![c].meta = Parts(c)[i].meta @@ @]
  BY <1>3, <1>5
<1> QED BY <1>1, <1>2, <1>4, <1>5 DEF collectParts, i

LEMMA LookedUp ==
  ASSUME HoldInv, AcceptInv, NEW c \in Players, Acts(c), Request(c).route = "upload",
         work[c].step # "insert", work'[c].step = "insert"
  PROVE  UNCHANGED docs /\ \A d \in DOMAIN docs : docs[d].sha256 # LastFile(c)
<1>1. UploadStep(c)
  BY DEF Acts, uploads
<1>2. FindIDBySHA256(c)
  <2>0. c \in DOMAIN work /\ DOMAIN work[c] = {"step", "at", "key", "meta"}
    BY DEF HoldInv
  <2>1. ~collectParts(c)
    BY <2>0, ReadingKeepsStep
  <2>2. ~uploadDocument(c) /\ ~Register(c)
    BY <2>0 DEF uploadDocument, Register, Goto
  <2>3. UNCHANGED work => FALSE
    OBVIOUS
  <2> QED BY <1>1, <2>1, <2>2, <2>3 DEF UploadStep, registerDocumentResponse, GetStatus, ListDocuments,
                                        documentFile, uploads
<1>3. work[c].step = "register" /\ UNCHANGED docs /\ (UNCHANGED work \/ WithSha256(Sha256(c)) = {})
  BY <1>2 DEF FindIDBySHA256, At
<1>4. Sha256(c) = LastFile(c)
  BY <1>3, HashIsOfLastFile DEF AcceptInv
<1> QED BY <1>3, <1>4 DEF WithSha256

LEMMA LookupNext ==
  ASSUME HoldInv, AcceptInv, LookupInv, [Next]_vars
  PROVE  LookupInv'
<1>0. /\ scene' = scene /\ Players' = Players
      /\ \A c : LastFile(c)' = LastFile(c) /\ Request(c)' = Request(c)
  BY SceneStays DEF Players, LastFile, Parts, Request
<1>1. DocsKept /\ \A d \in DOMAIN docs' : d \in DOMAIN docs \/ d \in outbox'
  BY DocsStep, NewDocsAnnounced
<1>2. ASSUME NEW c \in Players, Request(c).route = "upload", work'[c].step = "insert",
             NEW d \in DOMAIN docs', docs'[d].sha256 = LastFile(c)
      PROVE  d \in outbox'
  <2>1. CASE work[c].step = "insert"
    BY <1>1, <1>2, <2>1 DEF LookupInv, DocsKept
  <2>2. CASE work[c].step # "insert"
    <3>1. work' # work /\ work'[c] # work[c]
      BY <1>2, <2>2
    <3>2. PICK e \in Players : Acts(e)
      <4>1. ~(GatewayNext /\ UNCHANGED uploads)
        BY <3>1 DEF uploads
      <4>2. ~Background
        BY <3>1, CommitKeepsDocs DEF Background, vars, uploads
      <4> QED BY <4>1, <4>2, Steps
    <3>3. e = c
      BY <3>1, <3>2, WorkIsOwn
    <3>4. UNCHANGED docs /\ \A x \in DOMAIN docs : docs[x].sha256 # LastFile(c)
      BY <1>2, <2>2, <3>2, <3>3, LookedUp
    <3> QED BY <1>2, <3>4
  <2> QED BY <2>1, <2>2
<1> QED BY <1>0, <1>2 DEF LookupInv

LEMMA OwnedIsExplained ==
  ASSUME DrainInv, NEW c \in Players, Owns(c), reply'[c].code >= 500
  PROVE  reply[c].code >= 500 \/ Explained(c)
<1>1. CASE UNCHANGED reply
  BY <1>1
<1>2. ASSUME NEW code \in Codes, NEW body, Respond(c, code, body), code >= 500 => Excused(c)
      PROVE  Explained(c)
  <2>1. reply'[c] = IF c \in left THEN Unanswered ELSE [code |-> code, body |-> body]
    BY <1>2 DEF Respond, DrainInv
  <2>2. c \notin left /\ code >= 500
    BY <2>1 DEF Unanswered
  <2> QED BY <1>2, <2>2 DEF Excused
<1> QED BY <1>1, <1>2 DEF Owns

LEMMA FailureIsExplained ==
  ASSUME DrainInv, AuditInv, HoldInv, AcceptInv, StreamInv, LookupInv, FailInv, [Next]_vars,
         NEW c \in Players, Failed(c)'
  PROVE  Failed(c) \/ Explained(c)
<1>0. StreamInv' /\ scene' = scene
  BY StreamNext, SceneStays
<1>1. CASE reply'[c] = reply[c] /\ stream'[c] = stream[c]
  BY <1>1 DEF Failed, EventsOf
<1>2. ASSUME NEW e \in Players, Acts(e), process.state # "stopped"
      PROVE  Failed(c) \/ Explained(c)
  <2>1. CASE e # c
    <3>1. reply'[c] = reply[c]
      BY <1>2, <2>1, RepliesStand
    <3>2. stream'[c] = stream[c]
      <4>1. UNCHANGED stream \/ AskStep(e)
        BY <1>2 DEF Acts, answering
      <4> QED BY <2>1, <4>1, QuestionStreams DEF Streams
    <3> QED BY <1>1, <3>1, <3>2
  <2>2. CASE e = c
    <3>1. reply'[c].code >= 500 => reply[c].code >= 500 \/ Explained(c)
      BY <1>2, <2>2, ActsOwn, OwnedIsExplained
    <3>2. EventsOf(c, "error")' # {} => EventsOf(c, "error") # {} \/ Explained(c)
      <4>1. CASE UNCHANGED stream
        BY <4>1 DEF EventsOf
      <4>2. CASE AskStep(c)
        BY <1>0, <1>2, <4>2, ErrorsAreExplained
      <4> QED BY <1>2, <2>2, <4>1, <4>2 DEF Acts, answering
    <3>3. reply'[c].code >= 500 \/ EventsOf(c, "error")' # {}
      BY DEF Failed
    <3> QED BY <3>1, <3>2, <3>3 DEF Failed
  <2> QED BY <2>1, <2>2
<1>3. CASE Background
  <2>1. UNCHANGED <<stream, reply>>
    BY <1>3, BackgroundIsSilent DEF Background, Silent, vars, answering
  <2> QED BY <1>1, <2>1
<1>4. CASE GatewayNext /\ UNCHANGED answering
  <2>1. reply'[c] = reply[c] \/ reply'[c].code \in {0, 401, 403}
    BY <1>4 DEF GatewayNext, authorize, emitAuditEvent, recordAudit, HangUp, RuntimeStep, Problem, Respond,
                DrainInv, Unanswered
  <2>2. stream' = stream
    BY <1>4 DEF answering
  <2>3. EventsOf(c, "error")' = EventsOf(c, "error")
    BY <2>2 DEF EventsOf
  <2> QED BY <2>1, <2>3 DEF Failed
<1>5. process.state = "stopped" => UNCHANGED vars
  BY DEF Next, Finished
<1>6. CASE UNCHANGED vars
  BY <1>1, <1>6 DEF vars, gateway, answering
<1> QED BY <1>2, <1>3, <1>4, <1>5, <1>6, Steps

LEMMA LookupInit == Init => LookupInv
BY DEF Init, UploadsInit, LookupInv, Players

LEMMA FailInit == Init => FailInv
BY DEF Init, SearchInit, Nothing, FailInv, Players

(* The server fails nobody without a reason: a step that answers a request     *)
(* with a failure, or sends one into its stream, follows a fault or a late     *)
(* stop, or starts from a state in which what the request asks for cannot be   *)
(* done; never is it what others do in the meantime, or the LLM.               *)
THEOREM ServerErrorsAreExplained == Spec => ServerErrorIsExplained
<1>1. Init => /\ DrainInv /\ AuditInv /\ HoldInv /\ AcceptInv /\ RowsInv /\ PackInv
              /\ StreamInv /\ LookupInv /\ FailInv
  BY DrainInit, AuditInit, HoldInit, AcceptInit, RowsInit, PackInit, StreamInit, LookupInit, FailInit
<1>2. /\ DrainInv /\ AuditInv /\ HoldInv /\ AcceptInv /\ RowsInv /\ PackInv
      /\ StreamInv /\ LookupInv /\ FailInv /\ [Next]_vars
      => (/\ DrainInv /\ AuditInv /\ HoldInv /\ AcceptInv /\ RowsInv /\ PackInv
          /\ StreamInv /\ LookupInv /\ FailInv)'
  BY DrainNext, AuditNext, HoldNext, AcceptNext, RowsStep, PackNext, StreamNext, LookupNext, FailNext DEF AcceptInv
<1>3. /\ DrainInv /\ AuditInv /\ HoldInv /\ AcceptInv /\ StreamInv /\ LookupInv /\ FailInv /\ [Next]_vars
      => [\A c \in Players : Failed(c)' => Failed(c) \/ Explained(c)]_vars
  BY FailureIsExplained
<1> QED BY <1>1, <1>2, <1>3, PTL DEF Spec, ServerErrorIsExplained
=============================================================================
