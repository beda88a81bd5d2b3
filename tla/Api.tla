-------------------------------- MODULE Api ---------------------------------
(***************************************************************************)
(* The whole behind the gateway: uploads, reads, decisions, searches and   *)
(* questions of several clients at once, over one state, until the gateway *)
(* is told to stop.                                                        *)
(***************************************************************************)
EXTENDS Extraction, Browse, Ask

vars == <<scene, gateway, uploads, decisions, commit, search, chains, answering>>

TypeOK == GatewayTypeOK /\ UploadsTypeOK /\ ExtractionTypeOK /\ AskTypeOK /\ LlmTypeOK

Init ==
  /\ GatewayInit /\ UploadsInit /\ DecisionsInit /\ ExtractionInit /\ SearchInit /\ AskInit
  /\ LlmInit /\ llm = scene.llm

(* When every request is done, or can no longer be taken.                   *)
Finished ==
  /\ process.state = "stopped" \/ \A c \in Players : pc[c] = "done"
  /\ UNCHANGED vars

Next ==
  \/ /\ process.state # "stopped"
     /\ \/ GatewayNext /\ UNCHANGED <<uploads, decisions, commit, search, chains, answering>>
        \/ UploadsNext /\ UNCHANGED <<decisions, commit, search, chains, answering>>
        \/ DecisionsNext /\ UNCHANGED <<uploads, commit, search, chains, answering>>
        \/ ExtractionNext /\ UNCHANGED <<search, chains, answering>>
        \/ SearchNext /\ UNCHANGED <<uploads, commit, chains, answering>>
        \/ BrowseNext /\ UNCHANGED <<uploads, commit, chains, answering>>
        \/ AskNext /\ UNCHANGED <<uploads, commit>>
  \/ Finished

Spec == Init /\ [][Next]_vars

-----------------------------------------------------------------------------
Undisturbed(c) == c \notin left /\ ~scene.faults /\ ~process.late

Changes == [upload |-> "document.upload", fact |-> "fact.decision", merge |-> "entity.merge",
            review |-> "entity.review", contradiction |-> "contradiction.decision"]

(* What c changed, as the tables show it.                                   *)
HasChanged(c) ==
  CASE Request(c).route = "upload" -> c \in outbox
    [] Request(c).route \in {"fact", "merge"} -> Decided(c)
    [] Request(c).route = "review" -> reply[c].code = 200
    [] OTHER -> disputes # scene.disputes /\ reply[c].code = 200

(* Who changes anything is in the audit log once the request is over, unless *)
(* something failed, the client hung up, or the gateway did not wait for the *)
(* request when it stopped; and nobody is in it for a change that the tables *)
(* do not have.                                                              *)
ChangeIsAudited ==
  \A c \in Players : Request(c).route \in DOMAIN Changes =>
    LET rows == {row \in trail : row.client = c /\ row.action = Changes[Request(c).route]} IN
    /\ (pc[c] = "done" /\ HasChanged(c) /\ Undisturbed(c)) => rows # {}
    /\ (rows # {} /\ Request(c).route \in {"fact", "merge"}) => Decided(c)
    /\ \A row \in rows : row.user = caller[c].user

Failed(c) == reply[c].code >= 500 \/ EventsOf(c, "error") # {}

BadBounds(plan) == \E r \in factFilter(plan).ranges : r.lo > r.hi

Explained(c) ==
  \/ scene.faults \/ process.state = "closing"
  \/ Request(c).route = "upload" /\ UploadErrorIsExplained(c)
  \/ /\ Request(c).route \in {"search", "ask"}
     /\ search[c].step = "failed" /\ BadBounds(search[c].plan)
  \/ /\ Request(c).route = "fact"
     /\ ~factTable(Kind(c)) \/ Body(c).status \notin ValidationStatus
  \/ /\ Request(c).route = "merge"
     /\ \/ Body(c).into \notin DOMAIN entities
        \/ \E level \in {"internal", "public"} :
             Clashes(Id(c), Body(c).into, FactsAfter(Id(c), Body(c).into, level))
  \/ Request(c).route = "contradiction" /\ Id(c) \notin DOMAIN disputes

(* A request fails in the server only by a fault or a late stop, an upload   *)
(* because of what its caller does not see, a search or a question because   *)
(* of bounds in the wrong order, a decision because what it names does not   *)
(* exist or a merge would make two facts or aliases one: never because of    *)
(* what others do at the same time, or of the LLM.                           *)
ServerErrorIsExplained ==
  [][\A c \in Players : Failed(c)' => Failed(c) \/ Explained(c)]_vars

ShownFacts(c) ==
  CASE Request(c).route \in {"entityFacts", "experiments", "search"} -> Range(reply[c].body.facts)
    [] Request(c).route = "contradictions" ->
         UNION {{item.aStatement, item.bStatement} : item \in reply[c].body.items}
    [] Request(c).route = "queue" /\ Request(c).kind \in {"facts", "orphans"} -> reply[c].body.items
    [] OTHER -> {}

(* Whose sight the evidence of an answer has: that of the asker, or, of what  *)
(* the retriever of the answer service found, that of its own sessions.       *)
Sight(found, level) == IF found THEN normalizeRLS(None) ELSE level

(* What a client is shown, by a list or a search, of documents, facts and     *)
(* chunks, is of documents up to the access of its token, and of the          *)
(* contradictions those whose two facts are - whatever is committed, merged   *)
(* or decided while it is read.  The evidence of an answer, computed now or   *)
(* remembered from another's question, goes beyond that in what was found by  *)
(* its text alone, for any token up to the sight of a session without         *)
(* context.                                                                   *)
ShownIsVisible ==
  \A c \in Players :
    LET level == PrincipalOf(Request(c).token).access IN
    /\ \A e \in EventsOf(c, "evidence") :
         /\ \A f \in Range(e.pack.facts) : Sees(Sight(e.pack.byText, level), facts[f].access)
         /\ \A k \in Range(e.pack.chunks) : Sees(Sight(e.pack.retrieved, level), scene.chunks[k].access)
    /\ reply[c].code = 200 =>
         /\ \A f \in ShownFacts(c) : Sees(level, facts[f].access)
         /\ Request(c).route = "search" =>
              \A k \in Range(reply[c].body.chunks) : Sees(level, scene.chunks[k].access)
         /\ Request(c).route \in {"status", "documents", "file"} =>
              \A d \in reply[c].body.shown : Sees(level, docs[d].access)

(* A gateway that was told to stop, and did not have to give up, answers     *)
(* every request it had taken from a client that stays, and audits it.       *)
RequestsAreDrained ==
  (process.state \in {"closing", "stopped"} /\ ~process.late) =>
    \A c \in Players : caller[c] # None => pc[c] = "done" /\ (c \in left \/ Answered(c))
=============================================================================
