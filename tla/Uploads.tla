------------------------------ MODULE Uploads -------------------------------
(***************************************************************************)
(* Documents through the gateway and internal/ingest: an upload stores its *)
(* file, looks for a document with the file's hash and registers one if    *)
(* there is none; status, list and file read under the caller's access.    *)
(* A content stands for its SHA-256.  What happens to a document after its *)
(* registration is Pipeline's.                                             *)
(***************************************************************************)
EXTENDS Gateway

VARIABLES
  docs,           \* core.documents with its version 1: id -> [sha256, blob, access, status, ...]
  blobs,          \* the bucket raw: key -> content
  outbox,         \* document.registered events: ids
  work            \* work[c]: the locals of the upload handler of c

(* New documents are named after the client that uploads them.              *)
ASSUME DocumentsAssumption ==
  \A s \in Scenes :
    /\ DOMAIN s.docs \cap DOMAIN s.request = {}
    /\ \A d \in DOMAIN s.docs :
         /\ {"sha256", "blob", "status", "access", "year"} \subseteq DOMAIN s.docs[d]
         /\ s.docs[d].access \in Range(AccessLevels)
         /\ s.docs[d].blob \in DOMAIN s.blobs \cup {None}

(* A body has its parts one after the other, none if it is no upload's.      *)
ASSUME PartsAssumption ==
  \A s \in Scenes : \A c \in DOMAIN s.request :
    LET parts == s.request[c].parts IN parts \in Seq(Range(parts))

uploads == <<docs, blobs, outbox, work>>

DocTypes == {"article", "report", "patent", "protocol", "handbook", "normative", "dataset", "web"}
Geographies == {"ru", "foreign", "global", "unknown"}
Stages == <<"register", "parse", "extract", "commit", "epistemic">>

UploadsTypeOK ==
  /\ \A d \in DOMAIN docs : docs[d].access \in Range(AccessLevels) /\ docs[d].blob \in DOMAIN blobs \cup {None}
  /\ outbox \subseteq DOMAIN docs
  /\ \A c \in Players : Len(Request(c).parts) + 1 >= work[c].at

UploadsInit ==
  /\ docs = scene.docs
  /\ blobs = scene.blobs
  /\ outbox = {}
  /\ work = [c \in Players |-> [step |-> "parts", at |-> 1, key |-> None, meta |-> << >>]]

-----------------------------------------------------------------------------
Parts(c) == Request(c).parts
Goto(c, step) == work' = [work EXCEPT ![c].step = step]
At(c, step) == Handling(c, "upload") /\ work[c].step = step

KeyByName(c, i) == <<"raw", "report.pdf">>      \* mutant: by the file's name

(* The key of the object that part i of c is stored under: always a new one. *)
Key(c, i) == <<c, i>>

(* collectParts and streamFile, one part: a later file replaces an earlier   *)
(* one, a later metadata part adds its keys to the earlier ones.             *)
collectParts(c) ==
  /\ At(c, "parts") /\ work[c].at <= Len(Parts(c))
  /\ LET i == work[c].at
         part == Parts(c)[i]
     IN
     \/ /\ part.kind = "file" /\ c \notin left
        /\ blobs' = [k \in DOMAIN blobs \cup {Key(c, i)} |->
                       IF k = Key(c, i) THEN part.content ELSE blobs[k]]
        /\ work' = [work EXCEPT ![c].at = i + 1, ![c].key = Key(c, i)]
        /\ UNCHANGED <<gateway, scene>>
     \/ /\ part.kind = "metadata"
        /\ work' = [work EXCEPT ![c].at = i + 1, ![c].meta = part.meta @@ @]
        /\ UNCHANGED <<gateway, scene, blobs>>
     \/ /\ part.kind = "other"
        /\ work' = [work EXCEPT ![c].at = i + 1]
        /\ UNCHANGED <<gateway, scene, blobs>>
     \/ /\ part.kind \in {"unreadable", "no json"} \/ (part.kind = "file" /\ Fails(c))
        /\ Problem(c, 400)
        /\ UNCHANGED <<blobs, work>>
  /\ UNCHANGED <<docs, outbox>>

uploadDocument(c) ==
  /\ At(c, "parts") /\ work[c].at > Len(Parts(c))
  /\ \/ work[c].key = None /\ Problem(c, 400) /\ UNCHANGED work
     \/ work[c].key # None /\ Goto(c, "register") /\ UNCHANGED <<gateway, scene>>
  /\ UNCHANGED <<docs, blobs, outbox>>

-----------------------------------------------------------------------------
(* Keys of the metadata that the client left out, or that are no text, are   *)
(* empty.                                                                    *)
Declared(c, key, default) ==
  IF key \notin DOMAIN work[c].meta THEN default
  ELSE IF work[c].meta[key] \in {"", "not a text"} THEN default ELSE work[c].meta[key]

NormalizeMeta(c) ==
  [docType |-> Declared(c, "doc_type", "report"),
   geography |-> Declared(c, "geography", "unknown"),
   access |-> Declared(c, "access_level", "internal")]

ValidMeta(meta) ==
  meta.docType \in DocTypes /\ meta.geography \in Geographies /\ meta.access \in Range(AccessLevels)

Sha256(c) == blobs[work[c].key]
WithSha256(content) == {d \in DOMAIN docs : docs[d].sha256 = content}

(* What a session of these rights sees.                                      *)
VisibleTo(level) == {d \in DOMAIN docs : Sees(level, docs[d].access)}

Registered(c, d, duplicate) ==
  Respond(c, 200, [document |-> d, status |-> "registered", duplicate |-> duplicate])
  /\ UNCHANGED trail

ExistingAsNew(c, found) == \E d \in found : Registered(c, d, FALSE)      \* mutant

Existing(c, found) == \E d \in found : Registered(c, d, TRUE)

(* RegisterDocument up to the lookup, which sees every document.             *)
FindIDBySHA256(c) ==
  /\ At(c, "register")
  /\ LET found == WithSha256(Sha256(c)) IN
     \/ ~ValidMeta(NormalizeMeta(c)) /\ Problem(c, grpcHTTPStatus("InvalidArgument")) /\ UNCHANGED work
     \/ Fails(c) /\ Problem(c, grpcHTTPStatus("Internal")) /\ UNCHANGED work
     \/ /\ ValidMeta(NormalizeMeta(c)) /\ c \notin left
        /\ \/ Existing(c, found) /\ UNCHANGED work
           \/ found = {} /\ Goto(c, "insert") /\ UNCHANGED <<gateway, scene>>
  /\ UNCHANGED <<docs, blobs, outbox>>

(* The transaction: the row, its version, its stages and its event, or the   *)
(* document that another upload has inserted since, as far as the caller     *)
(* sees it.  The database may refuse a row that the caller would not see.    *)
Register(c) ==
  /\ At(c, "insert")
  /\ LET found == WithSha256(Sha256(c))
         access == NormalizeMeta(c).access
     IN
     \/ /\ c \notin left /\ found = {}
        /\ docs' = [d \in DOMAIN docs \cup {c} |-> IF d # c THEN docs[d] ELSE
                      [sha256 |-> Sha256(c), blob |-> work[c].key,
                       access |-> access, status |-> "registered",
                       docType |-> NormalizeMeta(c).docType,
                       geography |-> NormalizeMeta(c).geography, year |-> 0,
                       stages |-> [s \in Range(Stages) |->
                                     IF s = "register" THEN "done" ELSE "pending"]]]
        /\ outbox' = outbox \cup {c}
        /\ Goto(c, "committed")
        /\ UNCHANGED <<gateway, scene>>
     \/ /\ c \notin left
        /\ Existing(c, found \cap VisibleTo(Level(c)))
        /\ UNCHANGED <<docs, outbox, work>>
     \/ /\ \/ Fails(c)
           \/ found # {} /\ found \cap VisibleTo(Level(c)) = {}
           \/ found = {} /\ ~Sees(Level(c), access)
        /\ Problem(c, grpcHTTPStatus("Internal"))
        /\ UNCHANGED <<docs, outbox, work>>
  /\ UNCHANGED blobs

(* The answer of ingest may be lost after the commit.                        *)
registerDocumentResponse(c) ==
  /\ At(c, "committed")
  /\ \/ Registered(c, c, FALSE)
     \/ Fails(c) /\ Problem(c, grpcHTTPStatus("Unavailable"))
  /\ UNCHANGED uploads

-----------------------------------------------------------------------------
GetStatus(c) ==
  /\ Handling(c, "status")
  /\ LET d == Request(c).document IN
     \/ /\ d \in VisibleTo(Level(c)) /\ c \notin left
        /\ Respond(c, 200, [shown |-> {d}, status |-> docs[d].status])
     \/ d \notin VisibleTo(Level(c)) /\ Respond(c, grpcHTTPStatus("NotFound"), None)
     \/ Fails(c) /\ Respond(c, grpcHTTPStatus("Internal"), None)
  /\ UNCHANGED <<trail, uploads>>

(* The seed's documents are listed to nobody; indexed ones come first.  Ties *)
(* are broken by the age of the rows, which the model leaves open.           *)
Listed(level) == {d \in VisibleTo(level) : docs[d].status # "archived" /\ d \notin scene.seeds}
limitOf(limit) == IF limit = 0 THEN 50 ELSE Min({limit, 100})

ListDocuments(c) ==
  /\ Handling(c, "documents")
  /\ LET listed == Listed(Level(c))
         indexed == {d \in listed : docs[d].status = "indexed"}
         offset == Request(c).offset
         size == Min({limitOf(Request(c).limit), Max({0, Cardinality(listed) - offset})})
     IN
     \/ /\ c \notin left
        /\ \E page \in SUBSET listed :
             /\ Cardinality(page) = size
             /\ Cardinality(page \cap indexed) =
                  Min({size, Max({0, Cardinality(indexed) - offset})})
             /\ Respond(c, 200, [shown |-> page, total |-> Cardinality(listed)])
     \/ Fails(c) /\ Respond(c, grpcHTTPStatus("Internal"), None)
  /\ UNCHANGED <<trail, uploads>>

(* documentFileHandler writes its own audit row, before it reads the object. *)
documentFile(c) ==
  /\ Handling(c, "file")
  /\ LET d == Request(c).document IN
     \/ d \notin VisibleTo(Level(c)) /\ Problem(c, 404)
     \/ d \in VisibleTo(Level(c)) /\ docs[d].blob = None /\ Problem(c, 404)
     \/ Fails(c) /\ \E code \in {500, 502} : Problem(c, code)
     \/ /\ d \in VisibleTo(Level(c)) /\ docs[d].blob # None /\ c \notin left
        /\ Write(c, "document.view_source")
        /\ \/ Respond(c, 200, [shown |-> {d}, content |-> blobs[docs[d].blob]])
           \/ scene.faults /\ Respond(c, 404, None)
  /\ UNCHANGED uploads

UploadsNext ==
  \E c \in Players :
    \/ collectParts(c) \/ uploadDocument(c) \/ FindIDBySHA256(c) \/ Register(c)
    \/ registerDocumentResponse(c) \/ GetStatus(c) \/ ListDocuments(c) \/ documentFile(c)

-----------------------------------------------------------------------------
(* Each document is one content's: no two documents hold the same file, and  *)
(* the object a document points to is the one that was hashed for it, however *)
(* many files the request carried and whoever else uploads the same.          *)
DocumentHoldsItsFile ==
  \A d \in outbox :
    /\ blobs[docs[d].blob] = docs[d].sha256
    /\ WithSha256(docs[d].sha256) = {d}

LastFile(c) == LET is == {i \in DOMAIN Parts(c) : Parts(c)[i].kind = "file"} IN Parts(c)[Max(is)].content

(* An accepted upload names a document with the file that the client sent     *)
(* last, and at most one upload of a file is told that it is no duplicate:    *)
(* the one whose event is in the outbox.                                      *)
AcceptedIsRegistered ==
  \A c \in Players :
    (Request(c).route = "upload" /\ reply[c].code = 200) =>
      LET d == reply[c].body.document IN
      /\ docs[d].sha256 = LastFile(c)
      /\ reply[c].body.duplicate \/ (d = c /\ c \in outbox)

(* An upload fails in the server, without a fault, only because the caller    *)
(* does not see the document that it would be or that another upload          *)
(* registered after its lookup.                                               *)
UploadErrorIsExplained(c) ==
  \/ ~Sees(Level(c), NormalizeMeta(c).access)
  \/ \E d \in outbox \ {c} : docs[d].sha256 = LastFile(c) /\ ~Sees(Level(c), docs[d].access)
=============================================================================
