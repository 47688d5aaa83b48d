----------------------------- MODULE Documents -----------------------------
(***************************************************************************)
(* The document gateway.  An upload writes the content to the disk, then   *)
(* the document's row, which says what the signature check and the text    *)
(* extraction found, then the extraction's row.  No transaction spans the  *)
(* three.  A document has the number of its upload.                        *)
(***************************************************************************)
EXTENDS RequestHandling

CONSTANTS
    Orgs,
    DocumentRoles       \* the role codes that ask for documents

WriteRoles ==
    {"administrator", "buyer", "supplier", "complianceReviewer", "shariahReviewer", "financier"}

PrivilegedReadRoles ==
    {"administrator", "auditor", "regulator", "securityOperator", "complianceReviewer"}

\* What is told apart of a content with its MIME type.  The keys of unstorable
\* JSON hold a NUL character, which its source escapes.
Contents == {"text", "json", "brokenJson", "binary", "unstorable"}

\* What a signature is: none, of a type that is not supported, or the hash of
\* a content with the certificate.
Signatures == {"none", "foreign"} \union Contents

ExtractionStatus(content) ==
    CASE content = "binary" -> "unsupported"
      [] content = "brokenJson" -> "failed"
      [] OTHER -> "extracted"

\* extracted_fields is jsonb, which holds no NUL.
Storable(content) == content # "unstorable"

\* The adapter compares with the hash of what was stored.
Verify(signature, content) ==
    CASE signature = "none" -> "notProvided"
      [] signature = "foreign" -> "unsupported"
      [] OTHER -> IF signature = content THEN "verified" ELSE "invalid"

Extractions == {"unsupported", "failed", "extracted"}

DocumentRow == [ owner : Orgs, sha256 : Contents, extraction : Extractions,
                 signature : {"notProvided", "unsupported", "verified", "invalid"} ]

ASSUME DocumentAssumption ==
    /\ None \notin Contents
    /\ None \notin Extractions
    /\ None \notin DocumentRow

VARIABLES
    objects,        \* the content on the disk under each document's id, or None
    documents,      \* document_metadata: owner, sha256, extraction, signature, or None
    extractions,    \* document_extractions: the status, or None
    replies         \* of each read: to whom, of what, and the answer

documentVars == <<objects, documents, extractions, replies>>

DocumentInit ==
    /\ objects = [r \in Requests |-> None]
    /\ documents = [r \in Requests |-> None]
    /\ extractions = [r \in Requests |-> None]
    /\ replies = [r \in Requests |-> None]

Actors == [ org : Orgs, role : DocumentRoles ]

-----------------------------------------------------------------------------
(* POST /documents                                                         *)

\* valid is whether normalize finds no issue.
UploadDocument(r, actor, content, signature, valid) ==
    /\ NextToArrive(r)
    /\ IF actor.role \in WriteRoles /\ valid
       THEN Await(r, "storeObject",
                  [ owner |-> actor.org, content |-> content, signature |-> signature ])
       ELSE Answer(r, "refused")
    /\ UNCHANGED documentVars

\* The row names the hash of what was stored; the check and the extraction
\* need no query.
StoreObject(r) ==
    /\ pc[r] = "storeObject"
    /\ objects' = [objects EXCEPT ![r] = job[r].content]
    /\ Await(r, "saveDocument",
             [ owner |-> job[r].owner, sha256 |-> job[r].content,
               extraction |-> ExtractionStatus(job[r].content),
               signature |-> Verify(job[r].signature, job[r].content) ])
    /\ UNCHANGED <<documents, extractions, replies>>

\* Fault: the answer does not wait for the extraction.
SaveDocumentAndAnswer(r) ==
    /\ pc[r] = "saveDocument"
    /\ documents' = [documents EXCEPT ![r] = job[r]]
    /\ Answer(r, "done")
    /\ UNCHANGED <<objects, extractions, replies>>

SaveDocument(r) ==
    /\ pc[r] = "saveDocument"
    /\ documents' = [documents EXCEPT ![r] = job[r]]
    /\ Await(r, "saveExtraction", job[r])
    /\ UNCHANGED <<objects, extractions, replies>>

\* The row of the document stays when its extraction cannot be stored.
SaveExtraction(r) ==
    /\ pc[r] = "saveExtraction"
    /\ IF Storable(job[r].sha256)
       THEN extractions' = [extractions EXCEPT ![r] = job[r].extraction] /\ Answer(r, "done")
       ELSE Answer(r, "failed") /\ UNCHANGED extractions
    /\ UNCHANGED <<objects, documents, replies>>

-----------------------------------------------------------------------------
(* GET /documents/:documentId and its /extraction                          *)

ReadDocument(r, actor, d, part) ==
    /\ NextToArrive(r)
    /\ Await(r, "findDocument", [ actor |-> actor, document |-> d, part |-> part ])
    /\ UNCHANGED documentVars

CanReadDocument(actor, row) == row.owner = actor.org \/ actor.role \in PrivilegedReadRoles

Reply(r, status) ==
    /\ replies' = [replies EXCEPT ![r] =
           [ actor |-> job[r].actor, document |-> job[r].document, part |-> job[r].part,
             status |-> status ]]
    /\ Answer(r, IF status = "found" THEN "done" ELSE "refused")

FindDocument(r) ==
    /\ pc[r] = "findDocument"
    /\ LET row == documents[job[r].document]
       IN  IF row = None THEN Reply(r, "notFound")
           ELSE IF ~CanReadDocument(job[r].actor, row) THEN Reply(r, "forbidden")
           ELSE IF job[r].part = "metadata" THEN Reply(r, "found")
           ELSE Await(r, "findExtraction", job[r]) /\ UNCHANGED replies
    /\ UNCHANGED <<objects, documents, extractions>>

FindExtraction(r) ==
    /\ pc[r] = "findExtraction"
    /\ Reply(r, IF extractions[job[r].document] = None THEN "notFound" ELSE "found")
    /\ UNCHANGED <<objects, documents, extractions>>

DocumentStep(r) ==
    \/ NextToArrive(r) /\ \E actor \in Actors :
        \/ \E content \in Contents, signature \in Signatures, valid \in BOOLEAN :
               UploadDocument(r, actor, content, signature, valid)
        \/ \E d \in Requests, part \in {"metadata", "extraction"} :
               ReadDocument(r, actor, d, part)
    \/ StoreObject(r)
    \/ SaveDocument(r)
    \/ SaveExtraction(r)
    \/ FindDocument(r)
    \/ FindExtraction(r)

DocumentNext ==
    \/ \E r \in Requests :
        \/ DocumentStep(r)
        \/ QueryFails(r) /\ UNCHANGED documentVars
    \/ Crash /\ UNCHANGED documentVars

documentState == <<handling, documentVars>>

DocumentSpec == HandlingInit /\ DocumentInit /\ [][DocumentNext]_documentState

-----------------------------------------------------------------------------
(* Properties                                                              *)

\* Wherever an upload fails between its writes, a row has its object under the
\* hash it names, and an extraction has the row whose status it is.  An answered
\* upload has all three.  Whoever reads meanwhile, only the owner and the
\* privileged roles are told of a document; and read by request after request,
\* a document or its extraction is missing only if its upload was not answered.
DocumentsAreWhole ==
    /\ \A d \in Requests :
        /\ documents[d] # None => objects[d] = documents[d].sha256
        /\ extractions[d] # None =>
               /\ documents[d] # None
               /\ extractions[d] = documents[d].extraction
        /\ objects[d] # None /\ pc[d] = "done" => extractions[d] # None
    /\ \A r \in Requests : replies[r] # None =>
        LET d == replies[r].document
        IN  /\ replies[r].status = "found" =>
                   /\ documents[d] # None
                   /\ CanReadDocument(replies[r].actor, documents[d])
            /\ limit = 1 /\ replies[r].status = "notFound" =>
                   d >= r \/ objects[d] = None \/ pc[d] # "done"
=============================================================================
