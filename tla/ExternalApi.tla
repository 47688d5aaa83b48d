---------------------------- MODULE ExternalApi ----------------------------
(***************************************************************************)
(* The two interfaces other systems call: signed external requests, each   *)
(* with an idempotency key, and the export and import of ERP documents,    *)
(* with an optional one.  An external request stores its key after its     *)
(* work; an ERP request stores its key with the job, in one row, and a     *)
(* unique index on profile and key decides between two of them.            *)
(*                                                                         *)
(* The delivery routes differ in how they map the body only.  Whether the  *)
(* body can be mapped and the order accepts evidence is a choice, and so   *)
(* is the existence of an exported record.  A replay does not look at the  *)
(* body.                                                                   *)
(***************************************************************************)
EXTENDS RequestHandling

CONSTANTS
    Clients,
    DeliveryRoutes,     \* POST /external/iot/events, .../qr/proofs, .../epcis/events
    Keys                \* idempotency keys

Routes == DeliveryRoutes \union {"proofVerify"}

\* What an external_idempotency_records row is for.
ApiKey == [ client : Clients, route : Routes, key : Keys ]

\* Of the profiles, one that is only exported and one that is imported too.
ExportProfiles == {"ublOrder", "paymentStatus"}
ImportProfiles == {"ublOrder"}

ErpKey == [ profile : ExportProfiles, key : Keys \union {None} ]

\* How far the delivery evidence of a request got: its row, its lifecycle event,
\* and the row with the event.
Progress == {"saved", "recorded", "linked"}

ASSUME ExternalAssumption ==
    /\ "proofVerify" \notin DeliveryRoutes
    /\ None \notin Keys
    /\ None \notin ApiKey \union ErpKey \union Requests \union Progress

VARIABLES
    call,       \* what a request asked for, or None
    replays,    \* external_idempotency_records: the request of a key, or None
    proof,      \* the Progress of a request's delivery evidence, or None
    erpJob,     \* erp_integration_jobs: the key of the job of a request, or None
    told        \* the request whose result a 2xx answer reports, or None

externalVars == <<call, replays, proof, erpJob, told>>

ExternalInit ==
    /\ call = [r \in Requests |-> None]
    /\ replays = [k \in ApiKey |-> None]
    /\ proof = [r \in Requests |-> None]
    /\ erpJob = [r \in Requests |-> None]
    /\ told = [r \in Requests |-> None]

Arrive(r, k) ==
    /\ NextToArrive(r)
    /\ call' = [call EXCEPT ![r] = k]

Tell(r, q) ==
    /\ Answer(r, "done")
    /\ told' = [told EXCEPT ![r] = q]

-----------------------------------------------------------------------------
(* External requests                                                       *)

\* authenticateExternalRequest up to its query: a header that is missing or a
\* stale timestamp is refused before it.
ReceiveExternal(r, k) ==
    /\ Arrive(r, k)
    /\ \E step \in {"findClient", "auditRejected"} : Await(r, step, None)
    /\ UNCHANGED <<replays, proof, erpJob, told>>

\* The body of a delivery route, or the event and hash of a proof, lacks what
\* the route needs, or it becomes the evidence to submit.
MapBody(r) ==
    \/ Await(r, "auditRejected", None)
    \/ Await(r, "findReplay", None)

\* The client, its secret, signature and scope, then the body.
FindClient(r) ==
    /\ pc[r] = "findClient"
    /\ Await(r, "auditRejected", None) \/ MapBody(r)
    /\ UNCHANGED externalVars

\* Fault: the key is stored before the work it stands for.
FindReplayOrClaim(r) ==
    /\ pc[r] = "findReplay"
    /\ call[r].route # "proofVerify"
    /\ replays' = [replays EXCEPT ![call[r]] = IF @ = None THEN r ELSE @]
    /\ IF replays[call[r]] # None
       THEN Await(r, "auditAccepted", replays[call[r]])
       ELSE Await(r, "findOrder", r)
    /\ UNCHANGED <<call, proof, erpJob, told>>

\* The job of a handler is now the request its answer will report.
FindReplay(r) ==
    /\ pc[r] = "findReplay"
    /\ call[r].route # "proofVerify"
    /\ IF replays[call[r]] # None
       THEN Await(r, "auditAccepted", replays[call[r]])
       ELSE Await(r, "findOrder", r)
    /\ UNCHANGED externalVars

\* A proof to verify has no work but its key.
FindProofReplay(r) ==
    /\ pc[r] = "findReplay"
    /\ call[r].route = "proofVerify"
    /\ IF replays[call[r]] # None
       THEN Await(r, "auditAccepted", replays[call[r]])
       ELSE Await(r, "saveKey", r)
    /\ UNCHANGED externalVars

\* An order that does not exist, is not the supplier's or is not accepted.
RejectEvidence(r) == Await(r, "auditRejected", job[r])

FindOrder(r) ==
    /\ pc[r] = "findOrder"
    /\ RejectEvidence(r) \/ Await(r, "saveEvidence", job[r])
    /\ UNCHANGED externalVars

ProofStep(r, step, reached, next) ==
    /\ pc[r] = step
    /\ proof' = [proof EXCEPT ![r] = reached]
    /\ Await(r, next, job[r])
    /\ UNCHANGED <<call, replays, erpJob, told>>

\* Its three writes: the row, the lifecycle event, the row with the event.
SaveEvidence(r) == ProofStep(r, "saveEvidence", "saved", "recordEvent")
RecordEvent(r) == ProofStep(r, "recordEvent", "recorded", "linkEvidence")
LinkEvidence(r) == ProofStep(r, "linkEvidence", "linked", "saveKey")

\* ON CONFLICT DO NOTHING; the answer names this request all the same.
SaveKey(r) ==
    /\ pc[r] = "saveKey"
    /\ replays' = [replays EXCEPT ![call[r]] = IF @ = None THEN r ELSE @]
    /\ Await(r, "auditAccepted", job[r])
    /\ UNCHANGED <<call, proof, erpJob, told>>

\* auditExternalRequest, then the answer.
AuditCall(r) ==
    /\ \/ pc[r] = "auditAccepted" /\ Tell(r, job[r])
       \/ pc[r] = "auditRejected" /\ Answer(r, "refused") /\ UNCHANGED told
    /\ UNCHANGED <<call, replays, proof, erpJob>>

-----------------------------------------------------------------------------
(* ERP documents                                                           *)

\* getJobByIdempotencyKey
JobsOf(k) == {q \in Requests : erpJob[q] = k}

\* exportErpArtifact and importErpArtifact up to the answer of the first
\* lookup; without a key there is none, and an import goes on to the second.
ErpRequest(r, k, step) ==
    /\ Arrive(r, k)
    /\ IF k.key # None /\ JobsOf(k) # {}
       THEN \E q \in JobsOf(k) : Tell(r, q)
       ELSE Await(r, step, None) /\ UNCHANGED told
    /\ UNCHANGED <<replays, proof, erpJob>>

ExportErpArtifact(r, k) == ErpRequest(r, k, "findSource")

ImportErpArtifact(r, k) ==
    /\ k.profile \in ImportProfiles
    /\ ErpRequest(r, k, "findAgain")

\* The instruction, contract or order to export.
FindSource(r) ==
    /\ pc[r] = "findSource"
    /\ \/ Await(r, "findAgain", None)
       \/ Answer(r, "refused")
    /\ UNCHANGED externalVars

\* saveJob
FindAgain(r) ==
    /\ pc[r] = "findAgain"
    /\ IF call[r].key # None /\ JobsOf(call[r]) # {}
       THEN \E q \in JobsOf(call[r]) : Tell(r, q)
       ELSE Await(r, "saveJob", None) /\ UNCHANGED told
    /\ UNCHANGED <<call, replays, proof, erpJob>>

\* idx_erp_integration_jobs_idempotency
JobKeyAdmits(k) == k.key = None \/ JobsOf(k) = {}

SaveJob(r) ==
    /\ pc[r] = "saveJob"
    /\ IF JobKeyAdmits(call[r])
       THEN /\ erpJob' = [erpJob EXCEPT ![r] = call[r]]
            /\ Tell(r, r)
       ELSE /\ Answer(r, "failed")
            /\ UNCHANGED <<erpJob, told>>
    /\ UNCHANGED <<call, replays, proof>>

ExternalStep(r) ==
    \/ \E k \in ApiKey : ReceiveExternal(r, k)
    \/ FindClient(r) \/ FindReplay(r) \/ FindProofReplay(r) \/ FindOrder(r)
    \/ SaveEvidence(r) \/ RecordEvent(r) \/ LinkEvidence(r)
    \/ SaveKey(r) \/ AuditCall(r)
    \/ \E k \in ErpKey : ExportErpArtifact(r, k) \/ ImportErpArtifact(r, k)
    \/ FindSource(r) \/ FindAgain(r) \/ SaveJob(r)

ExternalNext ==
    \/ \E r \in Requests :
        \/ ExternalStep(r)
        \/ QueryFails(r) /\ UNCHANGED externalVars
    \/ Crash /\ UNCHANGED externalVars

externalState == <<handling, externalVars>>

ExternalSpec == HandlingInit /\ ExternalInit /\ [][ExternalNext]_externalState

-----------------------------------------------------------------------------
(* Properties                                                              *)

\* The result of a request to key k: evidence with its event, or a job.
HasResult(q, k) ==
    /\ call[q] = k
    /\ k \in ErpKey => erpJob[q] = k
    /\ k \in ApiKey /\ k.route # "proofVerify" => proof[q] = "linked"

\* Two requests did the work of one key.
Repeated(q, r) ==
    /\ q < r
    /\ call[q] = call[r]
    /\ proof[q] # None /\ proof[r] # None

\* A key and a 2xx answer always stand for work that is complete, of a request
\* with that very key.  An ERP key has one job whatever overlaps; an external
\* request is repeated under its key only if the two overlapped or the first
\* one failed.
KeysStandForWork ==
    /\ \A k \in ApiKey : replays[k] # None => HasResult(replays[k], k)
    /\ \A r \in Requests : told[r] # None => HasResult(told[r], call[r])
    /\ \A q, r \in Requests :
           erpJob[q] # None /\ erpJob[q] = erpJob[r] => q = r \/ erpJob[q].key = None
    /\ \A q, r \in Requests : limit = 1 /\ Repeated(q, r) => pc[q] = "failed"
=============================================================================
