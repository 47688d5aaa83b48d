------------------------- MODULE ShariahGovernance -------------------------
(***************************************************************************)
(* Shariah reviews (submitted, their checklist saved, decided) and the     *)
(* certificates that approve a contract template (registered, revoked,     *)
(* expired).                                                               *)
(***************************************************************************)
EXTENDS RequestHandling, Sequences

CONSTANTS
    Items,              \* item codes of the checklist
    Mandatory,          \* those that must be evaluated
    ReviewOutcomes,     \* the decisions reviewers choose
    Templates,          \* contract template versions
    SeededReviews,      \* the seeded reviews: "approved", "complete" or "none"
    SeededCertificates  \* the template of each seeded certificate, or None

FinalStatuses == {"approved", "rejected", "conditionalApproved"}

ASSUME ShariahAssumption ==
    /\ Mandatory \subseteq Items
    /\ ReviewOutcomes \subseteq FinalStatuses
    /\ None \notin Templates
    /\ SeededReviews \in [1..Seeded -> {"approved", "complete", "none"}]
    /\ SeededCertificates \in [1..Seeded -> Templates \union {None}]

ReviewStatuses == {"submitted", "checklistInProgress", "checklistComplete"} \union FinalStatuses

\* entries is the item codes of the stored checklist, None before the first;
\* by is the request whose reviewer decided (decided_at is set with it).
Review == [ status : ReviewStatuses, entries : (SUBSET Items) \union {None},
            by : Requests \union {None} ]

Certificate == [ template : Templates, status : {"active", "revoked"} ]

VARIABLES
    review,         \* review[r]: the row of shariah_reviews r inserted, or None
    certificate,    \* certificate[r]: likewise of shariah_certificates
    expired         \* certificates whose expires_at has passed

shariahVars == <<review, certificate, expired>>

ShariahInit ==
    /\ review = [r \in Requests |->
           IF r > Seeded THEN None
           ELSE IF SeededReviews[r] = "none" THEN None
           ELSE IF SeededReviews[r] = "approved"
           THEN [ status |-> "approved", entries |-> None, by |-> r ]
           ELSE [ status |-> "checklistComplete", entries |-> Mandatory, by |-> None ]]
    /\ certificate = [r \in Requests |->
           IF r > Seeded THEN None
           ELSE IF SeededCertificates[r] = None THEN None
           ELSE [ template |-> SeededCertificates[r], status |-> "active" ]]
    /\ expired = {}

-----------------------------------------------------------------------------
(* POST /shariah-reviews, by a coordinator                                 *)

\* The handler up to the answer of the last query about the coordinator role.
\* An organization without that role is refused without an event.
SubmitReview(r, actor, valid) ==
    /\ NextToArrive(r)
    /\ IF actor = "noRole" THEN Answer(r, "refused")
       ELSE IF actor = "notCoordinator" THEN Refuse(r, "forbidden")
       ELSE IF ~valid THEN Refuse(r, "validationError")
       ELSE Await(r, "insertReview", [ status |-> "submitted", entries |-> None, by |-> None ])
    /\ UNCHANGED shariahVars

InsertReview(r) ==
    /\ pc[r] = "insertReview"
    /\ review' = [review EXCEPT ![r] = job[r]]
    /\ Await(r, "recordAccess", None)
    /\ UNCHANGED <<certificate, expired>>

-----------------------------------------------------------------------------
(* PUT /shariah-reviews/:reviewId/checklist                                *)

\* VALID_STATES_FOR_CHECKLIST_SAVE
Editable(v) == review[v] # None /\ review[v].status \in {"submitted", "checklistInProgress"}

AllMandatoryPresent(entries) == Mandatory \subseteq entries

\* A request to complete needs the mandatory entries.
CompletionAllowed(entries, completeChecklist) ==
    completeChecklist => AllMandatoryPresent(entries)

\* The review is complete when they are there, asked for or not.
WithChecklist(row, entries) ==
    [row EXCEPT !.entries = entries,
                !.status = IF AllMandatoryPresent(entries) THEN "checklistComplete"
                           ELSE "checklistInProgress"]

ChecklistRefusal(v) ==
    IF review[v] = None THEN "notFound"
    ELSE IF ~Editable(v) THEN "validationError"
    ELSE None

\* The handler up to the answer of its findById, whose row it will write back.
EditChecklist(r, v, entries, completeChecklist) ==
    /\ NextToArrive(r)
    /\ IF ChecklistRefusal(v) # None
       THEN Refuse(r, ChecklistRefusal(v))
       ELSE Await(r, "findCoordinator",
                  [ id |-> v, row |-> WithChecklist(review[v], entries),
                    allowed |-> CompletionAllowed(entries, completeChecklist) ])
    /\ UNCHANGED shariahVars

\* An entry whose item is unknown or named twice, or that lacks the comment or
\* the evidence its item requires, is refused.
ValidateEntries(r, valid) ==
    IF valid /\ job[r].allowed
    THEN Await(r, "saveReview", [ id |-> job[r].id, row |-> job[r].row ])
    ELSE Refuse(r, "validationError")

\* The two queries about the coordinator, whose answers are another module's.
FindCoordinator(r, actor, valid) ==
    /\ pc[r] = "findCoordinator"
    /\ IF actor = "noRole" THEN Answer(r, "refused")
       ELSE IF actor = "notCoordinator" THEN Refuse(r, "forbidden")
       ELSE ValidateEntries(r, valid)
    /\ UNCHANGED shariahVars

-----------------------------------------------------------------------------
(* POST /shariah-reviews/:reviewId/decision                                *)

\* Fault: a review in progress may be decided.
ReviewDecidableEarly(v) ==
    review[v] # None /\ review[v].status \in {"checklistInProgress", "checklistComplete"}

ReviewDecidable(v) == review[v] # None /\ review[v].status = "checklistComplete"

\* The route up to the last query about the coordinator; it has looked the
\* review up only to see whether it exists.
AskForDecision(r, v, outcome, actor) ==
    /\ NextToArrive(r)
    /\ IF review[v] = None THEN Refuse(r, "notFound")
       ELSE IF actor = "noRole" THEN Answer(r, "refused")
       ELSE IF actor = "notCoordinator" THEN Refuse(r, "forbidden")
       ELSE Await(r, "findReview", [ id |-> v, outcome |-> outcome ])
    /\ UNCHANGED shariahVars

\* How the route records the service's other results.
ReviewDecisionReply ==
    [ invalidState |-> "validationError", validationError |-> "validationError" ]

\* recordShariahReviewDecision up to the answer of its own findById
DecideReview(r, valid) ==
    /\ pc[r] = "findReview"
    /\ LET v == job[r].id
       IN  IF ~valid THEN Refuse(r, ReviewDecisionReply.validationError)
           ELSE IF ~ReviewDecidable(v) THEN Refuse(r, ReviewDecisionReply.invalidState)
           ELSE Await(r, "saveReview",
                      [ id |-> v, row |-> [review[v] EXCEPT !.status = job[r].outcome, !.by = r] ])
    /\ UNCHANGED shariahVars

\* ON CONFLICT (review_id) DO UPDATE, every column
SaveReview(r) ==
    /\ pc[r] = "saveReview"
    /\ review' = [review EXCEPT ![job[r].id] = job[r].row]
    /\ Await(r, "recordAccess", None)
    /\ UNCHANGED <<certificate, expired>>

-----------------------------------------------------------------------------
(* Certificates.                                                           *)

RegisterCertificate(r, t) ==
    /\ NextToArrive(r)
    /\ Await(r, "saveCertificate",
             [ id |-> r, row |-> [ template |-> t, status |-> "active" ] ])
    /\ UNCHANGED shariahVars

\* revokeShariahCertificate up to the answer of findById
RevokeCertificate(r, c) ==
    /\ NextToArrive(r)
    /\ certificate[c] # None
    /\ certificate[c].status # "revoked"
    /\ Await(r, "saveCertificate",
             [ id |-> c, row |-> [certificate[c] EXCEPT !.status = "revoked"] ])
    /\ UNCHANGED shariahVars

SaveCertificate(r) ==
    /\ pc[r] = "saveCertificate"
    /\ certificate' = [certificate EXCEPT ![job[r].id] = job[r].row]
    /\ Answer(r, "done")
    /\ UNCHANGED <<review, expired>>

\* expires_at passes; no operation writes the status "expired".
CertificateExpires(c) ==
    /\ certificate[c] # None
    /\ c \notin expired
    /\ expired' = expired \union {c}
    /\ UNCHANGED <<handling, review, certificate>>

\* GET .../history: the reads of the review, of the roles that may view it and
\* of the viewer's assignments, and of the review again by the service.
ViewReviewHistory(r, v, allowed) ==
    /\ NextToArrive(r)
    /\ IF review[v] = None THEN Refuse(r, "notFound")
       ELSE IF ~allowed THEN Refuse(r, "forbidden")
       ELSE Await(r, "recordAccess", None)
    /\ UNCHANGED shariahVars

Actors == {"coordinator", "notCoordinator", "noRole"}

ShariahStep(r) ==
    \/ InsertReview(r)
    \/ \E actor \in Actors, valid \in BOOLEAN :
        SubmitReview(r, actor, valid) \/ FindCoordinator(r, actor, valid)
    \/ \E v \in Requests :
        \/ \E entries \in SUBSET Items, complete \in BOOLEAN :
            EditChecklist(r, v, entries, complete)
        \/ \E outcome \in ReviewOutcomes, actor \in Actors : AskForDecision(r, v, outcome, actor)
        \/ RevokeCertificate(r, v)
        \/ \E allowed \in BOOLEAN : ViewReviewHistory(r, v, allowed)
    \/ \E valid \in BOOLEAN : DecideReview(r, valid)
    \/ SaveReview(r)
    \/ \E t \in Templates : RegisterCertificate(r, t)
    \/ SaveCertificate(r)

ShariahNext ==
    \/ \E r \in Requests :
        \/ ShariahStep(r)
        \/ (RecordAccess(r) \/ RecordRefusal(r) \/ QueryFails(r)) /\ UNCHANGED shariahVars
        \/ CertificateExpires(r)
    \/ Crash /\ UNCHANGED shariahVars

ShariahSpec ==
    ShariahInit /\ HandlingInit /\ [][ShariahNext]_<<handling, shariahVars>>

-----------------------------------------------------------------------------
(* The history of a review.                                                *)

\* The status stored inside the checklist.
ChecklistStatus(v) ==
    IF AllMandatoryPresent(review[v].entries) THEN "checklistComplete" ELSE "checklistInProgress"

ChecklistHistory(v) ==
    IF review[v].entries = None THEN <<>>
    ELSE <<"checklistInProgress">>
         \o (IF ChecklistStatus(v) = "checklistComplete" THEN <<"checklistComplete">> ELSE <<>>)

\* The statuses the entries of getShariahReviewHistory lead to.
ReviewHistory(v) ==
    <<"submitted">> \o ChecklistHistory(v)
        \o (IF review[v].status \in FinalStatuses THEN <<review[v].status>> ELSE <<>>)

-----------------------------------------------------------------------------
(* Properties                                                              *)

\* Handled one at a time, a decided review is never decided again nor its
\* checklist edited: a final status is final.
ReviewDecisionStands ==
    [][limit = 1 => \A v \in Requests :
          review[v] # None /\ review[v].status \in FinalStatuses
              => review'[v] = review[v]]_<<review, limit>>

\* Whatever overlaps, a review somebody decided holds the complete checklist
\* it was decided on, and a review that is not decided names no reviewer: a
\* stale write replaces the row, and never mixes two of them.  (The seeded
\* approved review has no checklist.)
DecidedOnCompleteChecklist ==
    \A v \in Requests : review[v] # None =>
        /\ review[v].status \in FinalStatuses /\ review[v].by \notin 1..Seeded =>
               review[v].entries # None /\ AllMandatoryPresent(review[v].entries)
        /\ (review[v].status \in FinalStatuses) = (review[v].by # None)

\* The history shown of a review ends at the review's status.
ReviewHistoryEndsAtStatus ==
    \A v \in Requests : review[v] # None =>
        ReviewHistory(v)[Len(ReviewHistory(v))] = review[v].status

\* A revoked certificate is never active again, whatever overlaps.
RevocationStands ==
    [][\A c \in Requests :
          certificate[c] # None /\ certificate[c].status = "revoked"
              => certificate'[c] = certificate[c]]_certificate
=============================================================================
