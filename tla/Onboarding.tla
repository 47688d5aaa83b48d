----------------------------- MODULE Onboarding -----------------------------
(***************************************************************************)
(* KYC/AML onboarding: an organization submits a case, a reviewer decides  *)
(* it, and the case updated last is the organization's eligibility, which  *)
(* procurement, escrow and financing ask for.                              *)
(***************************************************************************)
EXTENDS RequestHandling, Sequences

CONSTANTS
    Organizations,
    SeededCases,        \* the organization of each seeded case, or None
    ReviewerOutcomes    \* the outcomes reviewers choose

DecisionOutcomes == {"pass", "fail", "flag", "block"}

ASSUME OnboardingAssumption ==
    /\ None \notin Organizations
    /\ None \notin Requests
    /\ None \notin DecisionOutcomes
    /\ SeededCases \in [1..Seeded -> Organizations \union {None}]
    /\ ReviewerOutcomes \subseteq DecisionOutcomes

StatusOf == [ pass |-> "approved", fail |-> "rejected",
              flag |-> "flagged", block |-> "blocked" ]

CaseStatuses == {"submitted", "approved", "rejected", "flagged", "blocked"}

\* updated is updated_at, as the number of readings of the clock before it;
\* by is the request whose reviewer decided.
Case == [ org : Organizations, status : CaseStatuses, updated : Nat,
          outcome : DecisionOutcomes \union {None}, by : Requests \union {None} ]

VARIABLES
    case,       \* case[r]: the row of kyc_aml_onboarding_cases r inserted, or None
    clock

onboardingVars == <<case, clock>>

OnboardingInit ==
    /\ case = [r \in Requests |->
           IF r > Seeded THEN None
           ELSE IF SeededCases[r] = None THEN None
           ELSE [ org |-> SeededCases[r], status |-> "approved", updated |-> 0,
                  outcome |-> "pass", by |-> r ]]
    /\ clock = 0

CasesOf(o) == {c \in Requests : case[c] # None /\ case[c].org = o}

OpenCases(o) == {c \in CasesOf(o) : case[c].status = "submitted"}

\* ORDER BY updated_at DESC LIMIT 1; the model's clock has no equal readings
\* but that of the seeds, which are of different organizations.
LatestCase(o) ==
    CHOOSE c \in CasesOf(o) : \A d \in CasesOf(o) : case[d].updated <= case[c].updated

Eligibility(o) ==
    IF CasesOf(o) = {} THEN "unknown"
    ELSE [ approved |-> "eligible", flagged |-> "flagged", blocked |-> "blocked",
           rejected |-> "notEligible", submitted |-> "pendingReview"
         ][case[LatestCase(o)].status]

\* checkOrganizationEligibility and canPerformProcurementAction, as wired.
MayAct(o) == Eligibility(o) = "eligible"

-----------------------------------------------------------------------------
(* POST /kyc-aml-onboarding-cases                                          *)

NewCase(o) == [ org |-> o, status |-> "submitted", updated |-> clock + 1,
                outcome |-> None, by |-> None ]

\* What the route records of each result that is not a success.
SubmissionReply == [ invalidInput |-> "validationError", conflict |-> "conflict" ]

\* The route's check of each evidence reference comes before the query, the
\* service's check for the required types after it.
SubmissionRefusal(o, evidence) ==
    IF evidence = "malformed" THEN SubmissionReply.invalidInput
    ELSE IF OpenCases(o) # {} THEN SubmissionReply.conflict
    ELSE IF evidence = "incomplete" THEN SubmissionReply.invalidInput
    ELSE None

\* The handler up to the answer of findOpenCaseByOrganizationId; the row,
\* with its timestamps, is built at once and inserted by the next query.
SubmitCase(r, o, evidence) ==
    /\ NextToArrive(r)
    /\ IF SubmissionRefusal(o, evidence) # None
       THEN Refuse(r, SubmissionRefusal(o, evidence)) /\ UNCHANGED clock
       ELSE Await(r, "insertCase", NewCase(o)) /\ clock' = clock + 1
    /\ UNCHANGED case

\* Fault: no unique index.
OpenIndexOff(o) == TRUE

\* idx_kyc_aml_onboarding_cases_open_case
OpenIndexAdmits(o) == OpenCases(o) = {}

InsertCase(r) ==
    /\ pc[r] = "insertCase"
    /\ IF OpenIndexAdmits(job[r].org)
       THEN /\ case' = [case EXCEPT ![r] = job[r]]
            /\ Await(r, "recordAccess", None)
       ELSE /\ Answer(r, "failed")
            /\ UNCHANGED case
    /\ UNCHANGED clock

-----------------------------------------------------------------------------
(* POST /kyc-aml-onboarding-cases/:caseId/decision                         *)

\* Fault: a decided case may be decided again.
DecidableAgain(c) == case[c] # None

Decidable(c) ==
    /\ case[c] # None
    /\ case[c].outcome = None
    /\ case[c].status = "submitted"

DecidedCase(r, c, outcome) ==
    [case[c] EXCEPT !.status = StatusOf[outcome], !.outcome = outcome, !.by = r,
                    !.updated = clock + 1]

DecisionReply == [ invalidInput |-> "validationError", notFound |-> "notFound",
                   conflict |-> "conflict" ]

DecisionRefusal(c, valid) ==
    IF ~valid THEN DecisionReply.invalidInput
    ELSE IF case[c] = None THEN DecisionReply.notFound
    ELSE IF ~Decidable(c) THEN DecisionReply.conflict
    ELSE None

\* The handler up to the answer of findById; valid says whether the outcome,
\* rationale and reason codes pass the service's checks.
DecideCase(r, c, outcome, valid) ==
    /\ NextToArrive(r)
    /\ IF DecisionRefusal(c, valid) # None
       THEN Refuse(r, DecisionRefusal(c, valid)) /\ UNCHANGED clock
       ELSE /\ Await(r, "saveCaseDecision", [id |-> c, row |-> DecidedCase(r, c, outcome)])
            /\ clock' = clock + 1
    /\ UNCHANGED case

\* ON CONFLICT (case_id) DO UPDATE, every column
SaveCaseDecision(r) ==
    /\ pc[r] = "saveCaseDecision"
    /\ case' = [case EXCEPT ![job[r].id] = job[r].row]
    /\ Await(r, "recordAccess", None)
    /\ UNCHANGED clock

\* GET .../eligibility/:memberOrganizationId: the handler up to the answer of
\* findLatestByOrganizationId.  Reading is recorded like a write.
CheckEligibility(r) ==
    /\ NextToArrive(r)
    /\ Await(r, "recordAccess", None)
    /\ UNCHANGED onboardingVars

OnboardingStep(r) ==
    \/ \E o \in Organizations, evidence \in {"complete", "incomplete", "malformed"} :
        SubmitCase(r, o, evidence)
    \/ InsertCase(r)
    \/ \E c \in Requests, outcome \in ReviewerOutcomes, valid \in BOOLEAN :
        DecideCase(r, c, outcome, valid)
    \/ SaveCaseDecision(r)
    \/ CheckEligibility(r)

OnboardingNext ==
    \/ \E r \in Requests :
        \/ OnboardingStep(r)
        \/ (RecordAccess(r) \/ RecordRefusal(r) \/ QueryFails(r)) /\ UNCHANGED onboardingVars
    \/ Crash /\ UNCHANGED onboardingVars

OnboardingSpec ==
    OnboardingInit /\ HandlingInit /\ [][OnboardingNext]_<<handling, onboardingVars>>

-----------------------------------------------------------------------------
(* The status history of a case.                                           *)

\* Fault: the decision is reported with the status it started from.
StaleHistory(c) ==
    IF case[c].outcome = None THEN <<"submitted">> ELSE <<"submitted", "submitted">>

\* The statuses the entries of getOnboardingStatusHistory lead to.
CaseHistory(c) ==
    IF case[c].outcome = None THEN <<"submitted">> ELSE <<"submitted", case[c].status>>

-----------------------------------------------------------------------------
(* Properties                                                              *)

\* At most one case of an organization is open, though the handler's own
\* check and its INSERT are separate statements: the partial unique index
\* decides between two submissions that both found none.
OneOpenCase == \A o \in Organizations : Cardinality(OpenCases(o)) <= 1

\* Handled one at a time, a decided case is never decided again: the status
\* and the reviewer's outcome are final.
CaseDecisionStands ==
    [][limit = 1 => \A c \in Requests :
          case[c] # None /\ case[c].outcome # None => case'[c] = case[c]]_<<case, limit>>

\* Whatever overlaps, the status history of a case ends at its status, and a
\* status other than submitted is one its recorded reviewer chose.
CaseHistoryEndsAtStatus ==
    \A c \in Requests : case[c] # None =>
        /\ CaseHistory(c)[Len(CaseHistory(c))] = case[c].status
        /\ (case[c].status = "submitted") = (case[c].by = None)

\* A stored decision is in the audit trail once its handler has answered,
\* unless a query failed or the process stopped before the event.
DecisionsAreAudited ==
    \A c \in Requests : case[c] # None /\ case[c].by # None =>
        case[c].by \in trail \/ pc[case[c].by] \in {"recordAccess", "failed"}
=============================================================================
