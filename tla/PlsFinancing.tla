---------------------------- MODULE PlsFinancing ----------------------------
(***************************************************************************)
(* Profit-and-loss-sharing contracts: activation, which asks onboarding    *)
(* for the parties' eligibility and Shariah governance for a review and a  *)
(* certificate, and distributions under an active contract.  The three     *)
(* services run together here.                                             *)
(***************************************************************************)
EXTENDS Integers, Onboarding, ShariahGovernance

CONSTANTS
    Contracts,      \* the seeded contracts
    Terms,          \* their parties, template and the financier's percentage
    Results         \* the gross results clients report, signed, in minor units

Parties == {"buyer", "supplier", "financier"}

ASSUME PlsAssumption ==
    /\ Terms \in [Contracts -> [ buyer : Organizations, supplier : Organizations,
                                 financier : Organizations, template : Templates,
                                 percent : 0..100 ]]
    /\ Results \subseteq Int
    /\ None \notin Contracts

\* Of the statuses of the type, code writes only "active".
Contract == [ status : {"approvedForActivation", "active"},
              review : Requests \union {None}, certificate : Requests \union {None} ]

Distribution == [ contract : Contracts, type : {"profit", "loss"},
                  gross : Int, financier : Int, operator : Int ]

VARIABLES
    contract,       \* contract[k]: the row of pls_contracts
    distribution    \* distribution[r]: the record r inserted, or None

ASSUME AbsenceAssumption ==
    /\ None \notin Refusals
    /\ None \notin Case /\ None \notin Review
    /\ None \notin Certificate /\ None \notin Distribution
    /\ \A entries \in SUBSET Items : entries # None

plsVars == <<contract, distribution>>
vars == <<handling, onboardingVars, shariahVars, plsVars>>

Init ==
    /\ HandlingInit
    /\ OnboardingInit
    /\ ShariahInit
    /\ contract = [k \in Contracts |->
           [ status |-> "approvedForActivation", review |-> None, certificate |-> None ]]
    /\ distribution = [r \in Requests |-> None]

-----------------------------------------------------------------------------
(* activatePlsContract                                                     *)

\* The handler up to the answer of findContractById.  A client can name only
\* identities the server has generated; one of no row blocks the activation.
ActivateContract(r, k, v, c) ==
    /\ NextToArrive(r)
    /\ review[v] # None
    /\ certificate[c] # None
    /\ Await(r, "checkBuyer", [ contract |-> k, row |-> contract[k], review |-> v,
                                certificate |-> c, late |-> {} ])
    /\ UNCHANGED plsVars

CheckParty(r, step, party, next) ==
    /\ pc[r] = step
    /\ IF MayAct(Terms[job[r].contract][party])
       THEN Await(r, next, job[r])
       ELSE Answer(r, "done")
    /\ UNCHANGED plsVars

\* Fault: any review does.
ReadAnyReview(r) ==
    /\ pc[r] = "readApproval"
    /\ IF review[job[r].review] # None
       THEN Await(r, "readCertificate", [job[r] EXCEPT !.late = expired])
       ELSE Answer(r, "done")
    /\ UNCHANGED plsVars

\* The review must be approved; now is read before the certificate, so it is
\* kept as the certificates expired by then.
ReadApproval(r) ==
    /\ pc[r] = "readApproval"
    /\ LET v == job[r].review
       IN  IF review[v] # None /\ review[v].status = "approved"
           THEN Await(r, "readCertificate", [job[r] EXCEPT !.late = expired])
           ELSE Answer(r, "done")
    /\ UNCHANGED plsVars

\* validateShariahCertificateCoverage = "covered"
Covers(c, k, late) ==
    /\ certificate[c] # None
    /\ certificate[c].status = "active"
    /\ c \notin late
    /\ certificate[c].template = Terms[k].template

ReadCertificate(r) ==
    /\ pc[r] = "readCertificate"
    /\ LET j == job[r]
       IN  IF Covers(j.certificate, j.contract, j.late)
           THEN Await(r, "saveContract", [j EXCEPT
                    !.row = [ status |-> "active", review |-> j.review,
                              certificate |-> j.certificate ]])
           ELSE Answer(r, "done")
    /\ UNCHANGED plsVars

SaveContract(r) ==
    /\ pc[r] = "saveContract"
    /\ contract' = [contract EXCEPT ![job[r].contract] = job[r].row]
    /\ Answer(r, "done")
    /\ UNCHANGED distribution

-----------------------------------------------------------------------------
(* createPlsDistribution                                                   *)

Magnitude(amount) == IF amount < 0 THEN -amount ELSE amount

\* Fault: both shares are truncated.
AllocationTruncated(type, gross, percent) ==
    LET size == Magnitude(gross)
    IN  IF type = "profit"
        THEN [ financier |-> (size * percent) \div 100,
               operator |-> (size * (100 - percent)) \div 100 ]
        ELSE [ financier |-> -size, operator |-> 0 ]

\* The shares of a reported result, whose sign counts for nothing: the
\* financier's of a profit is truncated to the minor unit and the operator has
\* the rest, neither negative; the financier bears a loss.
Allocation(type, gross, percent) ==
    LET size == Magnitude(gross)
        share == (size * percent) \div 100
    IN  IF type = "profit"
        THEN [ financier |-> share, operator |-> size - share ]
        ELSE [ financier |-> -size, operator |-> 0 ]

\* The gross result stored: a loss negative whatever the sign reported, a
\* profit with the sign reported.
StoredResult(type, gross) == IF type = "loss" THEN -Magnitude(gross) ELSE gross

\* What calculatePlsScenario shows for a profit or a loss outcome; None where
\* it refuses the outcome or the percentages.
Scenario(type, outcome, financierPercent, operatorPercent) ==
    LET share == (outcome * financierPercent) \div 100
    IN  IF outcome < 0 \/ financierPercent + operatorPercent # 100 THEN None
        ELSE IF type = "profit"
             THEN [ financier |-> share, operator |-> outcome - share ]
             ELSE [ financier |-> -outcome, operator |-> 0 ]

\* The handler up to the answer of findContractById.
Distribute(r, k, type, gross) ==
    /\ NextToArrive(r)
    /\ contract[k].status = "active"
    /\ LET shares == Allocation(type, gross, Terms[k].percent)
       IN  Await(r, "saveDistribution",
                 [ contract |-> k, type |-> type, gross |-> StoredResult(type, gross),
                   financier |-> shares.financier, operator |-> shares.operator ])
    /\ UNCHANGED plsVars

SaveDistribution(r) ==
    /\ pc[r] = "saveDistribution"
    /\ distribution' = [distribution EXCEPT ![r] = job[r]]
    /\ Answer(r, "done")
    /\ UNCHANGED contract

PlsStep(r) ==
    \/ \E k \in Contracts :
        \/ \E v, c \in Requests : ActivateContract(r, k, v, c)
        \/ \E type \in {"profit", "loss"}, gross \in Results : Distribute(r, k, type, gross)
    \/ CheckParty(r, "checkBuyer", "buyer", "checkSupplier")
    \/ CheckParty(r, "checkSupplier", "supplier", "checkFinancier")
    \/ CheckParty(r, "checkFinancier", "financier", "readApproval")
    \/ ReadApproval(r)
    \/ ReadCertificate(r)
    \/ SaveContract(r)
    \/ SaveDistribution(r)

Next ==
    \/ \E r \in Requests :
        \/ PlsStep(r) /\ UNCHANGED <<onboardingVars, shariahVars>>
        \/ OnboardingStep(r) /\ UNCHANGED <<shariahVars, plsVars>>
        \/ ShariahStep(r) /\ UNCHANGED <<onboardingVars, plsVars>>
        \/ CertificateExpires(r) /\ UNCHANGED <<onboardingVars, plsVars>>
        \/ (RecordAccess(r) \/ RecordRefusal(r) \/ QueryFails(r))
               /\ UNCHANGED <<onboardingVars, shariahVars, plsVars>>
    \/ Crash /\ UNCHANGED <<onboardingVars, shariahVars, plsVars>>

Spec == Init /\ [][Next]_vars

-----------------------------------------------------------------------------
(* Properties; those of the two services below it hold here as well.       *)

CaseDecisionJob == [ id : Requests, row : Case ]
ReviewJob == [ id : Requests, row : Review ]
CertificateJob == [ id : Requests, row : Certificate ]
ActivationJob == [ contract : Contracts, row : Contract, review : Requests,
                   certificate : Requests, late : SUBSET Requests ]

ChecklistJob == [ id : Requests, row : Review, allowed : BOOLEAN ]
ReviewRequest == [ id : Requests, outcome : ReviewOutcomes ]

\* What the handler of each request keeps while it awaits a query.
JobFor(step) ==
    IF step = "insertCase" THEN Case
    ELSE IF step = "saveCaseDecision" THEN CaseDecisionJob
    ELSE IF step = "insertReview" THEN Review
    ELSE IF step = "saveReview" THEN ReviewJob
    ELSE IF step = "findCoordinator" THEN ChecklistJob
    ELSE IF step = "findReview" THEN ReviewRequest
    ELSE IF step = "recordRefusal" THEN [ outcome : Refusals ]
    ELSE IF step = "saveCertificate" THEN CertificateJob
    ELSE IF step = "saveDistribution" THEN Distribution
    ELSE IF step \in {"checkBuyer", "checkSupplier", "checkFinancier", "readApproval",
                      "readCertificate", "saveContract"} THEN ActivationJob
    ELSE {None}

Steps == { "idle", "done", "failed", "refused", "recordAccess", "recordRefusal",
           "findCoordinator", "findReview", "insertCase",
           "saveCaseDecision", "insertReview", "saveReview", "saveCertificate", "saveDistribution",
           "checkBuyer", "checkSupplier", "checkFinancier", "readApproval",
           "readCertificate", "saveContract" }

\* The tables, the handlers' positions and what each keeps meanwhile.
TypeOK ==
    /\ limit \in 1..MaxInFlight
    /\ trail \subseteq Requests
    /\ refusals \in [Requests -> Refusals \union {None}]
    /\ clock \in Nat
    /\ pc \in [Requests -> Steps]
    /\ \A r \in Requests : job[r] \in JobFor(pc[r])
    /\ case \in [Requests -> Case \union {None}]
    /\ review \in [Requests -> Review \union {None}]
    /\ certificate \in [Requests -> Certificate \union {None}]
    /\ expired \subseteq Requests
    /\ contract \in [Contracts -> Contract]
    /\ distribution \in [Requests -> Distribution \union {None}]

\* Handled one at a time, a decision is final, whichever of the services took
\* it: a decided case or review is neither decided nor edited again, and a
\* revoked certificate, however requests overlap, is never active again.
DecisionsStand == CaseDecisionStands /\ ReviewDecisionStands /\ RevocationStands

\* Whatever overlaps, what is shown of a decision is the decision: the history
\* of a case and of a review end at its status, and the audit trail has the
\* decision unless its handler has not answered or has failed.  Of a request
\* the trail calls refused there is no decision.
DecisionsAreTold ==
    /\ CaseHistoryEndsAtStatus
    /\ ReviewHistoryEndsAtStatus
    /\ DecisionsAreAudited
    /\ \A c \in Requests :
           /\ case[c] # None /\ case[c].by # None => refusals[case[c].by] = None
           /\ review[c] # None /\ review[c].by # None => refusals[review[c].by] = None

\* A contract is activated only with a review that exists and a certificate
\* registered for its template.  Handled one at a time, moreover, only while
\* its three parties are eligible, the review is approved and the certificate
\* is active: what was read before the write still holds at the write.
ActivationIsCovered ==
    [][\A k \in Contracts : contract'[k] # contract[k] =>
          /\ review[contract'[k].review] # None
          /\ certificate[contract'[k].certificate] # None
          /\ certificate[contract'[k].certificate].template = Terms[k].template
          /\ limit = 1 =>
                 /\ \A party \in Parties : MayAct(Terms[k][party])
                 /\ review[contract'[k].review].status = "approved"
                 /\ Covers(contract'[k].certificate, k, {})]_<<plsVars, limit>>

\* The one result whose shares do not add up to it.
NegativeProfit(d) == d.type = "profit" /\ d.gross < 0

\* A stored distribution creates and loses no minor unit: its shares, signs
\* included, add up to its result, and belong to a contract that was active.
\* The financier never has more than the agreed percentage of a profit nor
\* misses a whole minor unit of it, and bears the whole of a loss; the
\* simulator, which computes on its own, shows the same shares for the same
\* result.  The exception is a profit reported negative, which the simulator
\* refuses and the handler accepts: it is stored negative beside the shares of
\* the profit of its size, so its shares add up to the opposite of its result.
DistributionConserves ==
    \A r \in Requests : distribution[r] # None =>
        LET d == distribution[r]
            percent == Terms[d.contract].percent
            agreed == Magnitude(d.gross) * percent
            shown == Scenario(d.type, Magnitude(d.gross), percent, 100 - percent)
        IN  /\ contract[d.contract].status = "active"
            /\ IF NegativeProfit(d)
               THEN d.financier + d.operator = -d.gross
               ELSE d.financier + d.operator = d.gross
            /\ IF d.type = "profit"
               THEN 100 * d.financier <= agreed /\ agreed < 100 * (d.financier + 1)
               ELSE d.operator = 0 /\ d.gross <= 0
            /\ shown.financier = d.financier /\ shown.operator = d.operator
=============================================================================
