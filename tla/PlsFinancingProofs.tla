------------------------- MODULE PlsFinancingProofs -------------------------
(***************************************************************************)
(* Proofs about PlsFinancing, the composition of onboarding, Shariah       *)
(* governance and financing, for any number of requests, organizations,    *)
(* reviews, certificates, contracts and amounts.                           *)
(***************************************************************************)
EXTENDS PlsFinancing, FiniteSetTheorems, TLAPS

-----------------------------------------------------------------------------
(* Shares of a result.                                                     *)

\* What a distribution of an amount must satisfy.
Conserves(d) ==
    LET percent == Terms[d.contract].percent
        agreed == Magnitude(d.gross) * percent
        shown == Scenario(d.type, Magnitude(d.gross), percent, 100 - percent)
    IN  /\ IF NegativeProfit(d)
           THEN d.financier + d.operator = -d.gross
           ELSE d.financier + d.operator = d.gross
        /\ IF d.type = "profit"
           THEN 100 * d.financier <= agreed /\ agreed < 100 * (d.financier + 1)
           ELSE d.operator = 0 /\ d.gross <= 0
        /\ shown.financier = d.financier /\ shown.operator = d.operator

LEMMA Truncation ==
    ASSUME NEW x \in Nat
    PROVE  /\ x \div 100 \in Nat
           /\ 100 * (x \div 100) <= x
           /\ x < 100 * (x \div 100 + 1)
OBVIOUS

LEMMA ShareIsPart ==
    ASSUME NEW gross \in Nat, NEW percent \in 0..100
    PROVE  /\ gross * percent \in Nat
           /\ gross * percent <= 100 * gross
           /\ (gross * percent) \div 100 \in 0..gross
<1>1. gross * percent \in Nat
    OBVIOUS
<1>2. gross * percent <= 100 * gross
    OBVIOUS
<1> DEFINE x == gross * percent
           share == x \div 100
<1>3. x \in Nat /\ x <= 100 * gross
    BY <1>1, <1>2
<1> HIDE DEF x
<1>4. share \in Nat /\ 100 * share <= x
    BY <1>3, Truncation
<1> HIDE DEF share
<1>5. share <= gross
    BY <1>3, <1>4
<1> QED BY <1>1, <1>2, <1>4, <1>5 DEF x, share

-----------------------------------------------------------------------------
(* The invariant.                                                          *)

CaseFits(row) ==
    /\ (row.status = "submitted") = (row.by = None)
    /\ (row.outcome = None) = (row.by = None)

ReviewFits(row) ==
    /\ (row.status \in FinalStatuses) = (row.by # None)
    /\ row.status \notin FinalStatuses =>
           row.status = IF row.entries = None THEN "submitted"
                        ELSE IF AllMandatoryPresent(row.entries) THEN "checklistComplete"
                        ELSE "checklistInProgress"
    /\ row.status \in FinalStatuses /\ row.by \notin 1..Seeded =>
           row.entries # None /\ AllMandatoryPresent(row.entries)

\* A request that has written its decision and will audit it before it answers.
Wrote(r) ==
    /\ pc[r] \in {"recordAccess", "done", "failed"}
    /\ pc[r] = "done" => r \in trail

CasesFit ==
    /\ \A c \in Requests : case[c] # None =>
           CaseFits(case[c]) /\ (case[c].by # None => Wrote(case[c].by))
    /\ \A c, d \in Requests :
           /\ case[c] # None /\ case[c].status = "submitted"
           /\ case[d] # None /\ case[d].status = "submitted"
           /\ case[c].org = case[d].org
           => c = d

ReviewsFit ==
    \A v \in Requests : review[v] # None =>
        ReviewFits(review[v]) /\ (review[v].by # None => Wrote(review[v].by))

DistributionsFit ==
    \A d \in Requests : distribution[d] # None =>
        contract[distribution[d].contract].status = "active" /\ Conserves(distribution[d])

RowsFit == CasesFit /\ ReviewsFit /\ DistributionsFit

CaseJobFits(r) ==
    /\ pc[r] = "insertCase" =>
           /\ case[r] = None
           /\ job[r].status = "submitted" /\ job[r].outcome = None /\ job[r].by = None
    /\ pc[r] = "saveCaseDecision" =>
           /\ case[job[r].id] # None
           /\ case[job[r].id].org = job[r].row.org
           /\ job[r].row.status # "submitted"
           /\ job[r].row.outcome # None
           /\ job[r].row.by = r

ReviewJobFits(r) ==
    /\ pc[r] = "insertReview" =>
           /\ review[r] = None
           /\ job[r].status = "submitted" /\ job[r].entries = None /\ job[r].by = None
    /\ pc[r] \in {"findCoordinator", "saveReview"} =>
           /\ review[job[r].id] # None
           /\ ReviewFits(job[r].row)
           /\ job[r].row.by \in IF pc[r] = "saveReview" THEN {None, r} ELSE {None}
    /\ pc[r] = "findReview" => review[job[r].id] # None

CertificateJobFits(r) ==
    pc[r] = "saveCertificate" =>
        \/ job[r].id = r /\ certificate[r] = None /\ job[r].row.status = "active"
        \/ /\ certificate[job[r].id] # None
           /\ job[r].row.template = certificate[job[r].id].template
           /\ job[r].row.status = "revoked"

ActivationSteps == {"checkBuyer", "checkSupplier", "checkFinancier", "readApproval",
                    "readCertificate", "saveContract"}

ContractJobFits(r) ==
    /\ pc[r] \in ActivationSteps =>
           review[job[r].review] # None /\ certificate[job[r].certificate] # None
    /\ pc[r] = "saveContract" =>
           /\ job[r].row = [ status |-> "active", review |-> job[r].review,
                             certificate |-> job[r].certificate ]
           /\ certificate[job[r].certificate].template = Terms[job[r].contract].template
    /\ pc[r] = "saveDistribution" =>
           contract[job[r].contract].status = "active" /\ Conserves(job[r])

RequestFits(r) ==
    /\ pc[r] = "idle" => case[r] = None /\ review[r] = None /\ certificate[r] = None
    /\ r \in trail => pc[r] = "done"
    /\ refusals[r] # None => pc[r] = "refused"
    /\ CaseJobFits(r)
    /\ ReviewJobFits(r)
    /\ CertificateJobFits(r)
    /\ ContractJobFits(r)

\* Handled one at a time, a request finds at each of its queries what it found
\* at the ones before.
SerialFits(r) ==
    limit = 1 =>
        /\ pc[r] = "saveCaseDecision" => case[job[r].id].outcome = None
        /\ pc[r] \in {"findCoordinator", "saveReview"} =>
               review[job[r].id].status \notin FinalStatuses
        /\ pc[r] \in ActivationSteps \ {"checkBuyer"} =>
               MayAct(Terms[job[r].contract].buyer)
        /\ pc[r] \in ActivationSteps \ {"checkBuyer", "checkSupplier"} =>
               MayAct(Terms[job[r].contract].supplier)
        /\ pc[r] \in {"readApproval", "readCertificate", "saveContract"} =>
               MayAct(Terms[job[r].contract].financier)
        /\ pc[r] \in {"readCertificate", "saveContract"} =>
               review[job[r].review].status = "approved"
        /\ pc[r] = "saveContract" => Covers(job[r].certificate, job[r].contract, {})

Alone == limit = 1 => \A q, r \in Requests : InFlight(q) /\ InFlight(r) => q = r

IInv ==
    /\ TypeOK
    /\ job = [r \in Requests |-> job[r]]
    /\ RowsFit
    /\ \A r \in Requests : RequestFits(r) /\ SerialFits(r)
    /\ Alone

-----------------------------------------------------------------------------
(* What a step by one request leaves alone.                                *)

LEMMA JobTypes ==
    ASSUME TypeOK, NEW r \in Requests
    PROVE  /\ pc[r] \in Steps
           /\ pc[r] = "insertCase" => job[r] \in Case
           /\ pc[r] = "saveCaseDecision" => job[r] \in CaseDecisionJob
           /\ pc[r] = "insertReview" => job[r] \in Review
           /\ pc[r] = "saveReview" => job[r] \in ReviewJob
           /\ pc[r] = "findCoordinator" => job[r] \in ChecklistJob
           /\ pc[r] = "findReview" => job[r] \in ReviewRequest
           /\ pc[r] = "recordRefusal" => job[r] \in [ outcome : Refusals ]
           /\ pc[r] = "saveCertificate" => job[r] \in CertificateJob
           /\ pc[r] = "saveDistribution" => job[r] \in Distribution
           /\ pc[r] \in ActivationSteps => job[r] \in ActivationJob
BY DEF TypeOK, JobFor, ActivationSteps

TablesTyped ==
    /\ clock \in Nat
    /\ case \in [Requests -> Case \union {None}]
    /\ review \in [Requests -> Review \union {None}]
    /\ certificate \in [Requests -> Certificate \union {None}]
    /\ expired \subseteq Requests
    /\ contract \in [Contracts -> Contract]
    /\ distribution \in [Requests -> Distribution \union {None}]

tables == <<case, review, certificate, expired, contract, distribution>>

\* Rows are inserted by r only, and none goes back on what others rely on.
TablesGrow(r) ==
    /\ \A c \in Requests :
        /\ case[c] # None => case'[c] # None /\ case'[c].org = case[c].org
        /\ review[c] # None => review'[c] # None
        /\ certificate[c] # None =>
               certificate'[c] # None /\ certificate'[c].template = certificate[c].template
        /\ c # r => /\ case[c] = None => case'[c] = None
                    /\ review[c] = None => review'[c] = None
                    /\ certificate[c] = None => certificate'[c] = None
    /\ \A k \in Contracts : contract[k].status = "active" => contract'[k].status = "active"

OthersRest(r) ==
    \A q \in Requests \ {r} :
        /\ pc'[q] = pc[q] /\ job'[q] = job[q]
        /\ (q \in trail') = (q \in trail) /\ refusals'[q] = refusals[q]

LEMMA OthersFit ==
    ASSUME IInv, NEW r \in Requests, TablesGrow(r), OthersRest(r), NEW q \in Requests \ {r}
    PROVE  RequestFits(q)'
<1>1. pc'[q] = pc[q] /\ job'[q] = job[q] /\ (q \in trail') = (q \in trail)
      /\ refusals'[q] = refusals[q] /\ RequestFits(q) /\ TypeOK
    BY DEF OthersRest, IInv
<1>2. CaseJobFits(q)'
    BY <1>1, JobTypes DEF RequestFits, CaseJobFits, TablesGrow, CaseDecisionJob
<1>3. ReviewJobFits(q)'
    BY <1>1, JobTypes DEF RequestFits, ReviewJobFits, TablesGrow, ReviewJob, ChecklistJob,
                          ReviewRequest, ReviewFits, AllMandatoryPresent
<1>4. CertificateJobFits(q)'
    BY <1>1, JobTypes DEF RequestFits, CertificateJobFits, TablesGrow, CertificateJob
<1>5. ContractJobFits(q)'
  <2>1. pc[q] \in ActivationSteps =>
            job[q].review \in Requests /\ job[q].certificate \in Requests
      BY <1>1, JobTypes DEF ActivationJob
  <2>2. pc[q] = "saveDistribution" => job[q].contract \in Contracts
      BY <1>1, JobTypes DEF Distribution
  <2>3. pc[q] = "saveDistribution" => Conserves(job[q])'
      BY <1>1 DEF RequestFits, ContractJobFits, Conserves, Scenario, Magnitude, NegativeProfit
  <2> QED BY <1>1, <2>1, <2>2, <2>3 DEF RequestFits, ContractJobFits, TablesGrow, ActivationSteps
<1> QED BY <1>1, <1>2, <1>3, <1>4, <1>5 DEF RequestFits, TablesGrow

LEMMA SerialAlone ==
    ASSUME IInv, NEW r \in Requests, InFlight(r) \/ NextToArrive(r), limit = 1
    PROVE  \A q \in Requests \ {r} : ~InFlight(q)
<1>1. CASE InFlight(r)
    BY <1>1 DEF IInv, Alone
<1>2. CASE NextToArrive(r)
  <2> DEFINE S == {q \in Requests : InFlight(q)}
  <2>1. IsFiniteSet(S)
    <3>1. IsFiniteSet(Requests)
        BY HandlingAssumption, FS_Interval DEF Requests
    <3> QED BY <3>1, FS_Subset
  <2>2. Cardinality(S) \in Nat /\ Cardinality(S) < 1
      BY <1>2, <2>1, FS_CardinalityType DEF NextToArrive
  <2>3. S = {}
      BY <2>1, <2>2, FS_EmptySet
  <2> QED BY <2>3
<1> QED BY <1>1, <1>2

LEMMA SplitTypes ==
    TypeOK <=>
        /\ limit \in 1..MaxInFlight
        /\ trail \subseteq Requests
        /\ refusals \in [Requests -> Refusals \union {None}]
        /\ pc \in [Requests -> Steps]
        /\ \A r \in Requests : job[r] \in JobFor(pc[r])
        /\ TablesTyped
BY DEF TypeOK, TablesTyped

\* One request moves on, and its own facts are all there is to show.
LEMMA StepOf ==
    ASSUME IInv, NEW r \in Requests, NEW step \in Steps, NEW j \in JobFor(step),
           InFlight(r) \/ NextToArrive(r),
           pc' = [pc EXCEPT ![r] = step], job' = [job EXCEPT ![r] = j], limit' = limit,
           trail' \subseteq Requests, refusals' \in [Requests -> Refusals \union {None}],
           \A q \in Requests \ {r} : (q \in trail') = (q \in trail) /\ refusals'[q] = refusals[q],
           TablesTyped', TablesGrow(r),
           RowsFit', RequestFits(r)', SerialFits(r)'
    PROVE  IInv'
<1>1. TypeOK' /\ job' = [q \in Requests |-> job'[q]]
  <2>1. TypeOK /\ job = [q \in Requests |-> job[q]]
      BY DEF IInv
  <2>2. pc' \in [Requests -> Steps] /\ limit' \in 1..MaxInFlight
      BY <2>1, SplitTypes
  <2>3. ASSUME NEW q \in Requests PROVE job'[q] \in JobFor(pc'[q])
    <3>1. CASE q = r
        BY <2>1, <3>1, SplitTypes
    <3>2. CASE q # r
      <4>1. job'[q] = job[q] /\ pc'[q] = pc[q] /\ job[q] \in JobFor(pc[q])
          BY <2>1, <3>2, SplitTypes
      <4> QED BY <4>1
    <3> QED BY <3>1, <3>2
  <2>4. (\A q \in Requests : job[q] \in JobFor(pc[q]))'
      BY <2>3 DEF JobFor
  <2>5. job' = [q \in Requests |-> job'[q]]
      BY <2>1
  <2> QED BY <2>2, <2>4, <2>5, SplitTypes DEF TypeOK, TablesTyped
<1>2. OthersRest(r)
    BY DEF OthersRest, IInv, TypeOK
<1>3. \A q \in Requests \ {r} : RequestFits(q)'
    BY <1>2, OthersFit
<1>4. limit' = 1 => \A q \in Requests \ {r} : ~InFlight(q)'
    BY <1>2, SerialAlone DEF OthersRest, InFlight
<1>5. \A q \in Requests \ {r} : SerialFits(q)'
    BY <1>4 DEF SerialFits, InFlight, ActivationSteps
<1>6. Alone'
    BY <1>4 DEF Alone
<1> QED BY <1>1, <1>3, <1>5, <1>6 DEF IInv

\* A step that writes no row.
Quiet(r, step, j) ==
    /\ InFlight(r) \/ NextToArrive(r)
    /\ pc' = [pc EXCEPT ![r] = step]
    /\ job' = [job EXCEPT ![r] = j]
    /\ UNCHANGED <<limit, trail, refusals, tables>>
    /\ clock' \in Nat

LEMMA RowsStay ==
    ASSUME IInv, \A q \in Requests : Wrote(q) => Wrote(q)'
    PROVE  /\ case' = case => CasesFit'
           /\ review' = review => ReviewsFit'
           /\ UNCHANGED <<contract, distribution>> => DistributionsFit'
<1>1. ASSUME case' = case PROVE CasesFit'
  <2>1. \A c \in Requests : case[c] # None => case[c] \in Case
      BY DEF IInv, TypeOK
  <2> QED BY <1>1, <2>1 DEF IInv, RowsFit, CasesFit, Case, CaseFits
<1>2. ASSUME review' = review PROVE ReviewsFit'
  <2>1. \A v \in Requests : review[v] # None => review[v] \in Review
      BY DEF IInv, TypeOK
  <2> QED BY <1>2, <2>1 DEF IInv, RowsFit, ReviewsFit, Review, ReviewFits, AllMandatoryPresent
<1>3. ASSUME UNCHANGED <<contract, distribution>> PROVE DistributionsFit'
    BY <1>3 DEF IInv, RowsFit, DistributionsFit, Conserves, Scenario, Magnitude, NegativeProfit
<1> QED BY <1>1, <1>2, <1>3

LEMMA SameRows ==
    ASSUME IInv, NEW r \in Requests, NEW step \in Steps, UNCHANGED tables,
           pc' = [pc EXCEPT ![r] = step], pc[r] \notin {"done", "failed"},
           trail \subseteq trail',
           pc[r] = "recordAccess" => step = "failed" \/ (step = "done" /\ r \in trail')
    PROVE  RowsFit'
<1>1. \A q \in Requests : Wrote(q) => Wrote(q)'
    BY DEF Wrote, IInv, TypeOK
<1> QED BY <1>1, RowsStay DEF RowsFit, tables

LEMMA TablesStay ==
    ASSUME IInv, NEW r \in Requests, UNCHANGED tables, clock' \in Nat
    PROVE  TablesTyped' /\ TablesGrow(r)
BY SplitTypes DEF IInv, TablesTyped, TablesGrow, tables

LEMMA QuietStep ==
    ASSUME IInv, NEW r \in Requests, NEW step \in Steps, NEW j \in JobFor(step),
           Quiet(r, step, j), pc[r] = "recordAccess" => step = "failed",
           RequestFits(r)', SerialFits(r)'
    PROVE  IInv'
<1>1. pc[r] \notin {"done", "failed"}
    BY DEF Quiet, InFlight, NextToArrive
<1>2. RowsFit'
    BY <1>1, SameRows DEF Quiet
<1>3. TablesTyped' /\ TablesGrow(r)
    BY TablesStay DEF Quiet
<1>4. trail' \subseteq Requests /\ refusals' \in [Requests -> Refusals \union {None}]
    BY DEF Quiet, IInv, TypeOK
<1> QED BY <1>2, <1>3, <1>4, StepOf DEF Quiet

\* An answer, or the request for an event.
Endings == {"done", "refused", "failed", "recordAccess", "recordRefusal"}

LEMMA RestsFit ==
    ASSUME IInv, NEW r \in Requests, NEW step \in Endings, pc' = [pc EXCEPT ![r] = step],
           r \in trail' => step = "done", refusals'[r] # None => step = "refused"
    PROVE  RequestFits(r)' /\ SerialFits(r)'
<1>1. pc'[r] = step
    BY DEF IInv, TypeOK
<1> QED BY <1>1 DEF RequestFits, CaseJobFits, ReviewJobFits, CertificateJobFits, ContractJobFits,
                    SerialFits, ActivationSteps, Endings

LEMMA EndStep ==
    ASSUME IInv, NEW r \in Requests, NEW step \in Endings, NEW j, Quiet(r, step, j),
           pc[r] = "recordAccess" => step = "failed",
           j \in IF step = "recordRefusal" THEN [ outcome : Refusals ] ELSE {None}
    PROVE  IInv'
<1>1. r \notin trail /\ refusals[r] = None
    BY DEF IInv, RequestFits, Quiet, InFlight, NextToArrive
<1>2. RequestFits(r)' /\ SerialFits(r)'
    BY <1>1, RestsFit DEF Quiet
<1>3. step \in Steps /\ j \in JobFor(step)
    BY DEF Endings, Steps, JobFor
<1> QED BY <1>2, <1>3, QuietStep

LEMMA AnswerKeeps ==
    ASSUME IInv, NEW r \in Requests, NEW how \in {"done", "refused", "failed"},
           InFlight(r) \/ NextToArrive(r), pc[r] = "recordAccess" => how = "failed",
           Answer(r, how), UNCHANGED tables, clock' \in Nat
    PROVE  IInv'
<1>1. Quiet(r, how, None)
    BY DEF Answer, Quiet
<1> QED BY <1>1, EndStep DEF Endings

LEMMA RefuseKeeps ==
    ASSUME IInv, NEW r \in Requests, NEW outcome \in Refusals,
           InFlight(r) \/ NextToArrive(r), pc[r] # "recordAccess",
           Refuse(r, outcome), UNCHANGED tables, clock' \in Nat
    PROVE  IInv'
<1>1. Quiet(r, "recordRefusal", [ outcome |-> outcome ])
    BY DEF Refuse, Await, Quiet
<1> QED BY <1>1, EndStep DEF Endings

LEMMA RecordKeeps ==
    ASSUME IInv, NEW r \in Requests, RecordAccess(r) \/ RecordRefusal(r),
           UNCHANGED <<onboardingVars, shariahVars, plsVars>>
    PROVE  IInv'
<1>1. UNCHANGED tables /\ clock' = clock /\ InFlight(r)
    BY DEF tables, onboardingVars, shariahVars, plsVars, RecordAccess, RecordRefusal, InFlight
<1>2. TablesTyped' /\ TablesGrow(r)
    BY <1>1, TablesStay DEF IInv, TypeOK
<1>3. r \notin trail /\ refusals[r] = None
    BY <1>1 DEF IInv, RequestFits, InFlight
<1>4. CASE RecordAccess(r)
  <2>1. /\ pc[r] = "recordAccess" /\ trail' = trail \union {r} /\ refusals' = refusals
        /\ pc' = [pc EXCEPT ![r] = "done"] /\ job' = [job EXCEPT ![r] = None]
        /\ limit' = limit
      BY <1>4 DEF RecordAccess
  <2>2. RowsFit'
      BY <1>1, <2>1, SameRows DEF Steps
  <2>3. RequestFits(r)' /\ SerialFits(r)'
      BY <1>3, <2>1, RestsFit DEF Endings
  <2>4. /\ trail' \subseteq Requests /\ refusals' \in [Requests -> Refusals \union {None}]
        /\ \A q \in Requests \ {r} :
               (q \in trail') = (q \in trail) /\ refusals'[q] = refusals[q]
      BY <2>1 DEF IInv, TypeOK
  <2>5. None \in JobFor("done") /\ "done" \in Steps
      BY DEF JobFor, Steps
  <2> QED BY <1>1, <1>2, <2>1, <2>2, <2>3, <2>4, <2>5, StepOf
<1>5. CASE RecordRefusal(r)
  <2>1. /\ pc[r] = "recordRefusal" /\ trail' = trail
        /\ refusals' = [refusals EXCEPT ![r] = job[r].outcome]
        /\ pc' = [pc EXCEPT ![r] = "refused"] /\ job' = [job EXCEPT ![r] = None]
        /\ limit' = limit
      BY <1>5 DEF RecordRefusal
  <2>2. RowsFit'
      BY <1>1, <2>1, SameRows DEF Steps
  <2>3. RequestFits(r)' /\ SerialFits(r)'
      BY <1>3, <2>1, RestsFit DEF Endings
  <2>4. job[r].outcome \in Refusals
      BY <2>1, JobTypes DEF IInv
  <2>5. /\ trail' \subseteq Requests /\ refusals' \in [Requests -> Refusals \union {None}]
        /\ \A q \in Requests \ {r} : refusals'[q] = refusals[q]
      BY <2>1, <2>4 DEF IInv, TypeOK
  <2>6. None \in JobFor("refused") /\ "refused" \in Steps
      BY DEF JobFor, Steps
  <2> QED BY <1>1, <1>2, <2>1, <2>2, <2>3, <2>5, <2>6, StepOf
<1> QED BY <1>4, <1>5

LEMMA QueryFailsKeeps ==
    ASSUME IInv, NEW r \in Requests, QueryFails(r),
           UNCHANGED <<onboardingVars, shariahVars, plsVars>>
    PROVE  IInv'
BY AnswerKeeps DEF QueryFails, tables, onboardingVars, shariahVars, plsVars, IInv, TypeOK

LEMMA CrashKeeps ==
    ASSUME IInv, Crash, UNCHANGED <<onboardingVars, shariahVars, plsVars>>
    PROVE  IInv'
<1>1. /\ pc' = [q \in Requests |-> IF InFlight(q) THEN "failed" ELSE pc[q]]
      /\ job' = [q \in Requests |-> None]
      /\ UNCHANGED <<limit, trail, refusals, tables, clock>>
    BY DEF Crash, tables, onboardingVars, shariahVars, plsVars
<1>2. TypeOK'
  <2>1. pc' \in [Requests -> Steps]
      BY <1>1 DEF IInv, TypeOK, Steps, InFlight
  <2>2. \A q \in Requests : pc'[q] \in {"idle", "done", "refused", "failed"}
      BY <1>1 DEF InFlight
  <2>3. (\A q \in Requests : job[q] \in JobFor(pc[q]))'
      BY <1>1, <2>2 DEF JobFor
  <2> QED BY <1>1, <2>1, <2>3 DEF IInv, TypeOK, tables
<1>3. \A q \in Requests : Wrote(q) => Wrote(q)'
    BY <1>1 DEF Wrote, InFlight
<1>4. RowsFit'
    BY <1>1, <1>3, RowsStay DEF RowsFit, tables
<1>5. ASSUME NEW q \in Requests PROVE RequestFits(q)' /\ SerialFits(q)'
  <2>1. /\ pc'[q] \in {"idle", "done", "refused", "failed"}
        /\ pc[q] \in {"idle", "done", "refused"} => pc'[q] = pc[q]
        /\ pc'[q] = "idle" => pc[q] = "idle"
        /\ RequestFits(q)
      BY <1>1 DEF IInv, InFlight
  <2>2. RequestFits(q)'
      BY <1>1, <2>1 DEF RequestFits, CaseJobFits, ReviewJobFits, CertificateJobFits,
                        ContractJobFits, ActivationSteps, tables
  <2>3. SerialFits(q)'
      BY <2>1 DEF SerialFits, ActivationSteps
  <2> QED BY <2>2, <2>3
<1>6. Alone'
    BY <1>1 DEF Alone, InFlight
<1>7. (job = [q \in Requests |-> job[q]])'
    BY <1>1
<1> QED BY <1>2, <1>4, <1>5, <1>6, <1>7 DEF IInv

-----------------------------------------------------------------------------
(* Onboarding.                                                             *)

othersThanCases == <<shariahVars, plsVars>>

LEMMA SubmitCaseKeeps ==
    ASSUME IInv, NEW r \in Requests, NEW o \in Organizations, NEW evidence,
           SubmitCase(r, o, evidence), UNCHANGED othersThanCases
    PROVE  IInv'
<1>1. NextToArrive(r) /\ pc[r] = "idle" /\ UNCHANGED tables /\ clock \in Nat
    BY DEF SubmitCase, NextToArrive, othersThanCases, shariahVars, plsVars, tables, IInv, TypeOK
<1>2. CASE SubmissionRefusal(o, evidence) # None
  <2>1. SubmissionRefusal(o, evidence) \in Refusals
      BY <1>2 DEF SubmissionRefusal, SubmissionReply, Refusals
  <2> QED BY <1>1, <1>2, <2>1, RefuseKeeps DEF SubmitCase
<1>3. CASE SubmissionRefusal(o, evidence) = None
  <2>1. Quiet(r, "insertCase", NewCase(o))
      BY <1>1, <1>3 DEF SubmitCase, Await, Quiet
  <2>2. NewCase(o) \in Case
      BY <1>1 DEF NewCase, Case, CaseStatuses
  <2>3. /\ NewCase(o).status = "submitted" /\ NewCase(o).outcome = None /\ NewCase(o).by = None
      BY DEF NewCase
  <2> HIDE DEF NewCase
  <2>4. pc'[r] = "insertCase" /\ job'[r] = NewCase(o)
      BY <2>1 DEF Quiet, IInv, TypeOK
  <2>5. case[r] = None /\ review[r] = None /\ r \notin trail /\ refusals[r] = None
      BY <1>1 DEF IInv, RequestFits
  <2>6. RequestFits(r)' /\ SerialFits(r)'
      BY <1>1, <2>1, <2>3, <2>4, <2>5 DEF Quiet, RequestFits, CaseJobFits, ReviewJobFits,
         CertificateJobFits, ContractJobFits, SerialFits, ActivationSteps, tables
  <2> QED BY <1>1, <2>1, <2>2, <2>6, QuietStep DEF Steps, JobFor
<1> QED BY <1>2, <1>3

LEMMA DecidedRow ==
    ASSUME NEW c \in Requests, case[c] \in Case, NEW r \in Requests, clock \in Nat,
           NEW outcome \in DecisionOutcomes
    PROVE  LET row == DecidedCase(r, c, outcome)
           IN  /\ row \in Case /\ row.org = case[c].org
               /\ row.status = StatusOf[outcome] /\ row.status # "submitted"
               /\ row.outcome = outcome /\ row.by = r
<1>1. StatusOf[outcome] \in CaseStatuses /\ StatusOf[outcome] # "submitted"
  <2>1. outcome \in {"pass", "fail", "flag", "block"}
      BY DEF DecisionOutcomes
  <2> QED BY <2>1 DEF StatusOf, CaseStatuses
<1>2. DecidedCase(r, c, outcome) \in Case
  <2>1. StatusOf[outcome] \in CaseStatuses /\ clock + 1 \in Nat
      BY <1>1
  <2> QED BY <2>1 DEF DecidedCase, Case
<1>3. /\ DecidedCase(r, c, outcome).org = case[c].org
      /\ DecidedCase(r, c, outcome).status = StatusOf[outcome]
      /\ DecidedCase(r, c, outcome).outcome = outcome
      /\ DecidedCase(r, c, outcome).by = r
    BY DEF DecidedCase, Case
<1> QED BY <1>1, <1>2, <1>3

LEMMA DecideCaseKeeps ==
    ASSUME IInv, NEW r \in Requests, NEW c \in Requests, NEW outcome \in ReviewerOutcomes,
           NEW valid \in BOOLEAN, DecideCase(r, c, outcome, valid), UNCHANGED othersThanCases
    PROVE  IInv'
<1>1. NextToArrive(r) /\ pc[r] = "idle" /\ UNCHANGED tables /\ clock \in Nat
    BY DEF DecideCase, NextToArrive, othersThanCases, shariahVars, plsVars, tables, IInv, TypeOK
<1>2. CASE DecisionRefusal(c, valid) # None
  <2>1. DecisionRefusal(c, valid) \in Refusals
      BY <1>2 DEF DecisionRefusal, DecisionReply, Refusals
  <2> QED BY <1>1, <1>2, <2>1, RefuseKeeps DEF DecideCase
<1>3. CASE DecisionRefusal(c, valid) = None
  <2> DEFINE row == DecidedCase(r, c, outcome)
             j == [ id |-> c, row |-> row ]
  <2>1. Quiet(r, "saveCaseDecision", j)
      BY <1>1, <1>3 DEF DecideCase, Await, Quiet
  <2>2. case[c] # None /\ case[c].outcome = None /\ case[c] \in Case
      BY <1>3, AbsenceAssumption
      DEF DecisionRefusal, DecisionReply, Refusals, Decidable, IInv, TypeOK
  <2>3. outcome \in DecisionOutcomes /\ outcome # None
        /\ StatusOf[outcome] \in CaseStatuses /\ StatusOf[outcome] # "submitted"
      BY OnboardingAssumption DEF DecisionOutcomes, StatusOf, CaseStatuses
  <2>4. row \in Case /\ row.org = case[c].org /\ row.status # "submitted"
        /\ row.outcome # None /\ row.by = r
      BY <1>1, <2>2, <2>3, DecidedRow
  <2> HIDE DEF row
  <2>5. j \in CaseDecisionJob /\ j.id = c /\ j.row = row
      BY <2>4 DEF CaseDecisionJob
  <2> HIDE DEF j
  <2>6. pc'[r] = "saveCaseDecision" /\ job'[r] = j
      BY <2>1 DEF Quiet, IInv, TypeOK
  <2>7. r \notin trail /\ refusals[r] = None
      BY <1>1 DEF IInv, RequestFits
  <2>8. RequestFits(r)' /\ SerialFits(r)'
      BY <1>1, <2>1, <2>2, <2>4, <2>5, <2>6, <2>7 DEF Quiet, RequestFits, CaseJobFits,
         ReviewJobFits, CertificateJobFits, ContractJobFits, SerialFits, ActivationSteps, tables
  <2> QED BY <1>1, <2>1, <2>5, <2>8, QuietStep DEF Steps, JobFor
<1> QED BY <1>2, <1>3

LEMMA CheckEligibilityKeeps ==
    ASSUME IInv, NEW r \in Requests, CheckEligibility(r), UNCHANGED othersThanCases
    PROVE  IInv'
<1>1. Quiet(r, "recordAccess", None) /\ pc[r] = "idle"
    BY DEF CheckEligibility, NextToArrive, Await, Quiet, othersThanCases, onboardingVars,
           shariahVars, plsVars, tables, IInv, TypeOK
<1> QED BY <1>1, EndStep DEF Endings

\* A row of a case is written by a handler that knows the cases of its organization.
LEMMA CaseWritten ==
    ASSUME IInv, NEW r \in Requests, NEW c \in Requests, NEW row \in Case,
           InFlight(r), pc[r] \in {"insertCase", "saveCaseDecision"},
           case' = [case EXCEPT ![c] = row], UNCHANGED <<clock, othersThanCases>>,
           Await(r, "recordAccess", None),
           CaseFits(row), row.by \in {None, r},
           case[c] = None => c = r,
           case[c] # None => row.org = case[c].org,
           row.status = "submitted" => OpenCases(row.org) = {}
    PROVE  IInv'
<1>1. /\ pc' = [pc EXCEPT ![r] = "recordAccess"] /\ job' = [job EXCEPT ![r] = None]
      /\ UNCHANGED <<limit, trail, refusals>>
      /\ UNCHANGED <<review, certificate, expired, contract, distribution>>
    BY DEF Await, othersThanCases, shariahVars, plsVars
<1>2. row # None
    BY AbsenceAssumption
<1>3. TablesTyped'
    BY <1>1, SplitTypes DEF IInv, TablesTyped
<1>4. case \in [Requests -> Case \union {None}]
    BY DEF IInv, TypeOK
<1>5. TablesGrow(r)
    BY <1>1, <1>2, <1>4 DEF TablesGrow
<1>6. r \notin trail /\ refusals[r] = None
    BY DEF IInv, RequestFits, InFlight
<1>7. RequestFits(r)' /\ SerialFits(r)'
    BY <1>1, <1>6, RestsFit DEF Endings
<1>8. \A q \in Requests : Wrote(q) => Wrote(q)'
    BY <1>1 DEF Wrote, IInv, TypeOK
<1>9. Wrote(r)'
    BY <1>1 DEF Wrote, IInv, TypeOK
<1>10. RowsFit'
  <2>1. ASSUME NEW d \in Requests, case'[d] # None
        PROVE  (CaseFits(case[d]) /\ (case[d].by # None => Wrote(case[d].by)))'
    <3>1. CASE d = c
        BY <1>4, <1>9, <3>1 DEF Wrote, CaseFits
    <3>2. CASE d # c
      <4>1. case'[d] = case[d] /\ case[d] \in Case
          BY <1>4, <2>1, <3>2
      <4> QED BY <1>8, <2>1, <4>1 DEF IInv, RowsFit, CasesFit, Case, CaseFits, Wrote
    <3> QED BY <3>1, <3>2
  <2>2. ReviewsFit' /\ DistributionsFit'
      BY <1>1, <1>8, RowsStay
  <2>3. ASSUME NEW d \in Requests, NEW e \in Requests,
               case'[d] # None /\ case'[d].status = "submitted",
               case'[e] # None /\ case'[e].status = "submitted",
               case'[d].org = case'[e].org
        PROVE  d = e
    <3>1. CASE d # c /\ e # c
        BY <1>4, <2>3, <3>1 DEF IInv, RowsFit, CasesFit
    <3>2. CASE d = c /\ e # c
        BY <1>4, <2>3, <3>2 DEF OpenCases, CasesOf
    <3>3. CASE d # c /\ e = c
        BY <1>4, <2>3, <3>3 DEF OpenCases, CasesOf
    <3> QED BY <3>1, <3>2, <3>3
  <2>4. CasesFit'
      BY <2>1, <2>3 DEF CasesFit
  <2> QED BY <2>2, <2>4 DEF RowsFit
<1>11. trail' \subseteq Requests /\ refusals' \in [Requests -> Refusals \union {None}]
    BY <1>1 DEF IInv, TypeOK
<1>12. None \in JobFor("recordAccess") /\ "recordAccess" \in Steps
    BY DEF JobFor, Steps
<1> QED BY <1>1, <1>3, <1>5, <1>7, <1>10, <1>11, <1>12, StepOf

LEMMA InsertCaseKeeps ==
    ASSUME IInv, NEW r \in Requests, InsertCase(r), UNCHANGED othersThanCases
    PROVE  IInv'
<1>1. pc[r] = "insertCase" /\ InFlight(r) /\ clock' = clock /\ job[r] \in Case
    BY JobTypes DEF InsertCase, InFlight, IInv
<1>2. case[r] = None /\ job[r].status = "submitted" /\ CaseFits(job[r]) /\ job[r].by = None
    BY <1>1 DEF IInv, RequestFits, CaseJobFits, CaseFits
<1>3. CASE OpenIndexAdmits(job[r].org)
    BY <1>1, <1>2, <1>3, CaseWritten DEF InsertCase, OpenIndexAdmits
<1>4. CASE ~OpenIndexAdmits(job[r].org)
  <2>1. Answer(r, "failed") /\ UNCHANGED tables /\ clock' \in Nat
      BY <1>1, <1>4 DEF InsertCase, othersThanCases, shariahVars, plsVars, tables, IInv, TypeOK
  <2> QED BY <1>1, <2>1, AnswerKeeps
<1> QED BY <1>3, <1>4

LEMMA SaveCaseDecisionKeeps ==
    ASSUME IInv, NEW r \in Requests, SaveCaseDecision(r), UNCHANGED othersThanCases
    PROVE  IInv' /\ (limit = 1 => case[job[r].id].outcome = None)
<1>1. pc[r] = "saveCaseDecision" /\ InFlight(r) /\ job[r] \in CaseDecisionJob
    BY JobTypes DEF SaveCaseDecision, InFlight, IInv
<1>2. /\ case[job[r].id] # None /\ case[job[r].id].org = job[r].row.org
      /\ job[r].row.status # "submitted" /\ job[r].row.by = r /\ CaseFits(job[r].row)
    BY <1>1, OnboardingAssumption DEF IInv, RequestFits, CaseJobFits, CaseFits
<1>3. job[r].id \in Requests /\ job[r].row \in Case
    BY <1>1 DEF CaseDecisionJob
<1>4. limit = 1 => case[job[r].id].outcome = None
    BY <1>1 DEF IInv, SerialFits
<1> QED BY <1>1, <1>2, <1>3, <1>4, CaseWritten DEF SaveCaseDecision

-----------------------------------------------------------------------------
(* Reviews.                                                                *)

othersThanShariah == <<onboardingVars, plsVars>>

\* The request's own facts while it awaits one of the queries about reviews.
LEMMA ReviewQueryFits ==
    ASSUME IInv, NEW r \in Requests, NEW step, NEW j, Quiet(r, step, j),
           step \in {"insertReview", "findCoordinator", "findReview", "saveReview"},
           ReviewJobFits(r)',
           limit = 1 /\ step \in {"findCoordinator", "saveReview"} =>
               review[j.id].status \notin FinalStatuses
    PROVE  RequestFits(r)' /\ SerialFits(r)'
<1>1. pc'[r] = step /\ job'[r] = j /\ limit' = limit /\ UNCHANGED tables
      /\ trail' = trail /\ refusals' = refusals
    BY DEF Quiet, IInv, TypeOK
<1>2. r \notin trail /\ refusals[r] = None
    BY DEF IInv, RequestFits, Quiet, InFlight, NextToArrive
<1> QED BY <1>1, <1>2 DEF RequestFits, CaseJobFits, CertificateJobFits, ContractJobFits,
                         SerialFits, ActivationSteps, tables

LEMMA ShariahArrival ==
    ASSUME IInv, NEW r \in Requests, NextToArrive(r), UNCHANGED <<shariahVars, othersThanShariah>>
    PROVE  /\ pc[r] = "idle" /\ UNCHANGED tables /\ clock' \in Nat
           /\ review[r] = None /\ certificate[r] = None
BY DEF NextToArrive, shariahVars, othersThanShariah, onboardingVars, plsVars, tables, IInv,
       TypeOK, RequestFits

LEMMA SubmitReviewKeeps ==
    ASSUME IInv, NEW r \in Requests, NEW actor \in Actors, NEW valid \in BOOLEAN,
           SubmitReview(r, actor, valid), UNCHANGED othersThanShariah
    PROVE  IInv'
<1>1. NextToArrive(r) /\ UNCHANGED shariahVars
    BY DEF SubmitReview
<1>2. pc[r] = "idle" /\ UNCHANGED tables /\ clock' \in Nat /\ review[r] = None
    BY <1>1, ShariahArrival
<1>3. CASE actor = "noRole"
    BY <1>1, <1>2, <1>3, AnswerKeeps DEF SubmitReview
<1>4. CASE actor # "noRole" /\ (actor = "notCoordinator" \/ ~valid)
    BY <1>1, <1>2, <1>4, RefuseKeeps DEF SubmitReview, Refusals
<1>5. CASE actor \notin {"noRole", "notCoordinator"} /\ valid
  <2> DEFINE j == [ status |-> "submitted", entries |-> None, by |-> None ]
  <2>1. Quiet(r, "insertReview", j)
      BY <1>1, <1>2, <1>5 DEF SubmitReview, Await, Quiet
  <2>2. j \in Review /\ j.status = "submitted" /\ j.entries = None /\ j.by = None
    <3>1. "submitted" \in ReviewStatuses
        BY DEF ReviewStatuses
    <3> QED BY <3>1 DEF Review
  <2> HIDE DEF j
  <2>3. ReviewJobFits(r)'
      BY <1>2, <2>1, <2>2 DEF Quiet, ReviewJobFits, IInv, TypeOK, tables
  <2>4. RequestFits(r)' /\ SerialFits(r)'
      BY <2>1, <2>3, ReviewQueryFits
  <2> QED BY <1>2, <2>1, <2>2, <2>4, QuietStep DEF Steps, JobFor
<1> QED BY <1>3, <1>4, <1>5

LEMMA EditedRow ==
    ASSUME NEW row \in Review, NEW entries \in SUBSET Items, row.by = None
    PROVE  LET new == WithChecklist(row, entries)
           IN  new \in Review /\ new.by = None /\ ReviewFits(new)
<1> DEFINE status == IF AllMandatoryPresent(entries) THEN "checklistComplete"
                     ELSE "checklistInProgress"
           new == WithChecklist(row, entries)
<1>1. status \in ReviewStatuses /\ status \notin FinalStatuses
    BY DEF ReviewStatuses, FinalStatuses
<1>2. /\ new.status = status /\ new.entries = entries /\ new.by = None
      /\ new \in Review
    BY <1>1 DEF WithChecklist, Review
<1>3. entries # None
    BY AbsenceAssumption
<1> QED BY <1>1, <1>2, <1>3 DEF ReviewFits

LEMMA EditChecklistKeeps ==
    ASSUME IInv, NEW r \in Requests, NEW v \in Requests, NEW entries \in SUBSET Items,
           NEW complete \in BOOLEAN, EditChecklist(r, v, entries, complete),
           UNCHANGED othersThanShariah
    PROVE  IInv'
<1>1. NextToArrive(r) /\ UNCHANGED shariahVars
    BY DEF EditChecklist
<1>2. pc[r] = "idle" /\ UNCHANGED tables /\ clock' \in Nat
    BY <1>1, ShariahArrival
<1>3. CASE ChecklistRefusal(v) # None
  <2>1. ChecklistRefusal(v) \in Refusals
      BY <1>3 DEF ChecklistRefusal, Refusals
  <2> QED BY <1>1, <1>2, <1>3, <2>1, RefuseKeeps DEF EditChecklist
<1>4. CASE ChecklistRefusal(v) = None
  <2> DEFINE row == WithChecklist(review[v], entries)
             allowed == CompletionAllowed(entries, complete)
             j == [ id |-> v, row |-> row, allowed |-> allowed ]
  <2>1. Quiet(r, "findCoordinator", j)
      BY <1>1, <1>2, <1>4 DEF EditChecklist, Await, Quiet
  <2>2. review[v] # None /\ review[v].status \notin FinalStatuses
      BY <1>4, AbsenceAssumption DEF ChecklistRefusal, Editable, Refusals, FinalStatuses
  <2>3. review[v] \in Review /\ review[v].by = None
      BY <2>2 DEF IInv, TypeOK, RowsFit, ReviewsFit, ReviewFits
  <2>4. row \in Review /\ row.by = None /\ ReviewFits(row)
      BY <2>3, EditedRow
  <2>5. allowed \in BOOLEAN
      BY DEF CompletionAllowed
  <2> HIDE DEF row, allowed
  <2>6. j \in ChecklistJob /\ j.id = v /\ j.row = row
      BY <2>4, <2>5 DEF ChecklistJob
  <2> HIDE DEF j
  <2>7. ReviewJobFits(r)'
    <3>1. pc'[r] = "findCoordinator" /\ job'[r] = j /\ UNCHANGED tables
        BY <2>1 DEF Quiet, IInv, TypeOK
    <3> QED BY <2>2, <2>4, <2>6, <3>1 DEF ReviewJobFits, ReviewFits, AllMandatoryPresent, tables
  <2>8. RequestFits(r)' /\ SerialFits(r)'
      BY <2>1, <2>2, <2>6, <2>7, ReviewQueryFits
  <2> QED BY <1>2, <2>1, <2>6, <2>8, QuietStep DEF Steps, JobFor
<1> QED BY <1>3, <1>4

LEMMA FindCoordinatorKeeps ==
    ASSUME IInv, NEW r \in Requests, NEW actor \in Actors, NEW valid \in BOOLEAN,
           FindCoordinator(r, actor, valid), UNCHANGED othersThanShariah
    PROVE  IInv'
<1>1. /\ pc[r] = "findCoordinator" /\ InFlight(r) /\ job[r] \in ChecklistJob
      /\ UNCHANGED tables /\ clock' \in Nat
    BY JobTypes DEF FindCoordinator, InFlight, shariahVars, othersThanShariah, onboardingVars,
                    plsVars, tables, IInv, TypeOK
<1>2. CASE actor = "noRole"
    BY <1>1, <1>2, AnswerKeeps DEF FindCoordinator
<1>3. CASE actor # "noRole" /\ (actor = "notCoordinator" \/ ~(valid /\ job[r].allowed))
    BY <1>1, <1>3, RefuseKeeps DEF FindCoordinator, ValidateEntries, Refusals
<1>4. CASE actor \notin {"noRole", "notCoordinator"} /\ valid /\ job[r].allowed
  <2> DEFINE j == [ id |-> job[r].id, row |-> job[r].row ]
  <2>1. Quiet(r, "saveReview", j)
      BY <1>1, <1>4 DEF FindCoordinator, ValidateEntries, Await, Quiet
  <2>2. j \in ReviewJob /\ j.id = job[r].id /\ j.row = job[r].row
      BY <1>1 DEF ChecklistJob, ReviewJob
  <2> HIDE DEF j
  <2>3. /\ review[job[r].id] # None /\ ReviewFits(job[r].row) /\ job[r].row.by = None
        /\ limit = 1 => review[job[r].id].status \notin FinalStatuses
      BY <1>1 DEF IInv, RequestFits, ReviewJobFits, SerialFits
  <2>4. ReviewJobFits(r)'
    <3>1. pc'[r] = "saveReview" /\ job'[r] = j /\ UNCHANGED tables
        BY <2>1 DEF Quiet, IInv, TypeOK
    <3> QED BY <2>2, <2>3, <3>1 DEF ReviewJobFits, ReviewFits, AllMandatoryPresent, tables
  <2>5. RequestFits(r)' /\ SerialFits(r)'
      BY <2>1, <2>2, <2>3, <2>4, ReviewQueryFits
  <2> QED BY <1>1, <2>1, <2>2, <2>5, QuietStep DEF Steps, JobFor
<1> QED BY <1>2, <1>3, <1>4

LEMMA AskForDecisionKeeps ==
    ASSUME IInv, NEW r \in Requests, NEW v \in Requests, NEW outcome \in ReviewOutcomes,
           NEW actor \in Actors, AskForDecision(r, v, outcome, actor), UNCHANGED othersThanShariah
    PROVE  IInv'
<1>1. NextToArrive(r) /\ UNCHANGED shariahVars
    BY DEF AskForDecision
<1>2. pc[r] = "idle" /\ UNCHANGED tables /\ clock' \in Nat
    BY <1>1, ShariahArrival
<1>3. CASE review[v] # None /\ actor = "noRole"
    BY <1>1, <1>2, <1>3, AnswerKeeps DEF AskForDecision
<1>4. CASE review[v] = None \/ (actor # "noRole" /\ actor = "notCoordinator")
    BY <1>1, <1>2, <1>4, RefuseKeeps DEF AskForDecision, Refusals
<1>5. CASE review[v] # None /\ actor \notin {"noRole", "notCoordinator"}
  <2> DEFINE j == [ id |-> v, outcome |-> outcome ]
  <2>1. Quiet(r, "findReview", j)
      BY <1>1, <1>2, <1>5 DEF AskForDecision, Await, Quiet
  <2>2. j \in ReviewRequest /\ j.id = v
      BY DEF ReviewRequest
  <2> HIDE DEF j
  <2>3. ReviewJobFits(r)'
      BY <1>5, <2>1, <2>2 DEF Quiet, ReviewJobFits, IInv, TypeOK, tables
  <2>4. RequestFits(r)' /\ SerialFits(r)'
      BY <2>1, <2>3, ReviewQueryFits
  <2> QED BY <1>2, <2>1, <2>2, <2>4, QuietStep DEF Steps, JobFor
<1> QED BY <1>3, <1>4, <1>5

LEMMA DecideReviewKeeps ==
    ASSUME IInv, NEW r \in Requests, NEW valid \in BOOLEAN, DecideReview(r, valid),
           UNCHANGED othersThanShariah
    PROVE  IInv'
<1>1. /\ pc[r] = "findReview" /\ InFlight(r) /\ job[r] \in ReviewRequest
      /\ UNCHANGED tables /\ clock' \in Nat
    BY JobTypes DEF DecideReview, InFlight, shariahVars, othersThanShariah, onboardingVars,
                    plsVars, tables, IInv, TypeOK
<1> DEFINE v == job[r].id
<1>2. CASE ~valid \/ ~ReviewDecidable(v)
    BY <1>1, <1>2, RefuseKeeps DEF DecideReview, ReviewDecisionReply, Refusals
<1>3. CASE valid /\ ReviewDecidable(v)
  <2> DEFINE row == [review[v] EXCEPT !.status = job[r].outcome, !.by = r]
             j == [ id |-> v, row |-> row ]
  <2>1. Quiet(r, "saveReview", j)
      BY <1>1, <1>3 DEF DecideReview, Await, Quiet
  <2>2. v \in Requests /\ job[r].outcome \in FinalStatuses
      BY <1>1, ShariahAssumption DEF ReviewRequest
  <2>3. /\ review[v] # None /\ review[v] \in Review /\ review[v].status = "checklistComplete"
        /\ ReviewFits(review[v])
      BY <1>3, <2>2 DEF ReviewDecidable, IInv, TypeOK, RowsFit, ReviewsFit
  <2>4. review[v].status \notin FinalStatuses /\ review[v].entries # None
        /\ AllMandatoryPresent(review[v].entries)
      BY <2>3 DEF ReviewFits, FinalStatuses
  <2>5. job[r].outcome \in ReviewStatuses
      BY <2>2 DEF ReviewStatuses
  <2>6. /\ row \in Review /\ row.status = job[r].outcome /\ row.by = r
        /\ row.entries = review[v].entries
      BY <2>3, <2>5 DEF Review
  <2> HIDE DEF row
  <2>7. ReviewFits(row)
      BY <2>2, <2>4, <2>6, OnboardingAssumption DEF ReviewFits
  <2>8. j \in ReviewJob /\ j.id = v /\ j.row = row
      BY <2>2, <2>6 DEF ReviewJob
  <2> HIDE DEF j
  <2>9. ReviewJobFits(r)'
    <3>1. pc'[r] = "saveReview" /\ job'[r] = j /\ UNCHANGED tables
        BY <2>1 DEF Quiet, IInv, TypeOK
    <3> HIDE DEF v
    <3> QED BY <2>3, <2>6, <2>7, <2>8, <3>1 DEF ReviewJobFits, ReviewFits, AllMandatoryPresent, tables
  <2>10. RequestFits(r)' /\ SerialFits(r)'
      BY <2>1, <2>4, <2>8, <2>9, ReviewQueryFits
  <2> QED BY <1>1, <2>1, <2>8, <2>10, QuietStep DEF Steps, JobFor
<1> QED BY <1>2, <1>3

LEMMA ViewReviewHistoryKeeps ==
    ASSUME IInv, NEW r \in Requests, NEW v \in Requests, NEW allowed \in BOOLEAN,
           ViewReviewHistory(r, v, allowed), UNCHANGED othersThanShariah
    PROVE  IInv'
<1>1. NextToArrive(r) /\ UNCHANGED shariahVars
    BY DEF ViewReviewHistory
<1>2. pc[r] = "idle" /\ UNCHANGED tables /\ clock' \in Nat
    BY <1>1, ShariahArrival
<1>3. CASE review[v] = None \/ ~allowed
    BY <1>1, <1>2, <1>3, RefuseKeeps DEF ViewReviewHistory, Refusals
<1>4. CASE review[v] # None /\ allowed
  <2>1. Quiet(r, "recordAccess", None)
      BY <1>1, <1>2, <1>4 DEF ViewReviewHistory, Await, Quiet
  <2> QED BY <1>2, <2>1, EndStep DEF Endings
<1> QED BY <1>3, <1>4

\* A row of a review is replaced by one that fits.
LEMMA ReviewWritten ==
    ASSUME IInv, NEW r \in Requests, NEW v \in Requests, NEW row \in Review,
           InFlight(r), pc[r] \in {"insertReview", "saveReview"},
           review' = [review EXCEPT ![v] = row],
           UNCHANGED <<certificate, expired, othersThanShariah>>,
           Await(r, "recordAccess", None),
           ReviewFits(row), row.by \in {None, r}, review[v] = None => v = r
    PROVE  IInv'
<1>1. /\ pc' = [pc EXCEPT ![r] = "recordAccess"] /\ job' = [job EXCEPT ![r] = None]
      /\ UNCHANGED <<limit, trail, refusals>>
      /\ UNCHANGED <<case, clock, certificate, expired, contract, distribution>>
    BY DEF Await, othersThanShariah, onboardingVars, plsVars
<1>2. row # None /\ review \in [Requests -> Review \union {None}]
    BY AbsenceAssumption DEF IInv, TypeOK
<1>3. TablesTyped'
    BY <1>1, SplitTypes DEF IInv, TablesTyped
<1>4. TablesGrow(r)
    BY <1>1, <1>2 DEF TablesGrow
<1>5. r \notin trail /\ refusals[r] = None
    BY DEF IInv, RequestFits, InFlight
<1>6. RequestFits(r)' /\ SerialFits(r)'
    BY <1>1, <1>5, RestsFit DEF Endings
<1>7. (\A q \in Requests : Wrote(q) => Wrote(q)') /\ Wrote(r)'
    BY <1>1 DEF Wrote, IInv, TypeOK
<1>8. RowsFit'
  <2>1. ASSUME NEW u \in Requests, review'[u] # None
        PROVE  (ReviewFits(review[u]) /\ (review[u].by # None => Wrote(review[u].by)))'
    <3>1. CASE u = v
        BY <1>2, <1>7, <3>1 DEF Wrote, ReviewFits, AllMandatoryPresent
    <3>2. CASE u # v
      <4>1. review'[u] = review[u] /\ review[u] \in Review
          BY <1>2, <2>1, <3>2
      <4> QED BY <1>7, <2>1, <4>1
          DEF IInv, RowsFit, ReviewsFit, Review, ReviewFits, AllMandatoryPresent, Wrote
    <3> QED BY <3>1, <3>2
  <2>2. CasesFit' /\ DistributionsFit'
      BY <1>1, <1>7, RowsStay
  <2>3. ReviewsFit'
      BY <2>1 DEF ReviewsFit
  <2> QED BY <2>2, <2>3 DEF RowsFit
<1>9. trail' \subseteq Requests /\ refusals' \in [Requests -> Refusals \union {None}]
    BY <1>1 DEF IInv, TypeOK
<1>10. None \in JobFor("recordAccess") /\ "recordAccess" \in Steps
    BY DEF JobFor, Steps
<1> QED BY <1>1, <1>3, <1>4, <1>6, <1>8, <1>9, <1>10, StepOf

LEMMA InsertReviewKeeps ==
    ASSUME IInv, NEW r \in Requests, InsertReview(r), UNCHANGED othersThanShariah
    PROVE  IInv'
<1>1. pc[r] = "insertReview" /\ InFlight(r) /\ job[r] \in Review
    BY JobTypes DEF InsertReview, InFlight, IInv
<1>2. /\ review[r] = None /\ job[r].by = None
      /\ job[r].status = "submitted" /\ job[r].entries = None
    BY <1>1 DEF IInv, RequestFits, ReviewJobFits
<1>3. ReviewFits(job[r])
  <2>1. job[r].status \notin FinalStatuses
      BY <1>2 DEF FinalStatuses
  <2> QED BY <1>2, <2>1 DEF ReviewFits
<1> QED BY <1>1, <1>2, <1>3, ReviewWritten DEF InsertReview

LEMMA SaveReviewKeeps ==
    ASSUME IInv, NEW r \in Requests, SaveReview(r), UNCHANGED othersThanShariah
    PROVE  IInv' /\ (limit = 1 => review[job[r].id].status \notin FinalStatuses)
<1>1. pc[r] = "saveReview" /\ InFlight(r) /\ job[r] \in ReviewJob
    BY JobTypes DEF SaveReview, InFlight, IInv
<1>2. /\ review[job[r].id] # None /\ ReviewFits(job[r].row) /\ job[r].row.by \in {None, r}
      /\ limit = 1 => review[job[r].id].status \notin FinalStatuses
    BY <1>1 DEF IInv, RequestFits, ReviewJobFits, SerialFits
<1>3. job[r].id \in Requests /\ job[r].row \in Review
    BY <1>1 DEF ReviewJob
<1> QED BY <1>1, <1>2, <1>3, ReviewWritten DEF SaveReview

-----------------------------------------------------------------------------
(* Certificates.                                                           *)

\* The request's own facts while it awaits the save of a certificate.
LEMMA CertificateQueryFits ==
    ASSUME IInv, NEW r \in Requests, NEW j, Quiet(r, "saveCertificate", j),
           CertificateJobFits(r)'
    PROVE  RequestFits(r)' /\ SerialFits(r)'
<1>1. pc'[r] = "saveCertificate" /\ trail' = trail /\ refusals' = refusals
    BY DEF Quiet, IInv, TypeOK
<1>2. r \notin trail /\ refusals[r] = None
    BY DEF IInv, RequestFits, Quiet, InFlight, NextToArrive
<1> QED BY <1>1, <1>2 DEF RequestFits, CaseJobFits, ReviewJobFits, ContractJobFits,
                         SerialFits, ActivationSteps

LEMMA RegisterCertificateKeeps ==
    ASSUME IInv, NEW r \in Requests, NEW t \in Templates, RegisterCertificate(r, t),
           UNCHANGED othersThanShariah
    PROVE  IInv'
<1>1. NextToArrive(r) /\ UNCHANGED shariahVars
    BY DEF RegisterCertificate
<1>2. pc[r] = "idle" /\ UNCHANGED tables /\ clock' \in Nat /\ certificate[r] = None
    BY <1>1, ShariahArrival
<1> DEFINE row == [ template |-> t, status |-> "active" ]
           j == [ id |-> r, row |-> row ]
<1>3. Quiet(r, "saveCertificate", j)
    BY <1>1, <1>2 DEF RegisterCertificate, Await, Quiet
<1>4. row \in Certificate /\ row.status = "active"
    BY DEF Certificate
<1> HIDE DEF row
<1>5. j \in CertificateJob /\ j.id = r /\ j.row = row
    BY <1>4 DEF CertificateJob
<1> HIDE DEF j
<1>6. CertificateJobFits(r)'
    BY <1>2, <1>3, <1>4, <1>5 DEF Quiet, CertificateJobFits, IInv, TypeOK, tables
<1>7. RequestFits(r)' /\ SerialFits(r)'
    BY <1>3, <1>6, CertificateQueryFits
<1> QED BY <1>2, <1>3, <1>5, <1>7, QuietStep DEF Steps, JobFor

LEMMA RevokeCertificateKeeps ==
    ASSUME IInv, NEW r \in Requests, NEW c \in Requests, RevokeCertificate(r, c),
           UNCHANGED othersThanShariah
    PROVE  IInv'
<1>1. NextToArrive(r) /\ UNCHANGED shariahVars /\ certificate[c] # None
    BY DEF RevokeCertificate
<1>2. pc[r] = "idle" /\ UNCHANGED tables /\ clock' \in Nat
    BY <1>1, ShariahArrival
<1> DEFINE row == [certificate[c] EXCEPT !.status = "revoked"]
           j == [ id |-> c, row |-> row ]
<1>3. Quiet(r, "saveCertificate", j)
    BY <1>1, <1>2 DEF RevokeCertificate, Await, Quiet
<1>4. certificate[c] \in Certificate
    BY <1>1 DEF IInv, TypeOK
<1>5. row \in Certificate /\ row.status = "revoked" /\ row.template = certificate[c].template
    BY <1>4 DEF Certificate
<1> HIDE DEF row
<1>6. j \in CertificateJob /\ j.id = c /\ j.row = row
    BY <1>5 DEF CertificateJob
<1> HIDE DEF j
<1>7. CertificateJobFits(r)'
    BY <1>1, <1>2, <1>3, <1>5, <1>6 DEF Quiet, CertificateJobFits, IInv, TypeOK, tables
<1>8. RequestFits(r)' /\ SerialFits(r)'
    BY <1>3, <1>7, CertificateQueryFits
<1> QED BY <1>2, <1>3, <1>6, <1>8, QuietStep DEF Steps, JobFor

\* No save of a certificate makes a revoked one active.
RevokedStays ==
    \A c \in Requests :
        certificate[c] # None /\ certificate[c].status = "revoked"
            => certificate'[c] = certificate[c]

LEMMA SaveCertificateKeeps ==
    ASSUME IInv, NEW r \in Requests, SaveCertificate(r), UNCHANGED othersThanShariah
    PROVE  IInv' /\ RevokedStays
<1> DEFINE c == job[r].id
           row == job[r].row
<1>1. /\ pc[r] = "saveCertificate" /\ InFlight(r) /\ job[r] \in CertificateJob
      /\ certificate' = [certificate EXCEPT ![c] = row]
      /\ pc' = [pc EXCEPT ![r] = "done"] /\ job' = [job EXCEPT ![r] = None]
      /\ UNCHANGED <<limit, trail, refusals>>
      /\ UNCHANGED <<case, clock, review, expired, contract, distribution>>
    BY JobTypes DEF SaveCertificate, Answer, InFlight, IInv, othersThanShariah, onboardingVars,
                    plsVars
<1>2. c \in Requests /\ row \in Certificate /\ row # None
    BY <1>1, AbsenceAssumption DEF CertificateJob
<1>3. \/ c = r /\ certificate[r] = None /\ row.status = "active"
      \/ certificate[c] # None /\ row.template = certificate[c].template /\ row.status = "revoked"
    BY <1>1 DEF IInv, RequestFits, CertificateJobFits
<1> HIDE DEF c, row
<1>4. certificate \in [Requests -> Certificate \union {None}]
    BY DEF IInv, TypeOK
<1>5. TablesTyped' /\ TablesGrow(r)
  <2>1. TablesTyped'
      BY <1>1, <1>2, SplitTypes DEF IInv, TablesTyped
  <2>2. TablesGrow(r)
      BY <1>1, <1>2, <1>3, <1>4 DEF TablesGrow
  <2> QED BY <2>1, <2>2
<1>6. RevokedStays
  <2> SUFFICES ASSUME NEW d \in Requests, certificate[d] # None,
                      certificate[d].status = "revoked"
               PROVE  certificate'[d] = certificate[d]
      BY DEF RevokedStays
  <2>1. CASE d # c
      BY <1>1, <1>4, <2>1
  <2>2. CASE d = c
    <3>1. certificate[d] \in Certificate /\ certificate'[d] = row
          /\ row.template = certificate[d].template /\ row.status = certificate[d].status
        BY <1>1, <1>2, <1>3, <1>4, <2>2
    <3> QED BY <1>2, <3>1 DEF Certificate
  <2> QED BY <2>1, <2>2
<1>7. r \notin trail /\ refusals[r] = None
    BY <1>1 DEF IInv, RequestFits
<1>8. RequestFits(r)' /\ SerialFits(r)'
    BY <1>1, <1>7, RestsFit DEF Endings
<1>9. RowsFit'
  <2>1. \A q \in Requests : Wrote(q) => Wrote(q)'
      BY <1>1 DEF Wrote, IInv, TypeOK
  <2> QED BY <1>1, <2>1, RowsStay DEF RowsFit
<1>10. trail' \subseteq Requests /\ refusals' \in [Requests -> Refusals \union {None}]
    BY <1>1 DEF IInv, TypeOK
<1>11. None \in JobFor("done") /\ "done" \in Steps
    BY DEF JobFor, Steps
<1> QED BY <1>1, <1>5, <1>6, <1>8, <1>9, <1>10, <1>11, StepOf

\* A clause about the parties reads the table of cases only.
LEMMA MayActStays ==
    ASSUME NEW o, case' = case
    PROVE  MayAct(o)' = MayAct(o)
BY DEF MayAct, Eligibility, LatestCase, CasesOf

LEMMA CertificateExpiresKeeps ==
    ASSUME IInv, NEW c \in Requests, CertificateExpires(c), UNCHANGED othersThanShariah
    PROVE  IInv'
<1>1. /\ UNCHANGED <<limit, pc, job, trail, refusals, case, clock, review, certificate,
                     contract, distribution>>
      /\ expired' \subseteq Requests
    BY DEF CertificateExpires, handling, othersThanShariah, onboardingVars, plsVars, IInv, TypeOK
<1>2. TypeOK' /\ (job = [q \in Requests |-> job[q]])'
    BY <1>1 DEF IInv, TypeOK, JobFor
<1>3. RowsFit'
  <2>1. \A q \in Requests : Wrote(q) => Wrote(q)'
      BY <1>1 DEF Wrote
  <2> QED BY <1>1, <2>1, RowsStay DEF RowsFit
<1>4. ASSUME NEW q \in Requests PROVE RequestFits(q)'
  <2>1. RequestFits(q)
      BY DEF IInv
  <2>2. CaseJobFits(q)' /\ CertificateJobFits(q)'
      BY <1>1, <2>1 DEF RequestFits, CaseJobFits, CertificateJobFits
  <2>3. ReviewJobFits(q)'
      BY <1>1, <2>1 DEF RequestFits, ReviewJobFits, ReviewFits, AllMandatoryPresent
  <2>4. ContractJobFits(q)'
      BY <1>1, <2>1 DEF RequestFits, ContractJobFits, Conserves, Scenario, Magnitude, NegativeProfit, ActivationSteps
  <2> QED BY <1>1, <2>1, <2>2, <2>3, <2>4 DEF RequestFits
<1>5. ASSUME NEW q \in Requests PROVE SerialFits(q)'
  <2>1. SerialFits(q)
      BY DEF IInv
  <2>2. \A o : MayAct(o)' = MayAct(o)
      BY <1>1, MayActStays
  <2> QED BY <1>1, <2>1, <2>2 DEF SerialFits, Covers, ActivationSteps
<1>6. Alone'
    BY <1>1 DEF IInv, Alone, InFlight
<1> QED BY <1>2, <1>3, <1>4, <1>5, <1>6 DEF IInv

-----------------------------------------------------------------------------
(* Activation and distribution.                                            *)

othersThanPls == <<onboardingVars, shariahVars>>

LEMMA ActivationMoves ==
    ASSUME IInv, NEW r \in Requests, NEW step \in ActivationSteps, NEW j \in ActivationJob,
           Quiet(r, step, j), pc[r] # "recordAccess", ContractJobFits(r)', SerialFits(r)'
    PROVE  IInv'
<1>1. pc'[r] = step /\ trail' = trail /\ refusals' = refusals
    BY DEF Quiet, IInv, TypeOK
<1>2. r \notin trail /\ refusals[r] = None
    BY DEF IInv, RequestFits, Quiet, InFlight, NextToArrive
<1>3. RequestFits(r)'
    BY <1>1, <1>2 DEF RequestFits, CaseJobFits, ReviewJobFits, CertificateJobFits, ActivationSteps
<1>4. step \in Steps /\ j \in JobFor(step)
    BY DEF ActivationSteps, Steps, JobFor
<1> QED BY <1>3, <1>4, QuietStep

LEMMA ActivateContractKeeps ==
    ASSUME IInv, NEW r \in Requests, NEW k \in Contracts, NEW v \in Requests, NEW c \in Requests,
           ActivateContract(r, k, v, c), UNCHANGED othersThanPls
    PROVE  IInv'
<1> DEFINE j == [ contract |-> k, row |-> contract[k], review |-> v, certificate |-> c,
                  late |-> {} ]
<1>1. /\ NextToArrive(r) /\ pc[r] = "idle" /\ UNCHANGED tables /\ clock' \in Nat
      /\ review[v] # None /\ certificate[c] # None
    BY DEF ActivateContract, NextToArrive, plsVars, othersThanPls, onboardingVars, shariahVars,
           tables, IInv, TypeOK
<1>2. Quiet(r, "checkBuyer", j)
    BY <1>1 DEF ActivateContract, Await, Quiet
<1>3. j \in ActivationJob /\ j.review = v /\ j.certificate = c
    BY DEF ActivationJob, IInv, TypeOK
<1> HIDE DEF j
<1>4. pc'[r] = "checkBuyer" /\ job'[r] = j
    BY <1>2 DEF Quiet, IInv, TypeOK
<1>5. ContractJobFits(r)' /\ SerialFits(r)'
    BY <1>1, <1>3, <1>4 DEF ContractJobFits, SerialFits, ActivationSteps, tables
<1> QED BY <1>1, <1>2, <1>3, <1>5, ActivationMoves DEF ActivationSteps

\* The facts of an activation that its next query leaves as they are.
LEMMA ActivationFits ==
    ASSUME IInv, NEW r \in Requests, pc[r] \in ActivationSteps, NEW step \in ActivationSteps,
           NEW j \in ActivationJob, Quiet(r, step, j), j.contract = job[r].contract,
           j.review = job[r].review, j.certificate = job[r].certificate,
           step = "saveContract" =>
               /\ j.row = [ status |-> "active", review |-> j.review,
                            certificate |-> j.certificate ]
               /\ certificate[j.certificate].template = Terms[j.contract].template
    PROVE  /\ pc'[r] = step /\ job'[r] = j /\ limit' = limit /\ UNCHANGED tables
           /\ \A o : MayAct(o)' = MayAct(o)
           /\ SerialFits(r)
           /\ ContractJobFits(r)'
<1>1. pc'[r] = step /\ job'[r] = j /\ limit' = limit /\ UNCHANGED tables
    BY DEF Quiet, IInv, TypeOK
<1>2. \A o : MayAct(o)' = MayAct(o)
    BY <1>1, MayActStays DEF tables
<1>3. SerialFits(r) /\ ContractJobFits(r)
    BY DEF IInv, RequestFits
<1>4. ContractJobFits(r)'
    BY <1>1, <1>3 DEF ContractJobFits, ActivationSteps, tables
<1> QED BY <1>1, <1>2, <1>3, <1>4

LEMMA ActivationQuery ==
    ASSUME IInv, NEW r \in Requests, pc[r] \in ActivationSteps, UNCHANGED <<plsVars, othersThanPls>>
    PROVE  /\ InFlight(r) /\ pc[r] # "recordAccess" /\ job[r] \in ActivationJob
           /\ UNCHANGED tables /\ clock' \in Nat
<1>1. job[r] \in ActivationJob
    BY JobTypes DEF IInv
<1> QED BY <1>1 DEF ActivationSteps, InFlight, plsVars, othersThanPls, onboardingVars,
                    shariahVars, tables, IInv, TypeOK

LEMMA CheckPartyKeeps ==
    ASSUME IInv, NEW r \in Requests, UNCHANGED othersThanPls,
           \/ CheckParty(r, "checkBuyer", "buyer", "checkSupplier")
           \/ CheckParty(r, "checkSupplier", "supplier", "checkFinancier")
           \/ CheckParty(r, "checkFinancier", "financier", "readApproval")
    PROVE  IInv'
<1>1. pc[r] \in {"checkBuyer", "checkSupplier", "checkFinancier"} /\ UNCHANGED plsVars
    BY DEF CheckParty
<1>2. /\ InFlight(r) /\ pc[r] # "recordAccess" /\ job[r] \in ActivationJob
      /\ UNCHANGED tables /\ clock' \in Nat
    BY <1>1, ActivationQuery DEF ActivationSteps
<1>3. CASE Answer(r, "done")
    BY <1>2, <1>3, AnswerKeeps
<1>4. CASE CheckParty(r, "checkBuyer", "buyer", "checkSupplier") /\ ~Answer(r, "done")
  <2>1. Quiet(r, "checkSupplier", job[r]) /\ MayAct(Terms[job[r].contract]["buyer"])
        /\ pc[r] = "checkBuyer"
      BY <1>2, <1>4 DEF CheckParty, Await, Quiet
  <2>2. ContractJobFits(r)' /\ SerialFits(r)'
      BY <1>2, <2>1, ActivationFits DEF ActivationSteps, SerialFits
  <2> QED BY <1>2, <2>1, <2>2, ActivationMoves DEF ActivationSteps
<1>5. CASE CheckParty(r, "checkSupplier", "supplier", "checkFinancier") /\ ~Answer(r, "done")
  <2>1. Quiet(r, "checkFinancier", job[r]) /\ MayAct(Terms[job[r].contract]["supplier"])
        /\ pc[r] = "checkSupplier"
      BY <1>2, <1>5 DEF CheckParty, Await, Quiet
  <2>2. ContractJobFits(r)' /\ SerialFits(r)'
      BY <1>2, <2>1, ActivationFits DEF ActivationSteps, SerialFits
  <2> QED BY <1>2, <2>1, <2>2, ActivationMoves DEF ActivationSteps
<1>6. CASE CheckParty(r, "checkFinancier", "financier", "readApproval") /\ ~Answer(r, "done")
  <2>1. Quiet(r, "readApproval", job[r]) /\ MayAct(Terms[job[r].contract]["financier"])
        /\ pc[r] = "checkFinancier"
      BY <1>2, <1>6 DEF CheckParty, Await, Quiet
  <2>2. ContractJobFits(r)' /\ SerialFits(r)'
      BY <1>2, <2>1, ActivationFits DEF ActivationSteps, SerialFits
  <2> QED BY <1>2, <2>1, <2>2, ActivationMoves DEF ActivationSteps
<1> QED BY <1>3, <1>4, <1>5, <1>6

LEMMA ReadApprovalKeeps ==
    ASSUME IInv, NEW r \in Requests, ReadApproval(r), UNCHANGED othersThanPls
    PROVE  IInv'
<1>1. pc[r] = "readApproval" /\ pc[r] \in ActivationSteps /\ UNCHANGED plsVars
    BY DEF ReadApproval, ActivationSteps
<1>2. /\ InFlight(r) /\ pc[r] # "recordAccess" /\ job[r] \in ActivationJob
      /\ UNCHANGED tables /\ clock' \in Nat
    BY <1>1, ActivationQuery
<1>3. CASE Answer(r, "done")
    BY <1>2, <1>3, AnswerKeeps
<1>4. CASE ~Answer(r, "done")
  <2> DEFINE j == [job[r] EXCEPT !.late = expired]
  <2>1. Quiet(r, "readCertificate", j) /\ review[job[r].review].status = "approved"
      BY <1>2, <1>4 DEF ReadApproval, Await, Quiet
  <2>2. expired \subseteq Requests
      BY DEF IInv, TypeOK
  <2>3. /\ j \in ActivationJob /\ j.contract = job[r].contract
        /\ j.review = job[r].review /\ j.certificate = job[r].certificate
      BY <1>2, <2>2 DEF ActivationJob
  <2> HIDE DEF j
  <2>4. /\ pc'[r] = "readCertificate" /\ job'[r] = j /\ limit' = limit /\ UNCHANGED tables
        /\ \A o : MayAct(o)' = MayAct(o)
        /\ SerialFits(r) /\ ContractJobFits(r)'
      BY <1>1, <2>1, <2>3, ActivationFits DEF ActivationSteps
  <2>5. SerialFits(r)'
      BY <1>1, <2>1, <2>3, <2>4 DEF SerialFits, ActivationSteps, tables
  <2> QED BY <1>1, <2>1, <2>3, <2>4, <2>5, ActivationMoves DEF ActivationSteps
<1> QED BY <1>3, <1>4

LEMMA ReadCertificateKeeps ==
    ASSUME IInv, NEW r \in Requests, ReadCertificate(r), UNCHANGED othersThanPls
    PROVE  IInv'
<1>1. pc[r] = "readCertificate" /\ pc[r] \in ActivationSteps /\ UNCHANGED plsVars
    BY DEF ReadCertificate, ActivationSteps
<1>2. /\ InFlight(r) /\ pc[r] # "recordAccess" /\ job[r] \in ActivationJob
      /\ UNCHANGED tables /\ clock' \in Nat
    BY <1>1, ActivationQuery
<1>3. CASE Answer(r, "done")
    BY <1>2, <1>3, AnswerKeeps
<1>4. CASE ~Answer(r, "done")
  <2> DEFINE row == [ status |-> "active", review |-> job[r].review,
                      certificate |-> job[r].certificate ]
             j == [job[r] EXCEPT !.row = row]
  <2>1. /\ Quiet(r, "saveContract", j)
        /\ Covers(job[r].certificate, job[r].contract, job[r].late)
      BY <1>1, <1>2, <1>4 DEF ReadCertificate, Await, Quiet
  <2>2. row \in Contract
      BY <1>2 DEF ActivationJob, Contract
  <2>3. /\ j \in ActivationJob /\ j.contract = job[r].contract
        /\ j.review = job[r].review /\ j.certificate = job[r].certificate
        /\ j.row = row
      <3> HIDE DEF row
      <3> QED BY <1>2, <2>2 DEF ActivationJob
  <2> HIDE DEF j
  <2>4. /\ pc'[r] = "saveContract" /\ job'[r] = j /\ limit' = limit /\ UNCHANGED tables
        /\ \A o : MayAct(o)' = MayAct(o)
        /\ SerialFits(r) /\ ContractJobFits(r)'
      BY <1>1, <2>1, <2>3, ActivationFits DEF ActivationSteps, Covers
  <2>5. SerialFits(r)'
      BY <1>1, <2>1, <2>3, <2>4 DEF SerialFits, ActivationSteps, tables, Covers
  <2> QED BY <1>1, <2>1, <2>3, <2>4, <2>5, ActivationMoves DEF ActivationSteps
<1> QED BY <1>3, <1>4

\* What the write of a contract rests on.
CoveredStep ==
    \A k \in Contracts : contract'[k] # contract[k] =>
        /\ review[contract'[k].review] # None
        /\ certificate[contract'[k].certificate] # None
        /\ certificate[contract'[k].certificate].template = Terms[k].template
        /\ limit = 1 =>
               /\ \A party \in Parties : MayAct(Terms[k][party])
               /\ review[contract'[k].review].status = "approved"
               /\ Covers(contract'[k].certificate, k, {})

\* The steps that write the tables of financing, and end their request.
LEMMA PlsWritten ==
    ASSUME IInv, NEW r \in Requests, InFlight(r), pc[r] # "recordAccess", Answer(r, "done"),
           UNCHANGED othersThanPls, TablesTyped',
           \A k \in Contracts : contract[k].status = "active" => contract'[k].status = "active",
           DistributionsFit'
    PROVE  IInv'
<1>1. /\ pc' = [pc EXCEPT ![r] = "done"] /\ job' = [job EXCEPT ![r] = None]
      /\ UNCHANGED <<limit, trail, refusals>> /\ UNCHANGED <<case, review, certificate>>
    BY DEF Answer, othersThanPls, onboardingVars, shariahVars
<1>2. TablesGrow(r)
    BY <1>1 DEF TablesGrow
<1>3. r \notin trail /\ refusals[r] = None
    BY DEF IInv, RequestFits, InFlight
<1>4. RequestFits(r)' /\ SerialFits(r)'
    BY <1>1, <1>3, RestsFit DEF Endings
<1>5. \A q \in Requests : Wrote(q) => Wrote(q)'
    BY <1>1 DEF Wrote, IInv, TypeOK, InFlight
<1>6. RowsFit'
    BY <1>1, <1>5, RowsStay DEF RowsFit
<1>7. trail' \subseteq Requests /\ refusals' \in [Requests -> Refusals \union {None}]
    BY <1>1 DEF IInv, TypeOK
<1>8. None \in JobFor("done") /\ "done" \in Steps
    BY DEF JobFor, Steps
<1> QED BY <1>1, <1>2, <1>4, <1>6, <1>7, <1>8, StepOf

LEMMA SaveContractKeeps ==
    ASSUME IInv, NEW r \in Requests, SaveContract(r), UNCHANGED othersThanPls
    PROVE  IInv' /\ CoveredStep
<1> DEFINE k == job[r].contract
           row == job[r].row
<1>1. /\ pc[r] = "saveContract" /\ InFlight(r) /\ job[r] \in ActivationJob
      /\ contract' = [contract EXCEPT ![k] = row] /\ distribution' = distribution
    BY JobTypes DEF SaveContract, InFlight, IInv, ActivationSteps
<1>2. k \in Contracts /\ row \in Contract
    BY <1>1 DEF ActivationJob
<1>3. /\ row = [ status |-> "active", review |-> job[r].review,
                 certificate |-> job[r].certificate ]
      /\ certificate[job[r].certificate].template = Terms[k].template
      /\ review[job[r].review] # None /\ certificate[job[r].certificate] # None
      /\ SerialFits(r)
    BY <1>1 DEF IInv, RequestFits, ContractJobFits, ActivationSteps
<1>4. /\ row.status = "active" /\ row.review = job[r].review
      /\ row.certificate = job[r].certificate
    BY <1>3
<1>5. contract \in [Contracts -> Contract] /\ contract' \in [Contracts -> Contract]
    BY <1>1, <1>2 DEF IInv, TypeOK
<1>6. TablesTyped'
    BY <1>1, <1>5, SplitTypes DEF IInv, TablesTyped, othersThanPls, onboardingVars, shariahVars
<1>7. \A l \in Contracts : contract[l].status = "active" => contract'[l].status = "active"
    BY <1>1, <1>2, <1>4, <1>5
<1>8. DistributionsFit'
  <2>1. \A d \in Requests : distribution[d] # None => distribution[d] \in Distribution
      BY DEF IInv, TypeOK
  <2> QED BY <1>1, <1>7, <2>1
      DEF IInv, RowsFit, DistributionsFit, Distribution, Conserves, Scenario, Magnitude, NegativeProfit
<1>9. IInv'
    BY <1>1, <1>6, <1>7, <1>8, PlsWritten DEF SaveContract
<1>10. CoveredStep
  <2> SUFFICES ASSUME NEW l \in Contracts, contract'[l] # contract[l]
               PROVE  /\ review[contract'[l].review] # None
                      /\ certificate[contract'[l].certificate] # None
                      /\ certificate[contract'[l].certificate].template = Terms[l].template
                      /\ limit = 1 =>
                             /\ \A party \in Parties : MayAct(Terms[l][party])
                             /\ review[contract'[l].review].status = "approved"
                             /\ Covers(contract'[l].certificate, l, {})
      BY DEF CoveredStep
  <2>1. l = k /\ contract'[l] = row
      BY <1>1, <1>2, <1>5
  <2>2. ASSUME limit = 1, NEW party \in Parties PROVE MayAct(Terms[l][party])
    <3>1. /\ MayAct(Terms[k].buyer) /\ MayAct(Terms[k].supplier)
          /\ MayAct(Terms[k].financier)
        BY <1>1, <1>3, <2>2 DEF SerialFits, ActivationSteps
    <3> QED BY <2>1, <3>1 DEF Parties
  <2>3. limit = 1 =>
            /\ review[job[r].review].status = "approved"
            /\ Covers(job[r].certificate, k, {})
      BY <1>1, <1>3 DEF SerialFits
  <2> HIDE DEF k, row
  <2> QED BY <1>3, <1>4, <2>1, <2>2, <2>3
<1> QED BY <1>9, <1>10

LEMMA AllocationConserves ==
    ASSUME NEW k \in Contracts, NEW type \in {"profit", "loss"}, NEW gross \in Results
    PROVE  LET shares == Allocation(type, gross, Terms[k].percent)
               d == [ contract |-> k, type |-> type, gross |-> StoredResult(type, gross),
                      financier |-> shares.financier, operator |-> shares.operator ]
           IN  d \in Distribution /\ d.contract = k /\ Conserves(d)
<1> DEFINE percent == Terms[k].percent
           size == Magnitude(gross)
           stored == StoredResult(type, gross)
           share == (size * percent) \div 100
           shares == Allocation(type, gross, percent)
           d == [ contract |-> k, type |-> type, gross |-> stored,
                  financier |-> shares.financier, operator |-> shares.operator ]
<1>1. percent \in 0..100 /\ percent + (100 - percent) = 100
  <2>1. percent \in 0..100
      BY PlsAssumption
  <2> HIDE DEF percent
  <2> QED BY <2>1
<1>2. /\ gross \in Int /\ size \in Nat /\ stored \in Int /\ -size \in Int
      /\ Magnitude(stored) = size
      /\ type = "profit" => stored = gross /\ (IF stored < 0 THEN size = -stored
                                                              ELSE size = stored)
      /\ type = "loss" => stored = -size /\ stored <= 0
    BY PlsAssumption DEF Magnitude, StoredResult
<1> HIDE DEF percent, size, stored
<1>3. size * percent \in Nat /\ share \in 0..size
    BY <1>1, <1>2, ShareIsPart
<1>4. share \in Nat /\ size - share \in Nat /\ share + (size - share) = size
      /\ 100 * share <= size * percent /\ size * percent < 100 * (share + 1)
    BY <1>2, <1>3, Truncation
<1>5. CASE type = "profit"
  <2>1. shares.financier = share /\ shares.operator = size - share
      BY <1>5 DEF Allocation, size
  <2>2. /\ Scenario(type, size, percent, 100 - percent).financier = share
        /\ Scenario(type, size, percent, 100 - percent).operator = size - share
      BY <1>1, <1>2, <1>5 DEF Scenario
  <2> HIDE DEF share, shares
  <2>3. d \in Distribution /\ d.contract = k
      BY <1>2, <1>4, <1>5, <2>1 DEF Distribution
  <2>4. Conserves(d)
      BY <1>2, <1>4, <1>5, <2>1, <2>2 DEF Conserves, NegativeProfit, percent
  <2> QED BY <2>3, <2>4 DEF shares, percent, stored
<1>6. CASE type = "loss"
  <2>1. shares.financier = -size /\ shares.operator = 0
      BY <1>6 DEF Allocation, size
  <2>2. /\ Scenario(type, size, percent, 100 - percent).financier = -size
        /\ Scenario(type, size, percent, 100 - percent).operator = 0
      BY <1>1, <1>2, <1>6 DEF Scenario
  <2> HIDE DEF share, shares
  <2>3. d \in Distribution /\ d.contract = k
      BY <1>2, <1>6, <2>1 DEF Distribution
  <2>4. Conserves(d)
      BY <1>2, <1>6, <2>1, <2>2 DEF Conserves, NegativeProfit, percent
  <2> QED BY <2>3, <2>4 DEF shares, percent, stored
<1> QED BY <1>5, <1>6

LEMMA DistributeKeeps ==
    ASSUME IInv, NEW r \in Requests, NEW k \in Contracts, NEW type \in {"profit", "loss"},
           NEW gross \in Results, Distribute(r, k, type, gross), UNCHANGED othersThanPls
    PROVE  IInv'
<1> DEFINE shares == Allocation(type, gross, Terms[k].percent)
           d == [ contract |-> k, type |-> type, gross |-> StoredResult(type, gross),
                  financier |-> shares.financier, operator |-> shares.operator ]
<1>1. /\ NextToArrive(r) /\ pc[r] = "idle" /\ UNCHANGED tables /\ clock' \in Nat
      /\ contract[k].status = "active"
    BY DEF Distribute, NextToArrive, plsVars, othersThanPls, onboardingVars, shariahVars,
           tables, IInv, TypeOK
<1>2. Quiet(r, "saveDistribution", d)
    BY <1>1 DEF Distribute, Await, Quiet
<1>3. d \in Distribution /\ d.contract = k /\ Conserves(d)
    BY AllocationConserves
<1> HIDE DEF d
<1>4. /\ pc'[r] = "saveDistribution" /\ job'[r] = d /\ trail' = trail /\ refusals' = refusals
    BY <1>2 DEF Quiet, IInv, TypeOK
<1>5. r \notin trail /\ refusals[r] = None
    BY <1>1 DEF IInv, RequestFits
<1>6. ContractJobFits(r)'
    BY <1>1, <1>3, <1>4 DEF ContractJobFits, ActivationSteps, tables, Conserves, Scenario, Magnitude, NegativeProfit
<1>7. RequestFits(r)' /\ SerialFits(r)'
    BY <1>4, <1>5, <1>6 DEF RequestFits, CaseJobFits, ReviewJobFits, CertificateJobFits,
                            SerialFits, ActivationSteps
<1> QED BY <1>1, <1>2, <1>3, <1>7, QuietStep DEF Steps, JobFor

LEMMA SaveDistributionKeeps ==
    ASSUME IInv, NEW r \in Requests, SaveDistribution(r), UNCHANGED othersThanPls
    PROVE  IInv'
<1>1. /\ pc[r] = "saveDistribution" /\ InFlight(r) /\ job[r] \in Distribution
      /\ distribution' = [distribution EXCEPT ![r] = job[r]] /\ contract' = contract
    BY JobTypes DEF SaveDistribution, InFlight, IInv
<1>2. contract[job[r].contract].status = "active" /\ Conserves(job[r])
    BY <1>1 DEF IInv, RequestFits, ContractJobFits
<1>3. distribution \in [Requests -> Distribution \union {None}]
    BY DEF IInv, TypeOK
<1>4. TablesTyped'
    BY <1>1, <1>3, SplitTypes DEF IInv, TablesTyped, othersThanPls, onboardingVars, shariahVars
<1>5. DistributionsFit'
  <2>1. ASSUME NEW d \in Requests, distribution'[d] # None
        PROVE  (contract[distribution[d].contract].status = "active"
                    /\ Conserves(distribution[d]))'
    <3>1. CASE d = r
        BY <1>1, <1>2, <1>3, <3>1 DEF Conserves, Scenario, Magnitude, NegativeProfit
    <3>2. CASE d # r
        BY <1>1, <1>3, <2>1, <3>2 DEF IInv, RowsFit, DistributionsFit, Conserves, Scenario, Magnitude, NegativeProfit
    <3> QED BY <3>1, <3>2
  <2> QED BY <2>1 DEF DistributionsFit
<1> QED BY <1>1, <1>4, <1>5, PlsWritten DEF SaveDistribution

-----------------------------------------------------------------------------
(* Every step.                                                             *)

CaseStands ==
    limit = 1 => \A c \in Requests :
        case[c] # None /\ case[c].outcome # None => case'[c] = case[c]

ReviewStands ==
    limit = 1 => \A v \in Requests :
        review[v] # None /\ review[v].status \in FinalStatuses => review'[v] = review[v]

StepFacts == CaseStands /\ ReviewStands /\ RevokedStays /\ CoveredStep

LEMMA NoWriteKeeps ==
    ASSUME UNCHANGED <<case, review, certificate, contract>>
    PROVE  StepFacts
BY DEF StepFacts, CaseStands, ReviewStands, RevokedStays, CoveredStep

LEMMA OnboardingKeeps ==
    ASSUME IInv, NEW r \in Requests, OnboardingStep(r), UNCHANGED othersThanCases
    PROVE  IInv' /\ StepFacts
<1>1. UNCHANGED <<review, certificate, contract>> /\ case \in [Requests -> Case \union {None}]
    BY DEF othersThanCases, shariahVars, plsVars, IInv, TypeOK
<1>2. CASE InsertCase(r)
  <2>1. case[r] = None /\ \A c \in Requests \ {r} : case'[c] = case[c]
      BY <1>1, <1>2 DEF InsertCase, IInv, RequestFits, CaseJobFits
  <2>2. StepFacts
      BY <1>1, <2>1 DEF StepFacts, CaseStands, ReviewStands, RevokedStays, CoveredStep
  <2> QED BY <1>2, <2>2, InsertCaseKeeps
<1>3. CASE SaveCaseDecision(r)
  <2>1. limit = 1 => case[job[r].id].outcome = None
      BY <1>3, SaveCaseDecisionKeeps
  <2>2. \A c \in Requests \ {job[r].id} : case'[c] = case[c]
      BY <1>1, <1>3 DEF SaveCaseDecision
  <2>3. StepFacts
      BY <1>1, <2>1, <2>2 DEF StepFacts, CaseStands, ReviewStands, RevokedStays, CoveredStep
  <2> QED BY <1>3, <2>3, SaveCaseDecisionKeeps
<1>4. ASSUME NEW o \in Organizations, NEW evidence, SubmitCase(r, o, evidence)
      PROVE  IInv' /\ StepFacts
    BY <1>1, <1>4, SubmitCaseKeeps, NoWriteKeeps DEF SubmitCase
<1>5. ASSUME NEW c \in Requests, NEW outcome \in ReviewerOutcomes, NEW valid \in BOOLEAN,
             DecideCase(r, c, outcome, valid)
      PROVE  IInv' /\ StepFacts
    BY <1>1, <1>5, DecideCaseKeeps, NoWriteKeeps DEF DecideCase
<1>6. CASE CheckEligibility(r)
    BY <1>1, <1>6, CheckEligibilityKeeps, NoWriteKeeps DEF CheckEligibility, onboardingVars
<1> QED BY <1>2, <1>3, <1>4, <1>5, <1>6 DEF OnboardingStep

LEMMA ShariahKeeps ==
    ASSUME IInv, NEW r \in Requests, ShariahStep(r), UNCHANGED othersThanShariah
    PROVE  IInv' /\ StepFacts
<1>1. UNCHANGED <<case, contract>> /\ review \in [Requests -> Review \union {None}]
    BY DEF othersThanShariah, onboardingVars, plsVars, IInv, TypeOK
<1>2. CASE InsertReview(r)
  <2>1. review[r] = None /\ certificate' = certificate
        /\ \A v \in Requests \ {r} : review'[v] = review[v]
      BY <1>1, <1>2 DEF InsertReview, IInv, RequestFits, ReviewJobFits
  <2>2. StepFacts
      BY <1>1, <2>1 DEF StepFacts, CaseStands, ReviewStands, RevokedStays, CoveredStep
  <2> QED BY <1>2, <2>2, InsertReviewKeeps
<1>3. CASE SaveReview(r)
  <2>1. limit = 1 => review[job[r].id].status \notin FinalStatuses
      BY <1>3, SaveReviewKeeps
  <2>2. certificate' = certificate /\ \A v \in Requests \ {job[r].id} : review'[v] = review[v]
      BY <1>1, <1>3 DEF SaveReview
  <2>3. StepFacts
      BY <1>1, <2>1, <2>2 DEF StepFacts, CaseStands, ReviewStands, RevokedStays, CoveredStep
  <2> QED BY <1>3, <2>3, SaveReviewKeeps
<1>4. CASE SaveCertificate(r)
  <2>1. RevokedStays /\ review' = review
      BY <1>4, SaveCertificateKeeps DEF SaveCertificate
  <2>2. StepFacts
      BY <1>1, <2>1 DEF StepFacts, CaseStands, ReviewStands, CoveredStep
  <2> QED BY <1>4, <2>2, SaveCertificateKeeps
<1>5. ASSUME NEW actor \in Actors, NEW valid \in BOOLEAN,
             SubmitReview(r, actor, valid) \/ FindCoordinator(r, actor, valid)
      PROVE  IInv' /\ StepFacts
    BY <1>1, <1>5, SubmitReviewKeeps, FindCoordinatorKeeps, NoWriteKeeps
    DEF SubmitReview, FindCoordinator, shariahVars
<1>6. ASSUME NEW v \in Requests, NEW entries \in SUBSET Items, NEW complete \in BOOLEAN,
             EditChecklist(r, v, entries, complete)
      PROVE  IInv' /\ StepFacts
    BY <1>1, <1>6, EditChecklistKeeps, NoWriteKeeps DEF EditChecklist, shariahVars
<1>7. ASSUME NEW v \in Requests, NEW outcome \in ReviewOutcomes, NEW actor \in Actors,
             AskForDecision(r, v, outcome, actor)
      PROVE  IInv' /\ StepFacts
    BY <1>1, <1>7, AskForDecisionKeeps, NoWriteKeeps DEF AskForDecision, shariahVars
<1>8. ASSUME NEW v \in Requests, RevokeCertificate(r, v)
      PROVE  IInv' /\ StepFacts
    BY <1>1, <1>8, RevokeCertificateKeeps, NoWriteKeeps DEF RevokeCertificate, shariahVars
<1>9. ASSUME NEW v \in Requests, NEW allowed \in BOOLEAN, ViewReviewHistory(r, v, allowed)
      PROVE  IInv' /\ StepFacts
    BY <1>1, <1>9, ViewReviewHistoryKeeps, NoWriteKeeps DEF ViewReviewHistory, shariahVars
<1>10. ASSUME NEW valid \in BOOLEAN, DecideReview(r, valid)
       PROVE  IInv' /\ StepFacts
    BY <1>1, <1>10, DecideReviewKeeps, NoWriteKeeps DEF DecideReview, shariahVars
<1>11. ASSUME NEW t \in Templates, RegisterCertificate(r, t)
       PROVE  IInv' /\ StepFacts
    BY <1>1, <1>11, RegisterCertificateKeeps, NoWriteKeeps DEF RegisterCertificate, shariahVars
<1> QED BY <1>2, <1>3, <1>4, <1>5, <1>6, <1>7, <1>8, <1>9, <1>10, <1>11 DEF ShariahStep

LEMMA PlsKeeps ==
    ASSUME IInv, NEW r \in Requests, PlsStep(r), UNCHANGED othersThanPls
    PROVE  IInv' /\ StepFacts
<1>1. UNCHANGED <<case, review, certificate>>
    BY DEF othersThanPls, onboardingVars, shariahVars
<1>2. CASE SaveContract(r)
  <2>1. IInv' /\ CoveredStep
      BY <1>2, SaveContractKeeps
  <2> QED BY <1>1, <2>1 DEF StepFacts, CaseStands, ReviewStands, RevokedStays
<1>3. ASSUME IInv', contract' = contract PROVE IInv' /\ StepFacts
    BY <1>1, <1>3, NoWriteKeeps
<1>4. ASSUME NEW k \in Contracts, NEW v \in Requests, NEW c \in Requests,
             ActivateContract(r, k, v, c)
      PROVE  IInv' /\ StepFacts
    BY <1>3, <1>4, ActivateContractKeeps DEF ActivateContract, plsVars
<1>5. ASSUME NEW k \in Contracts, NEW type \in {"profit", "loss"}, NEW gross \in Results,
             Distribute(r, k, type, gross)
      PROVE  IInv' /\ StepFacts
    BY <1>3, <1>5, DistributeKeeps DEF Distribute, plsVars
<1>6. ASSUME \/ CheckParty(r, "checkBuyer", "buyer", "checkSupplier")
             \/ CheckParty(r, "checkSupplier", "supplier", "checkFinancier")
             \/ CheckParty(r, "checkFinancier", "financier", "readApproval")
      PROVE  IInv' /\ StepFacts
    BY <1>3, <1>6, CheckPartyKeeps DEF CheckParty, plsVars
<1>7. CASE ReadApproval(r)
    BY <1>3, <1>7, ReadApprovalKeeps DEF ReadApproval, plsVars
<1>8. CASE ReadCertificate(r)
    BY <1>3, <1>8, ReadCertificateKeeps DEF ReadCertificate, plsVars
<1>9. CASE SaveDistribution(r)
    BY <1>3, <1>9, SaveDistributionKeeps DEF SaveDistribution
<1> QED BY <1>2, <1>4, <1>5, <1>6, <1>7, <1>8, <1>9 DEF PlsStep

LEMMA StutterKeeps == IInv /\ UNCHANGED vars => IInv'
<1> SUFFICES ASSUME IInv, UNCHANGED vars PROVE IInv'
    OBVIOUS
<1>1. /\ UNCHANGED <<limit, pc, job, trail, refusals, case, clock, review, certificate,
                     expired, contract, distribution>>
    BY DEF vars, handling, onboardingVars, shariahVars, plsVars
<1>2. TypeOK' /\ (job = [q \in Requests |-> job[q]])'
    BY <1>1 DEF IInv, TypeOK, JobFor
<1>3. \A q \in Requests : Wrote(q) => Wrote(q)'
    BY <1>1 DEF Wrote
<1>4. RowsFit'
    BY <1>1, <1>3, RowsStay DEF RowsFit
<1>5. ASSUME NEW q \in Requests PROVE RequestFits(q)'
  <2>1. RequestFits(q)
      BY DEF IInv
  <2>2. CaseJobFits(q)' /\ CertificateJobFits(q)'
      BY <1>1, <2>1 DEF RequestFits, CaseJobFits, CertificateJobFits
  <2>3. ReviewJobFits(q)'
      BY <1>1, <2>1 DEF RequestFits, ReviewJobFits, ReviewFits, AllMandatoryPresent
  <2>4. ContractJobFits(q)'
      BY <1>1, <2>1 DEF RequestFits, ContractJobFits, Conserves, Scenario, Magnitude, NegativeProfit, ActivationSteps
  <2> QED BY <1>1, <2>1, <2>2, <2>3, <2>4 DEF RequestFits
<1>6. ASSUME NEW q \in Requests PROVE SerialFits(q)'
  <2>1. \A o : MayAct(o)' = MayAct(o)
      BY <1>1, MayActStays
  <2> QED BY <1>1, <2>1 DEF IInv, SerialFits, Covers, ActivationSteps
<1>7. Alone'
    BY <1>1 DEF IInv, Alone, InFlight
<1> QED BY <1>2, <1>4, <1>5, <1>6, <1>7 DEF IInv

LEMMA StepKeeps == IInv /\ [Next]_vars => IInv' /\ StepFacts
<1> SUFFICES ASSUME IInv, [Next]_vars PROVE IInv' /\ StepFacts
    OBVIOUS
<1>1. CASE UNCHANGED vars
    BY <1>1, StutterKeeps, NoWriteKeeps DEF vars, onboardingVars, shariahVars, plsVars
<1>2. CASE Crash /\ UNCHANGED <<onboardingVars, shariahVars, plsVars>>
    BY <1>2, CrashKeeps, NoWriteKeeps DEF onboardingVars, shariahVars, plsVars
<1>3. ASSUME NEW r \in Requests, PlsStep(r), UNCHANGED <<onboardingVars, shariahVars>>
      PROVE  IInv' /\ StepFacts
    BY <1>3, PlsKeeps DEF othersThanPls
<1>4. ASSUME NEW r \in Requests, OnboardingStep(r), UNCHANGED <<shariahVars, plsVars>>
      PROVE  IInv' /\ StepFacts
    BY <1>4, OnboardingKeeps DEF othersThanCases
<1>5. ASSUME NEW r \in Requests, ShariahStep(r), UNCHANGED <<onboardingVars, plsVars>>
      PROVE  IInv' /\ StepFacts
    BY <1>5, ShariahKeeps DEF othersThanShariah
<1>6. ASSUME NEW r \in Requests, CertificateExpires(r), UNCHANGED <<onboardingVars, plsVars>>
      PROVE  IInv' /\ StepFacts
    BY <1>6, CertificateExpiresKeeps, NoWriteKeeps
    DEF CertificateExpires, othersThanShariah, onboardingVars, plsVars
<1>7. ASSUME NEW r \in Requests, RecordAccess(r) \/ RecordRefusal(r) \/ QueryFails(r),
             UNCHANGED <<onboardingVars, shariahVars, plsVars>>
      PROVE  IInv' /\ StepFacts
    BY <1>7, RecordKeeps, QueryFailsKeeps, NoWriteKeeps DEF onboardingVars, shariahVars, plsVars
<1> QED BY <1>1, <1>2, <1>3, <1>4, <1>5, <1>6, <1>7 DEF Next

LEMMA InitFits == Init => IInv
<1> SUFFICES ASSUME Init PROVE IInv
    OBVIOUS
<1>1. /\ limit \in 1..MaxInFlight /\ trail = 1..Seeded /\ clock = 0 /\ expired = {}
      /\ pc = [r \in Requests |-> IF r <= Seeded THEN "done" ELSE "idle"]
      /\ job = [r \in Requests |-> None] /\ refusals = [r \in Requests |-> None]
      /\ distribution = [r \in Requests |-> None]
    BY DEF Init, HandlingInit, OnboardingInit, ShariahInit
<1>2. 1..Seeded \subseteq Requests /\ Requests \subseteq Nat
    BY HandlingAssumption DEF Requests
<1>3. \A r \in Requests : r <= Seeded <=> r \in 1..Seeded
    BY HandlingAssumption DEF Requests
<1>4. ASSUME NEW r \in Requests
      PROVE  /\ case[r] \in Case \union {None}
             /\ case[r] # None => /\ r \in 1..Seeded /\ case[r].org = SeededCases[r]
                                  /\ case[r].status = "approved" /\ case[r].by = r
                                  /\ case[r].outcome = "pass"
  <2>1. CASE r > Seeded \/ SeededCases[r] = None
      BY <1>3, <2>1, HandlingAssumption DEF Init, OnboardingInit, Requests
  <2>2. CASE ~(r > Seeded) /\ SeededCases[r] # None
    <3>1. r \in 1..Seeded /\ SeededCases[r] \in Organizations
        BY <1>3, <2>2, OnboardingAssumption, HandlingAssumption DEF Requests
    <3>2. case[r] = [ org |-> SeededCases[r], status |-> "approved", updated |-> 0,
                      outcome |-> "pass", by |-> r ]
        BY <2>2 DEF Init, OnboardingInit
    <3> QED BY <3>1, <3>2 DEF Case, CaseStatuses, DecisionOutcomes
  <2> QED BY <2>1, <2>2
<1>5. ASSUME NEW r \in Requests
      PROVE  /\ review[r] \in Review \union {None}
             /\ review[r] # None => /\ r \in 1..Seeded /\ ReviewFits(review[r])
                                    /\ review[r].by \in {r, None}
  <2>1. CASE r > Seeded \/ SeededReviews[r] = "none"
      BY <1>3, <2>1 DEF Init, ShariahInit
  <2>2. CASE ~(r > Seeded) /\ SeededReviews[r] = "approved"
    <3>1. r \in 1..Seeded
        BY <1>3, <2>2, HandlingAssumption DEF Requests
    <3>2. review[r] = [ status |-> "approved", entries |-> None, by |-> r ]
        BY <2>2 DEF Init, ShariahInit
    <3>3. "approved" \in ReviewStatuses /\ "approved" \in FinalStatuses /\ r # None
        BY OnboardingAssumption DEF ReviewStatuses, FinalStatuses
    <3> QED BY <3>1, <3>2, <3>3 DEF Review, ReviewFits
  <2>3. CASE ~(r > Seeded) /\ SeededReviews[r] \notin {"none", "approved"}
    <3>1. r \in 1..Seeded
        BY <1>3, <2>3, HandlingAssumption DEF Requests
    <3>2. review[r] = [ status |-> "checklistComplete", entries |-> Mandatory, by |-> None ]
        BY <2>3 DEF Init, ShariahInit
    <3>3. "checklistComplete" \in ReviewStatuses /\ "checklistComplete" \notin FinalStatuses
        BY DEF ReviewStatuses, FinalStatuses
    <3>4. Mandatory \in SUBSET Items /\ Mandatory # None
        BY ShariahAssumption, AbsenceAssumption
    <3> QED BY <3>1, <3>2, <3>3, <3>4 DEF Review, ReviewFits, AllMandatoryPresent
  <2> QED BY <2>1, <2>2, <2>3
<1>6. ASSUME NEW r \in Requests
      PROVE  /\ certificate[r] \in Certificate \union {None}
             /\ certificate[r] # None => r \in 1..Seeded
  <2>1. CASE r > Seeded \/ SeededCertificates[r] = None
      BY <1>3, <2>1 DEF Init, ShariahInit
  <2>2. CASE ~(r > Seeded) /\ SeededCertificates[r] # None
    <3>1. r \in 1..Seeded /\ SeededCertificates[r] \in Templates
        BY <1>3, <2>2, ShariahAssumption, HandlingAssumption DEF Requests
    <3>2. certificate[r] = [ template |-> SeededCertificates[r], status |-> "active" ]
        BY <2>2 DEF Init, ShariahInit
    <3> QED BY <3>1, <3>2 DEF Certificate
  <2> QED BY <2>1, <2>2
<1>7. TablesTyped
  <2>1. case \in [Requests -> Case \union {None}]
      BY <1>4 DEF Init, OnboardingInit
  <2>2. review \in [Requests -> Review \union {None}]
      BY <1>5 DEF Init, ShariahInit
  <2>3. certificate \in [Requests -> Certificate \union {None}]
      BY <1>6 DEF Init, ShariahInit
  <2>4. contract \in [Contracts -> Contract]
      BY DEF Init, Contract
  <2> QED BY <1>1, <2>1, <2>2, <2>3, <2>4 DEF TablesTyped
<1>8. TypeOK
  <2>1. pc \in [Requests -> Steps] /\ \A r \in Requests : pc[r] \in {"done", "idle"}
      BY <1>1 DEF Steps
  <2>2. \A r \in Requests : job[r] \in JobFor(pc[r])
      BY <1>1, <2>1 DEF JobFor
  <2> QED BY <1>1, <1>2, <1>7, <2>1, <2>2, SplitTypes
<1>9. RowsFit
  <2>1. \A r \in 1..Seeded : Wrote(r)
      BY <1>1, <1>2, <1>3 DEF Wrote
  <2>2. CasesFit
      BY <1>4, <2>1, OnboardingAssumption DEF CasesFit, CaseFits, DecisionOutcomes
  <2>3. ReviewsFit
      BY <1>5, <2>1 DEF ReviewsFit
  <2>4. DistributionsFit
      BY <1>1 DEF DistributionsFit
  <2> QED BY <2>2, <2>3, <2>4 DEF RowsFit
<1>10. ASSUME NEW r \in Requests PROVE RequestFits(r) /\ SerialFits(r)
  <2>1. pc[r] \in {"done", "idle"} /\ (pc[r] = "idle" <=> r \notin 1..Seeded)
      BY <1>1, <1>3
  <2>2. refusals[r] = None /\ (r \in trail => pc[r] = "done")
      BY <1>1, <2>1
  <2> QED BY <1>4, <1>5, <1>6, <2>1, <2>2
      DEF RequestFits, CaseJobFits, ReviewJobFits, CertificateJobFits, ContractJobFits,
          SerialFits, ActivationSteps
<1>11. Alone /\ job = [r \in Requests |-> job[r]]
    BY <1>1 DEF Alone, InFlight
<1> QED BY <1>8, <1>9, <1>10, <1>11 DEF IInv

-----------------------------------------------------------------------------
(* What the invariant says.                                                *)

LEMMA OpenCasesAreOne ==
    ASSUME IInv
    PROVE  OneOpenCase
<1> SUFFICES ASSUME NEW o \in Organizations
             PROVE  Cardinality(OpenCases(o)) <= 1
    BY DEF OneOpenCase
<1>1. \A c, d \in OpenCases(o) : c = d
    BY DEF IInv, RowsFit, CasesFit, OpenCases, CasesOf
<1>2. CASE OpenCases(o) = {}
    BY <1>2, FS_EmptySet
<1>3. CASE OpenCases(o) # {}
  <2>1. PICK c \in OpenCases(o) : TRUE
      BY <1>3
  <2>2. OpenCases(o) = {c}
      BY <1>1, <2>1
  <2> QED BY <2>2, FS_Singleton
<1> QED BY <1>2, <1>3

LEMMA CasesAreTold ==
    ASSUME IInv
    PROVE  CaseHistoryEndsAtStatus
<1> SUFFICES ASSUME NEW c \in Requests, case[c] # None
             PROVE  /\ CaseHistory(c)[Len(CaseHistory(c))] = case[c].status
                    /\ (case[c].status = "submitted") = (case[c].by = None)
    BY DEF CaseHistoryEndsAtStatus
<1>1. CaseFits(case[c])
    BY DEF IInv, RowsFit, CasesFit
<1>2. CASE case[c].outcome = None
  <2>1. CaseHistory(c) = <<"submitted">> /\ case[c].status = "submitted"
      BY <1>1, <1>2 DEF CaseHistory, CaseFits
  <2> QED BY <1>1, <2>1 DEF CaseFits
<1>3. CASE case[c].outcome # None
  <2>1. CaseHistory(c) = <<"submitted", case[c].status>>
      BY <1>3 DEF CaseHistory
  <2> QED BY <1>1, <2>1 DEF CaseFits
<1> QED BY <1>2, <1>3

LEMMA ReviewsAreTold ==
    ASSUME IInv
    PROVE  ReviewHistoryEndsAtStatus
<1> SUFFICES ASSUME NEW v \in Requests, review[v] # None
             PROVE  ReviewHistory(v)[Len(ReviewHistory(v))] = review[v].status
    BY DEF ReviewHistoryEndsAtStatus
<1>1. ReviewFits(review[v])
    BY DEF IInv, RowsFit, ReviewsFit
<1> DEFINE earlier == <<"submitted">> \o ChecklistHistory(v)
<1>2. CASE review[v].status \in FinalStatuses
  <2>1. ReviewHistory(v) = earlier \o <<review[v].status>>
      BY <1>2 DEF ReviewHistory
  <2> DEFINE shown == {"submitted", "checklistInProgress", "checklistComplete"}
  <2>2. ChecklistHistory(v) \in Seq(shown)
    <3>1. <<>> \in Seq(shown) /\ <<"checklistInProgress">> \in Seq(shown)
          /\ <<"checklistComplete">> \in Seq(shown)
        OBVIOUS
    <3>2. /\ <<"checklistInProgress">> \o <<>> \in Seq(shown)
          /\ <<"checklistInProgress">> \o <<"checklistComplete">> \in Seq(shown)
        BY <3>1
    <3> HIDE DEF shown
    <3> QED BY <3>1, <3>2 DEF ChecklistHistory
  <2>3. earlier \in Seq(shown)
    <3>1. <<"submitted">> \in Seq(shown)
        OBVIOUS
    <3> HIDE DEF shown
    <3> QED BY <2>2, <3>1
  <2> HIDE DEF shown
  <2> HIDE DEF earlier
  <2>4. Len(ReviewHistory(v)) = Len(earlier) + 1
      BY <2>1, <2>3
  <2> QED BY <2>1, <2>3, <2>4
<1>3. CASE review[v].status \notin FinalStatuses
  <2>1. ReviewHistory(v) = earlier \o <<>>
      BY <1>3 DEF ReviewHistory
  <2>2. CASE review[v].entries = None
    <3>1. ChecklistHistory(v) = <<>> /\ review[v].status = "submitted"
        BY <1>1, <1>3, <2>2 DEF ChecklistHistory, ReviewFits
    <3> QED BY <2>1, <3>1
  <2>3. CASE review[v].entries # None /\ AllMandatoryPresent(review[v].entries)
    <3>1. /\ ChecklistHistory(v) = <<"checklistInProgress">> \o <<"checklistComplete">>
          /\ review[v].status = "checklistComplete"
        BY <1>1, <1>3, <2>3 DEF ChecklistHistory, ChecklistStatus, ReviewFits
    <3> QED BY <2>1, <3>1
  <2>4. CASE review[v].entries # None /\ ~AllMandatoryPresent(review[v].entries)
    <3>1. /\ ChecklistHistory(v) = <<"checklistInProgress">> \o <<>>
          /\ review[v].status = "checklistInProgress"
        BY <1>1, <1>3, <2>4 DEF ChecklistHistory, ChecklistStatus, ReviewFits
    <3> QED BY <2>1, <3>1
  <2> QED BY <2>2, <2>3, <2>4
<1> QED BY <1>2, <1>3

LEMMA AuditIsTrue ==
    ASSUME IInv, NEW r \in Requests, Wrote(r)
    PROVE  (r \in trail \/ pc[r] \in {"recordAccess", "failed"}) /\ refusals[r] = None
BY DEF IInv, RequestFits, Wrote

LEMMA AllIsTold ==
    ASSUME IInv
    PROVE  DecisionsAreTold
<1>1. ASSUME NEW c \in Requests, case[c] # None, case[c].by # None
      PROVE  case[c].by \in Requests /\ Wrote(case[c].by)
    BY <1>1 DEF IInv, TypeOK, Case, RowsFit, CasesFit
<1>2. ASSUME NEW v \in Requests, review[v] # None, review[v].by # None
      PROVE  review[v].by \in Requests /\ Wrote(review[v].by)
    BY <1>2 DEF IInv, TypeOK, Review, RowsFit, ReviewsFit
<1>3. DecisionsAreAudited
    BY <1>1, AuditIsTrue DEF DecisionsAreAudited
<1>4. \A c \in Requests :
          /\ case[c] # None /\ case[c].by # None => refusals[case[c].by] = None
          /\ review[c] # None /\ review[c].by # None => refusals[review[c].by] = None
    BY <1>1, <1>2, AuditIsTrue
<1> QED BY <1>3, <1>4, CasesAreTold, ReviewsAreTold DEF DecisionsAreTold

LEMMA ChecklistsAreComplete == IInv => DecidedOnCompleteChecklist
BY DEF IInv, RowsFit, ReviewsFit, ReviewFits, DecidedOnCompleteChecklist

LEMMA SharesAddUp == IInv => DistributionConserves
BY DEF IInv, RowsFit, DistributionsFit, Conserves, DistributionConserves

-----------------------------------------------------------------------------
(* The theorems.                                                           *)

\* The invariant: every request keeps, at each query it awaits, what its next
\* step relies on, and no row written since has taken it away.
THEOREM InvariantHolds == Spec => []IInv
<1>1. Init => IInv
    BY InitFits
<1>2. IInv /\ [Next]_vars => IInv'
    BY StepKeeps
<1> QED BY <1>1, <1>2, PTL DEF Spec

\* The rows of the three services and what a handler keeps between two of its
\* queries have their types, whatever overlaps, fails or crashes.
THEOREM TypeCorrect == Spec => []TypeOK
<1>1. IInv => TypeOK
    BY DEF IInv
<1> QED BY <1>1, InvariantHolds, PTL

\* However submissions of one organization overlap, at most one of its cases is
\* open: the partial unique index decides.
THEOREM OneCaseIsOpen == Spec => []OneOpenCase
<1>1. IInv => OneOpenCase
    BY OpenCasesAreOne
<1> QED BY <1>1, InvariantHolds, PTL

\* The histories shown of cases and reviews end at their statuses, and the
\* audit trail does not deny a decision that is stored.
THEOREM DecisionsAreShown == Spec => []DecisionsAreTold
<1>1. IInv => DecisionsAreTold
    BY AllIsTold
<1> QED BY <1>1, InvariantHolds, PTL

\* A decided review holds the complete checklist it was decided on, though a
\* checklist edit writes back a whole row it read earlier.
THEOREM DecisionsAreComplete == Spec => []DecidedOnCompleteChecklist
<1>1. IInv => DecidedOnCompleteChecklist
    BY ChecklistsAreComplete
<1> QED BY <1>1, InvariantHolds, PTL

\* The shares of every stored distribution, signs included, add up to its
\* result, for every signed amount and percentage, and the simulator shows the
\* same shares; of a profit reported negative they add up to its opposite.
THEOREM DistributionsConserve == Spec => []DistributionConserves
<1>1. IInv => DistributionConserves
    BY SharesAddUp
<1> QED BY <1>1, InvariantHolds, PTL

\* Decisions on cases and reviews are final when requests do not overlap, and
\* the revocation of a certificate is final even when they do.
THEOREM DecisionsAreFinal == Spec => DecisionsStand
<1>1. IInv /\ [Next]_vars => [CaseStands]_<<case, limit>>
    BY StepKeeps DEF StepFacts
<1>2. IInv /\ [Next]_vars => [ReviewStands]_<<review, limit>>
    BY StepKeeps DEF StepFacts
<1>3. IInv /\ [Next]_vars => [RevokedStays]_certificate
    BY StepKeeps DEF StepFacts
<1>4. Spec => [][CaseStands]_<<case, limit>>
    BY <1>1, InvariantHolds, PTL DEF Spec
<1>5. Spec => [][ReviewStands]_<<review, limit>>
    BY <1>2, InvariantHolds, PTL DEF Spec
<1>6. Spec => [][RevokedStays]_certificate
    BY <1>3, InvariantHolds, PTL DEF Spec
<1> QED BY <1>4, <1>5, <1>6
        DEF DecisionsStand, CaseDecisionStands, ReviewDecisionStands, RevocationStands,
            CaseStands, ReviewStands, RevokedStays

\* A contract becomes active only under a review and a certificate for its
\* template, and, when requests do not overlap, only while its parties are
\* eligible, the review approved and the certificate in force.
THEOREM ActivationsAreCovered == Spec => ActivationIsCovered
<1>1. IInv /\ [Next]_vars => [CoveredStep]_<<plsVars, limit>>
    BY StepKeeps DEF StepFacts
<1>2. Spec => [][CoveredStep]_<<plsVars, limit>>
    BY <1>1, InvariantHolds, PTL DEF Spec
<1> QED BY <1>2 DEF ActivationIsCovered, CoveredStep
=============================================================================
