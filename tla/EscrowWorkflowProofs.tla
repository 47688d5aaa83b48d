------------------------ MODULE EscrowWorkflowProofs ------------------------
(***************************************************************************)
(* What holds of EscrowWorkflow for any number of requests, orders and     *)
(* organizations, any parties of the orders and any faults.                *)
(***************************************************************************)
EXTENDS EscrowLoad, TLAPS, FiniteSetTheorems

-----------------------------------------------------------------------------
(* The command table.                                                      *)

LEMMA CommandTable ==
    \A c \in Commands : Target[c] \in EscrowStatuses /\ Sources[c] \subseteq EscrowStatuses
<1> SUFFICES ASSUME NEW c \in Commands
             PROVE  Target[c] \in EscrowStatuses /\ Sources[c] \subseteq EscrowStatuses
    OBVIOUS
<1>1. Target[c] \in EscrowStatuses
    BY SMT DEF Commands, Target, EscrowStatuses
<1>2. Sources[c] \subseteq EscrowStatuses
    BY SMT DEF Commands, Sources, Holdable, AwaitingRelease, PausedStatuses, EscrowStatuses
<1> QED BY <1>1, <1>2

LEMMA Distinct == "create" \notin Commands
BY DEF Commands

-----------------------------------------------------------------------------
(* Type correctness, one lemma per action.                                 *)

LEMMA InFlightHasJob ==
    ASSUME TypeOK, NEW r \in Requests, InFlight(r)
    PROVE  job[r] \in Job
BY DEF TypeOK

LEMMA EndKeepsType ==
    ASSUME TypeOK, NEW r \in Requests, NEW how \in Ended, End(r, how)
    PROVE  /\ pc' \in [Requests -> {"idle"} \union InFlightSteps \union Ended]
           /\ job' \in [Requests -> Job \union {None}]
           /\ \A q \in Requests : InFlight(q)' <=> job'[q] # None
BY DEF TypeOK, End, InFlight, InFlightSteps, ReadSteps, WriteSteps, Ended

LEMMA AdvanceKeepsType ==
    ASSUME TypeOK, NEW r \in Requests, NEW step \in InFlightSteps, InFlight(r),
           Advance(r, step)
    PROVE  /\ pc' \in [Requests -> {"idle"} \union InFlightSteps \union Ended]
           /\ job' \in [Requests -> Job \union {None}]
           /\ \A q \in Requests : InFlight(q)' <=> job'[q] # None
BY DEF TypeOK, Advance, InFlight

LEMMA StartKeepsType ==
    ASSUME TypeOK, NEW r \in Requests, NEW step \in InFlightSteps, NEW j \in Job,
           Start(r, step, j)
    PROVE  /\ pc' \in [Requests -> {"idle"} \union InFlightSteps \union Ended]
           /\ job' \in [Requests -> Job \union {None}]
           /\ \A q \in Requests : InFlight(q)' <=> job'[q] # None
BY NoneAssumption DEF TypeOK, Start, InFlight

LEMMA CheckKeepsType ==
    ASSUME TypeOK, NEW r \in Requests, NEW step \in InFlightSteps, NEW condition,
           NEW next \in InFlightSteps, Check(r, step, condition, next)
    PROVE  TypeOK'
<1>1. InFlight(r)
    BY DEF Check, InFlight
<1>2. UNCHANGED <<orders, acknowledging, evidence, eligible, escrow, events, onChain, metadata>>
    BY DEF Check, envVars, tableVars
<1>3. CASE condition
    BY <1>1, <1>2, <1>3, AdvanceKeepsType DEF Check, TypeOK
<1>4. CASE ~condition
    BY <1>2, <1>4, EndKeepsType DEF Check, TypeOK, Ended
<1> QED BY <1>3, <1>4

LEMMA CreateKeepsType ==
    ASSUME TypeOK, NEW r \in Requests, NEW actor \in Actors, NEW o \in Orders,
           NEW ref \in References, CreateEscrow(r, actor, o, ref)
    PROVE  TypeOK'
<1> DEFINE j == [ cmd |-> "create", escrow |-> r, outcome |-> "none",
                  row |-> [ order |-> o, ref |-> ref, status |-> "escrowCreated",
                            last |-> None, anchor |-> "none" ] ]
<1>1. j \in Job
    BY DEF Job, Row, EscrowStatuses
<1>2. Start(r, "readBuyer", j)
    BY DEF CreateEscrow
<1>3. "readBuyer" \in InFlightSteps
    BY DEF InFlightSteps, ReadSteps
<1>4. UNCHANGED <<orders, acknowledging, evidence, eligible, escrow, events, onChain, metadata>>
    BY DEF CreateEscrow, envVars, tableVars
<1> HIDE DEF j
<1> QED BY <1>1, <1>2, <1>3, <1>4, StartKeepsType DEF TypeOK

LEMMA TransitionKeepsType ==
    ASSUME TypeOK, NEW r \in Requests, NEW actor \in Actors, NEW c \in Offered,
           NEW x \in Requests, TransitionEscrow(r, actor, c, x)
    PROVE  TypeOK'
<1> DEFINE j == [cmd |-> c, escrow |-> x, row |-> escrow[x], outcome |-> "none"]
           step == IF c \in ReleaseCommands THEN "readOrder" ELSE "recordEvent"
<1>1. j \in Job
  <2>1. c \in Commands
      BY WorkflowAssumption
  <2>2. escrow[x] \in Row
      BY DEF TransitionEscrow, TypeOK
  <2> QED BY <2>1, <2>2 DEF Job
<1>2. Start(r, step, j)
    BY DEF TransitionEscrow
<1>3. step \in InFlightSteps
    BY DEF InFlightSteps, ReadSteps, WriteSteps
<1>4. UNCHANGED <<orders, acknowledging, evidence, eligible, escrow, events, onChain, metadata>>
    BY DEF TransitionEscrow, envVars, tableVars
<1> HIDE DEF j, step
<1> QED BY <1>1, <1>2, <1>3, <1>4, StartKeepsType DEF TypeOK

LEMMA InsertKeepsType ==
    ASSUME TypeOK, NEW r \in Requests, InsertEscrow(r)
    PROVE  TypeOK'
<1>1. InFlight(r)
    BY DEF InsertEscrow, InFlight, InFlightSteps, WriteSteps
<1>2. UNCHANGED <<orders, acknowledging, evidence, eligible, events, onChain, metadata>>
    BY DEF InsertEscrow, envVars
<1>3. CASE IndexAdmits(r, job[r].row)
  <2>1. job[r].row \in Row
      BY <1>1, InFlightHasJob DEF Job
  <2>2. escrow' \in [Requests -> Row \union {None}]
      BY <1>3, <2>1 DEF InsertEscrow, TypeOK
  <2>3. Advance(r, "recordEvent") /\ "recordEvent" \in InFlightSteps
      BY <1>3 DEF InsertEscrow, InFlightSteps, WriteSteps
  <2> QED BY <1>1, <1>2, <2>2, <2>3, AdvanceKeepsType DEF TypeOK
<1>4. CASE ~IndexAdmits(r, job[r].row)
  <2>1. End(r, "failed") /\ "failed" \in Ended /\ UNCHANGED escrow
      BY <1>4 DEF InsertEscrow, Ended
  <2> QED BY <1>2, <2>1, EndKeepsType DEF TypeOK
<1> QED BY <1>3, <1>4

LEMMA EventHasType ==
    ASSUME TypeOK, NEW r \in Requests, InFlight(r)
    PROVE  LifecycleEvent(job[r]) \in Event
<1>1. job[r] \in Job
    BY InFlightHasJob
<1>2. job[r].cmd \in Commands => Target[job[r].cmd] \in EscrowStatuses
    BY CommandTable
<1>3. Correlation(job[r].row) \in Orders \union References
    BY <1>1 DEF Correlation, Job, Row
<1>4. "accepted" \in EscrowStatuses /\ "escrowCreated" \in EscrowStatuses
    BY DEF EscrowStatuses
<1> QED BY <1>1, <1>2, <1>3, <1>4 DEF LifecycleEvent, Event, Job, Row

LEMMA UpdateHasType ==
    ASSUME TypeOK, NEW r \in Requests, InFlight(r)
    PROVE  UpdatedRow(r) \in Row
<1>1. job[r] \in Job
    BY InFlightHasJob
<1>2. job[r].cmd \in Commands => Target[job[r].cmd] \in EscrowStatuses
    BY CommandTable
<1>3. "escrowCreated" \in EscrowStatuses
    BY DEF EscrowStatuses
<1> QED BY <1>1, <1>2, <1>3 DEF UpdatedRow, Job, Row

LEMMA RecordKeepsType ==
    ASSUME TypeOK, NEW r \in Requests, RecordEvent(r)
    PROVE  TypeOK'
<1>1. InFlight(r)
    BY DEF RecordEvent, InFlight, InFlightSteps, WriteSteps
<1>2. UNCHANGED <<orders, acknowledging, evidence, eligible, escrow, onChain, metadata>>
    BY DEF RecordEvent, envVars
<1>3. CASE ChainCheck(LifecycleEvent(job[r]))
  <2>1. events' \in [Requests -> Event \union {None}]
      BY <1>1, <1>3, EventHasType DEF RecordEvent, TypeOK
  <2>2. Advance(r, "anchor") /\ "anchor" \in InFlightSteps
      BY <1>3 DEF RecordEvent, InFlightSteps, WriteSteps
  <2> QED BY <1>1, <1>2, <2>1, <2>2, AdvanceKeepsType DEF TypeOK
<1>4. CASE ~ChainCheck(LifecycleEvent(job[r]))
  <2>1. End(r, "failed") /\ "failed" \in Ended /\ UNCHANGED events
      BY <1>4 DEF RecordEvent, Ended
  <2> QED BY <1>2, <2>1, EndKeepsType DEF TypeOK
<1> QED BY <1>3, <1>4

LEMMA AnchorKeepsType ==
    ASSUME TypeOK, NEW r \in Requests, NEW outcome \in {"anchored", "failed"},
           NEW committed \in BOOLEAN, AnchorEvent(r, outcome, committed)
    PROVE  TypeOK'
<1>1. InFlight(r)
    BY DEF AnchorEvent, InFlight, InFlightSteps, WriteSteps
<1>2. UNCHANGED <<orders, acknowledging, evidence, eligible, escrow, events, metadata>>
    BY DEF AnchorEvent, envVars
<1>3. onChain' \subseteq Requests
    BY DEF AnchorEvent, TypeOK
<1>4. job[r] \in Job
    BY <1>1, InFlightHasJob
<1>5. [job[r] EXCEPT !.outcome = outcome] \in Job
    BY <1>4 DEF Job
<1>6. /\ pc' = [pc EXCEPT ![r] = "saveMetadata"]
      /\ job' = [job EXCEPT ![r] = [job[r] EXCEPT !.outcome = outcome]]
    BY DEF AnchorEvent
<1>7. Start(r, "saveMetadata", [job[r] EXCEPT !.outcome = outcome])
    BY <1>6 DEF Start
<1>8. "saveMetadata" \in InFlightSteps
    BY DEF InFlightSteps, WriteSteps
<1> QED BY <1>2, <1>3, <1>5, <1>7, <1>8, StartKeepsType DEF TypeOK

LEMMA SaveKeepsType ==
    ASSUME TypeOK, NEW r \in Requests, SaveAnchorMetadata(r)
    PROVE  TypeOK'
<1>1. InFlight(r)
    BY DEF SaveAnchorMetadata, InFlight, InFlightSteps, WriteSteps
<1>2. UNCHANGED <<orders, acknowledging, evidence, eligible, escrow, events, onChain>>
    BY DEF SaveAnchorMetadata, envVars
<1>3. metadata' \in [Requests -> {"none", "anchored", "failed"}]
    BY <1>1, InFlightHasJob DEF SaveAnchorMetadata, TypeOK, Job
<1>4. Advance(r, "update") /\ "update" \in InFlightSteps
    BY DEF SaveAnchorMetadata, InFlightSteps, WriteSteps
<1> QED BY <1>1, <1>2, <1>3, <1>4, AdvanceKeepsType DEF TypeOK

LEMMA UpdateKeepsType ==
    ASSUME TypeOK, NEW r \in Requests, UpdateEscrow(r)
    PROVE  TypeOK'
<1>1. InFlight(r)
    BY DEF UpdateEscrow, InFlight, InFlightSteps, WriteSteps
<1>2. UNCHANGED <<orders, acknowledging, evidence, eligible, events, onChain, metadata>>
    BY DEF UpdateEscrow, envVars
<1>3. CASE IndexAdmits(job[r].escrow, UpdatedRow(r))
  <2>1. escrow' \in [Requests -> Row \union {None}]
      BY <1>1, <1>3, UpdateHasType DEF UpdateEscrow, TypeOK
  <2>2. End(r, "done") /\ "done" \in Ended
      BY <1>3 DEF UpdateEscrow, Ended
  <2> QED BY <1>2, <2>1, <2>2, EndKeepsType DEF TypeOK
<1>4. CASE ~IndexAdmits(job[r].escrow, UpdatedRow(r))
  <2>1. End(r, "failed") /\ "failed" \in Ended /\ UNCHANGED escrow
      BY <1>4 DEF UpdateEscrow, Ended
  <2> QED BY <1>2, <2>1, EndKeepsType DEF TypeOK
<1> QED BY <1>3, <1>4

LEMMA QueryFailsKeepsType ==
    ASSUME TypeOK, NEW r \in Requests, QueryFails(r)
    PROVE  TypeOK'
<1>1. End(r, "failed") /\ "failed" \in Ended
    BY DEF QueryFails, Ended
<1>2. UNCHANGED <<orders, acknowledging, evidence, eligible, escrow, events, onChain, metadata>>
    BY DEF QueryFails, envVars, tableVars
<1> QED BY <1>1, <1>2, EndKeepsType DEF TypeOK

LEMMA CrashKeepsType ==
    ASSUME TypeOK, Crash
    PROVE  TypeOK'
BY DEF Crash, TypeOK, InFlight, InFlightSteps, ReadSteps, WriteSteps, Ended, envVars, tableVars

LEMMA EnvironmentKeepsType ==
    ASSUME TypeOK, Environment
    PROVE  TypeOK'
<1>1. ASSUME NEW o \in Orders, NEW answer \in Acknowledgements,
             BeginAcknowledgement(o, answer) \/ SaveAcknowledgement(o, answer)
      PROVE  TypeOK'
    BY <1>1, WorkflowAssumption
    DEF TypeOK, BeginAcknowledgement, SaveAcknowledgement, InFlight, tableVars
<1>2. ASSUME NEW o \in Orders, BeginEvidence(o) \/ SaveEvidence(o)
      PROVE  TypeOK'
    BY <1>2 DEF TypeOK, BeginEvidence, SaveEvidence, InFlight, tableVars
<1>3. ASSUME NEW g \in VolatileOrgs, EligibilityChanges(g)
      PROVE  TypeOK'
    BY <1>3, WorkflowAssumption DEF TypeOK, EligibilityChanges, InFlight, tableVars
<1> QED BY <1>1, <1>2, <1>3 DEF Environment

LEMMA StepKeepsType ==
    ASSUME TypeOK, NEW r \in Requests, Step(r)
    PROVE  TypeOK'
<1> USE DEF InFlightSteps, ReadSteps, WriteSteps
<1>1. CASE ReadOrder(r)
    BY <1>1, CheckKeepsType DEF ReadOrder
<1>2. CASE ReadEvidence(r)
    BY <1>2, CheckKeepsType DEF ReadEvidence
<1>3. CASE ReadBuyerEligibility(r)
    BY <1>3, CheckKeepsType DEF ReadBuyerEligibility
<1>4. CASE ReadSupplierEligibility(r)
    BY <1>4, CheckKeepsType DEF ReadSupplierEligibility
<1>5. CASE FindActiveEscrow(r)
    BY <1>5, CheckKeepsType DEF FindActiveEscrow
<1>6. CASE InsertEscrow(r)
    BY <1>6, InsertKeepsType
<1>7. CASE RecordEvent(r)
    BY <1>7, RecordKeepsType
<1>8. ASSUME NEW outcome \in {"anchored", "failed"}, NEW committed \in BOOLEAN,
             AnchorEvent(r, outcome, committed)
      PROVE  TypeOK'
    BY <1>8, AnchorKeepsType
<1>9. CASE SaveAnchorMetadata(r)
    BY <1>9, SaveKeepsType
<1>10. CASE UpdateEscrow(r)
    BY <1>10, UpdateKeepsType
<1> QED BY <1>1, <1>2, <1>3, <1>4, <1>5, <1>6, <1>7, <1>8, <1>9, <1>10 DEF Step

LEMMA NextKeepsType ==
    ASSUME TypeOK, [Next]_vars
    PROVE  TypeOK'
<1>1. ASSUME NEW r \in Requests, Arrive(r)
      PROVE  TypeOK'
    BY <1>1, CreateKeepsType, TransitionKeepsType DEF Arrive
<1>2. ASSUME NEW r \in Requests, Step(r)
      PROVE  TypeOK'
    BY <1>2, StepKeepsType
<1>3. ASSUME NEW r \in Requests, QueryFails(r)
      PROVE  TypeOK'
    BY <1>3, QueryFailsKeepsType
<1>4. CASE Crash
    BY <1>4, CrashKeepsType
<1>5. CASE Environment
    BY <1>5, EnvironmentKeepsType
<1>6. CASE UNCHANGED vars
    BY <1>6 DEF TypeOK, InFlight, vars, envVars, tableVars
<1> QED BY <1>1, <1>2, <1>3, <1>4, <1>5, <1>6 DEF Next

LEMMA InitHasType == Init => TypeOK
BY NoneAssumption, WorkflowAssumption
DEF Init, TypeOK, InFlight, InFlightSteps, ReadSteps, WriteSteps

\* Every variable keeps its type, and a request carries local state exactly
\* while its handler runs.
THEOREM TypeCorrect == Spec => []TypeOK
<1>1. Init => TypeOK
    BY InitHasType
<1>2. TypeOK /\ [Next]_vars => TypeOK'
    BY NextKeepsType
<1> QED BY <1>1, <1>2, PTL DEF Spec

-----------------------------------------------------------------------------
(* Every step leaves rows, events and finished requests in place, and all  *)
(* of a request other than the one that moves.                             *)

Grows ==
    /\ \A x \in Requests : escrow[x] # None =>
          /\ escrow'[x] # None
          /\ escrow'[x].order = escrow[x].order
          /\ escrow'[x].ref = escrow[x].ref
    /\ \A e \in Requests : events[e] # None => events'[e] = events[e]
    /\ \A r \in Requests : pc[r] = "done" => pc'[r] = "done"

Undisturbed(q) ==
    /\ pc'[q] = pc[q]
    /\ job'[q] = job[q]
    /\ events'[q] = events[q]
    /\ q \in onChain' <=> q \in onChain
    /\ metadata'[q] = metadata[q]
    /\ escrow[q] = None => escrow'[q] = None

RequestOK(r) ==
    /\ InFlight(r) => JobFitsTables(r)
    /\ NothingAhead(r)
    /\ WorkIsThere(r)

LEMMA StandsAtIsKept ==
    ASSUME TypeOK, Grows, NEW x \in Requests, NEW row \in Row, StandsAt(x, row)
    PROVE  /\ row.last = None => row.status = "escrowCreated"
           /\ row.last # None =>
                 /\ events'[row.last] # None
                 /\ events'[row.last].escrow = x
                 /\ events'[row.last].order = row.order
                 /\ events'[row.last].corr = Correlation(row)
                 /\ events'[row.last].to = row.status
<1>1. row.last \in Requests \union {None}
    BY DEF Row
<1> QED BY <1>1 DEF Grows, StandsAt

LEMMA UndisturbedIsKept ==
    ASSUME TypeOK, Grows, NEW q \in Requests, Undisturbed(q), RequestOK(q)
    PROVE  RequestOK(q)'
<1>1. ASSUME InFlight(q)
      PROVE  JobFitsTables(q)'
  <2>1. job[q] \in Job /\ job'[q] = job[q] /\ pc'[q] = pc[q]
      BY <1>1, InFlightHasJob DEF Undisturbed
  <2>2. /\ job[q].row \in Row
        /\ job[q].escrow \in Requests
        /\ job[q].row.last \in Requests \union {None}
      BY <2>1 DEF Job, Row
  <2>3. JobFitsTables(q)
      BY <1>1 DEF RequestOK
  <2>4. StandsAt(job[q].escrow, job[q].row) => StandsAt(job[q].escrow, job[q].row)'
      BY <2>1, <2>2, StandsAtIsKept DEF StandsAt
  <2>5. job[q].row.last # None => pc'[job[q].row.last] = "done"
      BY <2>2, <2>3 DEF JobFitsTables, Grows
  <2> QED BY <2>1, <2>2, <2>3, <2>4, <2>5 DEF JobFitsTables, Grows, Undisturbed
<1>2. InFlight(q)' <=> InFlight(q)
    BY DEF InFlight, Undisturbed
<1>3. NothingAhead(q)'
    BY DEF NothingAhead, Undisturbed, RequestOK
<1>4. WorkIsThere(q)'
    BY DEF WorkIsThere, Undisturbed, RequestOK, LifecycleEvent
<1> QED BY <1>1, <1>2, <1>3, <1>4 DEF RequestOK

\* What the tables alone decide.
TablesOK ==
    /\ AtMostOneActiveEscrow
    /\ RowMatchesEvent
    /\ ChainIsLegal
    /\ AnchorIsProven
    /\ EventsNameEscrows

LEMMA SameTables ==
    ASSUME TablesOK, UNCHANGED tableVars
    PROVE  TablesOK'
BY DEF TablesOK, tableVars, AtMostOneActiveEscrow, RowMatchesEvent, StandsAt, ChainIsLegal,
       LegalEvent, AnchorIsProven, EventsNameEscrows

LEMMA LastStaysDone ==
    ASSUME TypeOK, LastIsDone, Grows, UNCHANGED escrow
    PROVE  LastIsDone'
<1>1. \A x \in Requests : escrow[x] # None => escrow[x].last \in Requests \union {None}
    BY DEF TypeOK, Row
<1> QED BY <1>1 DEF LastIsDone, Grows

LEMMA IInvParts == IInv <=> TypeOK /\ TablesOK /\ LastIsDone /\ \A r \in Requests : RequestOK(r)
BY DEF IInv, TablesOK, RequestInvariant, RequestOK

-----------------------------------------------------------------------------
(* The inductive invariant, one lemma per action.                          *)

LEMMA EndedIsOK ==
    ASSUME NEW r \in Requests, pc'[r] \in Ended
    PROVE  RequestOK(r)'
BY DEF RequestOK, InFlight, NothingAhead, WorkIsThere, InFlightSteps, ReadSteps, WriteSteps, Ended

LEMMA MoveKeepsInvariant ==
    ASSUME IInv, TypeOK', NEW r \in Requests, Grows,
           \A q \in Requests \ {r} : Undisturbed(q),
           RequestOK(r)', TablesOK', LastIsDone'
    PROVE  IInv'
<1>1. ASSUME NEW q \in Requests \ {r}
      PROVE  RequestOK(q)'
    BY UndisturbedIsKept, IInvParts
<1>2. \A q \in Requests : RequestOK(q)'
    BY <1>1
<1> QED BY <1>2 DEF IInv, TablesOK, RequestInvariant, RequestOK

\* A step that leaves the tables alone and moves request r only.
LEMMA QuietMoveKeepsInvariant ==
    ASSUME IInv, TypeOK', NEW r \in Requests, pc[r] # "done",
           pc' = [pc EXCEPT ![r] = pc'[r]], job' = [job EXCEPT ![r] = job'[r]],
           UNCHANGED tableVars, RequestOK(r)'
    PROVE  IInv'
<1>1. Grows
    BY DEF Grows, tableVars, IInv, TypeOK
<1>2. \A q \in Requests \ {r} : Undisturbed(q)
    BY DEF Undisturbed, tableVars, IInv, TypeOK
<1>3. TablesOK'
    BY SameTables, IInvParts
<1>4. LastIsDone'
    BY <1>1, LastStaysDone DEF IInv, tableVars
<1> QED BY <1>1, <1>2, <1>3, <1>4, MoveKeepsInvariant

LEMMA EndKeepsInvariant ==
    ASSUME IInv, TypeOK', NEW r \in Requests, pc[r] # "done", NEW how \in Ended,
           End(r, how), UNCHANGED tableVars
    PROVE  IInv'
<1>1. pc'[r] = how
    BY DEF End, IInv, TypeOK
<1>2. RequestOK(r)'
    BY <1>1, EndedIsOK
<1>3. /\ pc' = [pc EXCEPT ![r] = pc'[r]]
      /\ job' = [job EXCEPT ![r] = job'[r]]
    BY <1>1 DEF End, IInv, TypeOK
<1> QED BY <1>2, <1>3, QuietMoveKeepsInvariant

LEMMA CheckKeepsInvariant ==
    ASSUME IInv, TypeOK', NEW r \in Requests, NEW step \in ReadSteps, NEW condition,
           NEW next \in ReadSteps \union {"insert", "recordEvent"},
           Check(r, step, condition, next),
           job[r].cmd = "create" => next \notin {"readOrder", "readEvidence", "recordEvent"},
           job[r].cmd # "create" => next \notin {"findActive", "insert"}
    PROVE  IInv'
<1> USE DEF InFlightSteps, ReadSteps, WriteSteps
<1>1. pc[r] = step /\ UNCHANGED tableVars
    BY DEF Check
<1>2. CASE ~condition
  <2>1. End(r, "rejected") /\ "rejected" \in Ended /\ pc[r] # "done"
      BY <1>1, <1>2 DEF Check, Ended
  <2> QED BY <1>1, <2>1, EndKeepsInvariant
<1>3. CASE condition
  <2>1. Advance(r, next)
      BY <1>3 DEF Check
  <2>2. /\ pc' = [pc EXCEPT ![r] = pc'[r]] /\ pc'[r] = next
        /\ job' = [job EXCEPT ![r] = job'[r]] /\ job'[r] = job[r]
      BY <2>1 DEF Advance, IInv, TypeOK
  <2>3. InFlight(r) /\ RequestOK(r)
      BY <1>1, IInvParts DEF InFlight
  <2>4. job[r].row.last # None => pc'[job[r].row.last] = "done"
    <3>1. job[r].row.last \in Requests \union {None}
        BY <2>3, InFlightHasJob DEF IInv, Job, Row
    <3> QED BY <1>1, <2>2, <2>3, <3>1 DEF RequestOK, JobFitsTables, IInv, TypeOK
  <2>5. JobFitsTables(r)'
      BY <1>1, <2>2, <2>3, <2>4 DEF RequestOK, JobFitsTables, StandsAt, tableVars
  <2>6. NothingAhead(r)' /\ WorkIsThere(r)'
      BY <1>1, <2>2, <2>3 DEF RequestOK, NothingAhead, WorkIsThere, tableVars
  <2>7. RequestOK(r)' /\ pc[r] # "done"
      BY <1>1, <2>5, <2>6 DEF RequestOK
  <2> QED BY <1>1, <2>2, <2>7, QuietMoveKeepsInvariant
<1> QED BY <1>2, <1>3

LEMMA ReadsKeepInvariant ==
    ASSUME IInv, TypeOK', NEW r \in Requests,
           \/ ReadOrder(r)
           \/ ReadEvidence(r)
           \/ ReadBuyerEligibility(r)
           \/ ReadSupplierEligibility(r)
           \/ FindActiveEscrow(r)
    PROVE  IInv'
<1> USE DEF ReadSteps
<1>1. InFlight(r) => JobFitsTables(r)
    BY IInvParts DEF RequestOK
<1>2. CASE ReadOrder(r)
  <2>1. job[r].cmd # "create"
      BY <1>1, <1>2 DEF ReadOrder, Check, InFlight, InFlightSteps, JobFitsTables
  <2> QED BY <1>2, <2>1, CheckKeepsInvariant DEF ReadOrder
<1>3. CASE ReadEvidence(r)
    BY <1>3, CheckKeepsInvariant DEF ReadEvidence
<1>4. CASE ReadBuyerEligibility(r)
    BY <1>4, CheckKeepsInvariant DEF ReadBuyerEligibility
<1>5. CASE ReadSupplierEligibility(r)
    BY <1>5, CheckKeepsInvariant DEF ReadSupplierEligibility
<1>6. CASE FindActiveEscrow(r)
  <2>1. job[r].cmd = "create"
      BY <1>1, <1>6 DEF FindActiveEscrow, Check, InFlight, InFlightSteps, JobFitsTables
  <2> QED BY <1>6, <2>1, CheckKeepsInvariant DEF FindActiveEscrow
<1> QED BY <1>2, <1>3, <1>4, <1>5, <1>6

LEMMA CreateKeepsInvariant ==
    ASSUME IInv, TypeOK', NEW r \in Requests, NEW actor \in Actors, NEW o \in Orders,
           NEW ref \in References, CreateEscrow(r, actor, o, ref)
    PROVE  IInv'
<1>1. /\ pc[r] = "idle" /\ pc' = [pc EXCEPT ![r] = pc'[r]] /\ pc'[r] = "readBuyer"
      /\ job' = [job EXCEPT ![r] = job'[r]]
      /\ job'[r] = [ cmd |-> "create", escrow |-> r, outcome |-> "none",
                      row |-> [ order |-> o, ref |-> ref, status |-> "escrowCreated",
                                last |-> None, anchor |-> "none" ] ]
      /\ UNCHANGED tableVars
    BY DEF CreateEscrow, NextToArrive, Start, IInv, TypeOK
<1>2. NothingAhead(r)
    BY IInvParts DEF RequestOK
<1>3. metadata[r] = "none"
    BY <1>1, <1>2 DEF NothingAhead
<1>4. RequestOK(r)'
    BY <1>1, <1>2, <1>3
    DEF RequestOK, NothingAhead, WorkIsThere, JobFitsTables, ReadSteps, InFlightSteps, tableVars
<1> QED BY <1>1, <1>4, QuietMoveKeepsInvariant

LEMMA TransitionKeepsInvariant ==
    ASSUME IInv, TypeOK', NEW r \in Requests, NEW actor \in Actors, NEW c \in Offered,
           NEW x \in Requests, TransitionEscrow(r, actor, c, x)
    PROVE  IInv'
<1> DEFINE step == IF c \in ReleaseCommands THEN "readOrder" ELSE "recordEvent"
           j == [cmd |-> c, escrow |-> x, row |-> escrow[x], outcome |-> "none"]
<1>1. /\ pc[r] = "idle" /\ pc' = [pc EXCEPT ![r] = pc'[r]] /\ pc'[r] = step
      /\ job' = [job EXCEPT ![r] = job'[r]] /\ job'[r] = j
      /\ UNCHANGED tableVars
    BY DEF TransitionEscrow, NextToArrive, Start, IInv, TypeOK
<1>2. c # "create"
    BY WorkflowAssumption, Distinct
<1>3. /\ escrow[x] # None
      /\ escrow[x].status \in Sources[c]
      /\ StandsAt(x, escrow[x])
      /\ escrow[x].last # None => pc[escrow[x].last] = "done"
    BY DEF TransitionEscrow, IInv, RowMatchesEvent, LastIsDone
<1>4. escrow[x].last # None => pc'[escrow[x].last] = "done"
  <2>1. escrow[x].last \in Requests \union {None}
      BY <1>3 DEF IInv, TypeOK, Row
  <2> QED BY <1>1, <1>3, <2>1 DEF IInv, TypeOK
<1>5. JobFitsTables(r)'
    BY <1>1, <1>2, <1>3, <1>4 DEF JobFitsTables, StandsAt, tableVars
<1>6. NothingAhead(r)
    BY IInvParts DEF RequestOK
<1>7. NothingAhead(r)' /\ WorkIsThere(r)'
    BY <1>1, <1>6
    DEF NothingAhead, WorkIsThere, ReadSteps, WriteSteps, InFlightSteps, tableVars
<1>8. RequestOK(r)'
    BY <1>5, <1>7 DEF RequestOK
<1> QED BY <1>1, <1>8, QuietMoveKeepsInvariant

LEMMA SaveKeepsInvariant ==
    ASSUME IInv, TypeOK', NEW r \in Requests, SaveAnchorMetadata(r)
    PROVE  IInv'
<1> USE DEF ReadSteps, WriteSteps, InFlightSteps
<1>1. /\ pc[r] = "saveMetadata"
      /\ pc' = [pc EXCEPT ![r] = "update"] /\ job' = job
      /\ metadata' = [metadata EXCEPT ![r] = job[r].outcome]
      /\ escrow' = escrow /\ events' = events /\ onChain' = onChain
    BY DEF SaveAnchorMetadata, Advance
<1>2. /\ Grows
      /\ pc'[r] = "update" /\ metadata'[r] = job[r].outcome
      /\ \A q \in Requests \ {r} : Undisturbed(q)
    BY <1>1 DEF Grows, Undisturbed, IInv, TypeOK
<1>3. RequestOK(r) /\ InFlight(r)
    BY <1>1, IInvParts DEF InFlight
<1>4. job[r].row.last # None => pc'[job[r].row.last] = "done"
  <2>1. job[r].row.last \in Requests \union {None}
      BY <1>3, InFlightHasJob DEF IInv, Job, Row
  <2> QED BY <1>1, <1>3, <2>1 DEF RequestOK, JobFitsTables, IInv, TypeOK
<1>5. JobFitsTables(r)'
    BY <1>1, <1>2, <1>3, <1>4 DEF RequestOK, JobFitsTables, StandsAt
<1>6. NothingAhead(r)' /\ WorkIsThere(r)'
    BY <1>1, <1>2, <1>3 DEF RequestOK, NothingAhead, WorkIsThere, LifecycleEvent
<1>7. RowMatchesEvent'
  <2>1. \A x \in Requests :
           escrow[x] # None /\ escrow[x].last # None =>
               metadata'[escrow[x].last] = metadata[escrow[x].last]
      BY <1>1 DEF IInv, LastIsDone, TypeOK, Row
  <2> QED BY <1>1, <2>1 DEF RowMatchesEvent, StandsAt, IInv
<1>8. AnchorIsProven'
  <2>1. metadata'[r] = "anchored" => r \in onChain
      BY <1>1, <1>2, <1>3 DEF RequestOK, WorkIsThere
  <2> QED BY <1>1, <2>1 DEF AnchorIsProven, IInv, TypeOK
<1>9. TablesOK'
    BY <1>1, <1>7, <1>8 DEF TablesOK, IInv, AtMostOneActiveEscrow, ChainIsLegal, LegalEvent,
                           EventsNameEscrows
<1>10. LastIsDone'
    BY <1>1, <1>2, LastStaysDone DEF IInv
<1>11. RequestOK(r)'
    BY <1>5, <1>6 DEF RequestOK
<1> QED BY <1>2, <1>9, <1>10, <1>11, MoveKeepsInvariant

LEMMA AnchorKeepsInvariant ==
    ASSUME IInv, TypeOK', NEW r \in Requests, NEW outcome \in {"anchored", "failed"},
           NEW committed \in BOOLEAN, AnchorEvent(r, outcome, committed)
    PROVE  IInv'
<1> USE DEF ReadSteps, WriteSteps, InFlightSteps
<1>1. /\ pc[r] = "anchor"
      /\ pc' = [pc EXCEPT ![r] = "saveMetadata"]
      /\ job' = [job EXCEPT ![r] = [job[r] EXCEPT !.outcome = outcome]]
      /\ outcome = "anchored" => r \in onChain'
      /\ onChain \subseteq onChain' /\ onChain' \subseteq onChain \union {r}
      /\ escrow' = escrow /\ events' = events /\ metadata' = metadata
    BY DEF AnchorEvent
<1>2. InFlight(r) /\ RequestOK(r) /\ job[r] \in Job
    BY <1>1, IInvParts, InFlightHasJob DEF InFlight
<1>3. /\ pc'[r] = "saveMetadata"
      /\ job'[r].cmd = job[r].cmd /\ job'[r].escrow = job[r].escrow
      /\ job'[r].row = job[r].row /\ job'[r].outcome = outcome
    BY <1>1, <1>2 DEF IInv, TypeOK, Job
<1>4. /\ Grows
      /\ \A q \in Requests \ {r} : Undisturbed(q)
    BY <1>1 DEF Grows, Undisturbed, IInv, TypeOK
<1>5. job[r].row.last # None => pc'[job[r].row.last] = "done"
  <2>1. job[r].row.last \in Requests \union {None}
      BY <1>2 DEF Job, Row
  <2> QED BY <1>1, <1>2, <2>1 DEF RequestOK, JobFitsTables, IInv, TypeOK
<1>6. JobFitsTables(r)'
    BY <1>1, <1>2, <1>3, <1>5 DEF RequestOK, JobFitsTables, StandsAt
<1>7. events[r] = LifecycleEvent(job[r])
    BY <1>1, <1>2 DEF RequestOK, WorkIsThere
<1>8. NothingAhead(r)' /\ WorkIsThere(r)'
    BY <1>1, <1>2, <1>3, <1>7 DEF RequestOK, NothingAhead, WorkIsThere, LifecycleEvent
<1>9. AnchorIsProven'
  <2>1. events[r] # None
      BY <1>2, <1>7, EventHasType, NoneAssumption DEF IInv
  <2> QED BY <1>1, <2>1 DEF AnchorIsProven, IInv
<1>10. TablesOK'
    BY <1>1, <1>9 DEF TablesOK, IInv, AtMostOneActiveEscrow, RowMatchesEvent, StandsAt,
                      ChainIsLegal, LegalEvent, EventsNameEscrows
<1>11. LastIsDone'
    BY <1>1, <1>4, LastStaysDone DEF IInv
<1>12. RequestOK(r)'
    BY <1>6, <1>8 DEF RequestOK
<1> QED BY <1>4, <1>10, <1>11, <1>12, MoveKeepsInvariant

LEMMA RecordKeepsInvariant ==
    ASSUME IInv, TypeOK', NEW r \in Requests, RecordEvent(r)
    PROVE  IInv'
<1> USE DEF ReadSteps, WriteSteps, InFlightSteps
<1> DEFINE ev == LifecycleEvent(job[r])
<1>1. /\ pc[r] = "recordEvent"
      /\ escrow' = escrow /\ onChain' = onChain /\ metadata' = metadata
    BY DEF RecordEvent
<1>2. InFlight(r) /\ RequestOK(r) /\ job[r] \in Job
    BY <1>1, IInvParts, InFlightHasJob DEF InFlight
<1>3. CASE ~ChainCheck(ev)
  <2>1. /\ End(r, "failed") /\ "failed" \in Ended /\ pc[r] # "done"
        /\ UNCHANGED tableVars
      BY <1>1, <1>3 DEF RecordEvent, Ended, tableVars
  <2> QED BY <2>1, EndKeepsInvariant
<1>4. CASE ChainCheck(ev)
  <2>1. /\ events' = [events EXCEPT ![r] = ev]
        /\ pc' = [pc EXCEPT ![r] = "anchor"]
        /\ job' = job
      BY <1>4 DEF RecordEvent, Advance
  <2>2. events[r] = None /\ r \notin onChain /\ metadata[r] = "none"
      BY <1>1, <1>2 DEF RequestOK, NothingAhead
  <2>3. ev \in Event /\ ev # None
      BY <1>2, EventHasType, NoneAssumption DEF IInv
  <2>4. pc'[r] = "anchor" /\ events'[r] = ev
      BY <2>1 DEF IInv, TypeOK
  <2>5. /\ Grows
        /\ \A q \in Requests \ {r} : Undisturbed(q)
      BY <1>1, <2>1, <2>2 DEF Grows, Undisturbed, IInv, TypeOK
  <2>6. JobFitsTables(r)
      BY <1>2 DEF RequestOK
  <2>7. /\ job[r].row \in Row /\ job[r].row.last \in Requests \union {None}
        /\ job[r].escrow \in Requests
      BY <1>2 DEF Job, Row
  <2>8. job[r].row.last # None => pc'[job[r].row.last] = "done"
      BY <1>1, <2>1, <2>6, <2>7 DEF JobFitsTables, IInv, TypeOK
  <2>9. escrow[job[r].escrow] # None /\ StandsAt(job[r].escrow, job[r].row)
      BY <1>1, <2>6 DEF JobFitsTables
  <2>10. StandsAt(job[r].escrow, job[r].row)'
      BY <2>1, <2>5, <2>7, <2>9, StandsAtIsKept DEF StandsAt, IInv
  <2>11. JobFitsTables(r)'
      BY <1>1, <2>1, <2>4, <2>6, <2>8, <2>9, <2>10 DEF JobFitsTables
  <2>12. NothingAhead(r)' /\ WorkIsThere(r)'
      BY <1>1, <2>1, <2>2, <2>4 DEF NothingAhead, WorkIsThere, LifecycleEvent
  <2>13. RowMatchesEvent'
    <3>1. ASSUME NEW x \in Requests, escrow[x] # None
          PROVE  StandsAt(x, escrow[x])'
      <4>1. escrow[x] \in Row /\ StandsAt(x, escrow[x])
          BY <3>1 DEF IInv, TypeOK, RowMatchesEvent
      <4> QED BY <1>1, <2>5, <4>1, StandsAtIsKept DEF StandsAt, IInv
    <3> QED BY <1>1, <3>1 DEF IInv, RowMatchesEvent
  <2>14. LegalEvent(ev)'
    <3>1. CASE job[r].cmd = "create"
        BY <2>1, <2>6, <3>1 DEF LegalEvent, LifecycleEvent, JobFitsTables
    <3>2. CASE job[r].cmd # "create"
      <4>1. job[r].row.status \in Sources[job[r].cmd]
          BY <2>6, <3>2 DEF JobFitsTables
      <4>2. job[r].row.last # None =>
               /\ events'[job[r].row.last] # None
               /\ events'[job[r].row.last].escrow = job[r].escrow
               /\ events'[job[r].row.last].to = job[r].row.status
          BY <2>1, <2>10 DEF StandsAt
      <4>3. job[r].row.last = None => job[r].row.status = "escrowCreated"
          BY <2>9 DEF StandsAt
      <4> QED BY <2>1, <3>2, <4>1, <4>2, <4>3 DEF LegalEvent, LifecycleEvent
    <3> QED BY <3>1, <3>2
  <2>15. ASSUME NEW e \in Requests, e # r, events[e] # None
         PROVE  LegalEvent(events[e])'
    <3>1. LegalEvent(events[e]) /\ events[e] \in Event /\ events'[e] = events[e]
        BY <2>1, <2>15 DEF IInv, ChainIsLegal, TypeOK
    <3>2. events[e].prev \in Requests \union {None}
        BY <3>1 DEF Event
    <3> QED BY <2>5, <3>1, <3>2 DEF LegalEvent, Grows
  <2>16. ChainIsLegal'
      BY <2>1, <2>4, <2>14, <2>15 DEF ChainIsLegal, IInv, TypeOK, LegalEvent
  <2>17. AnchorIsProven'
      BY <1>1, <2>5 DEF AnchorIsProven, IInv, Grows, TypeOK
  <2>18. EventsNameEscrows'
      BY <1>1, <2>1, <2>4, <2>9 DEF EventsNameEscrows, LifecycleEvent, IInv, TypeOK
  <2>19. TablesOK'
      BY <1>1, <2>13, <2>16, <2>17, <2>18 DEF TablesOK, IInv, AtMostOneActiveEscrow
  <2>20. LastIsDone'
      BY <1>1, <2>5, LastStaysDone DEF IInv
  <2>21. RequestOK(r)'
      BY <2>11, <2>12 DEF RequestOK
  <2> QED BY <2>5, <2>19, <2>20, <2>21, MoveKeepsInvariant
<1> QED BY <1>3, <1>4

LEMMA InsertKeepsInvariant ==
    ASSUME IInv, TypeOK', NEW r \in Requests, InsertEscrow(r)
    PROVE  IInv'
<1> USE DEF ReadSteps, WriteSteps, InFlightSteps
<1> DEFINE row == job[r].row
<1>1. /\ pc[r] = "insert"
      /\ events' = events /\ onChain' = onChain /\ metadata' = metadata
    BY DEF InsertEscrow
<1>2. InFlight(r) /\ RequestOK(r) /\ job[r] \in Job
    BY <1>1, IInvParts, InFlightHasJob DEF InFlight
<1>3. CASE ~IndexAdmits(r, row)
  <2>1. /\ End(r, "failed") /\ "failed" \in Ended /\ pc[r] # "done"
        /\ UNCHANGED tableVars
      BY <1>1, <1>3 DEF InsertEscrow, Ended, tableVars
  <2> QED BY <2>1, EndKeepsInvariant
<1>4. CASE IndexAdmits(r, row)
  <2>1. /\ escrow' = [escrow EXCEPT ![r] = row]
        /\ pc' = [pc EXCEPT ![r] = "recordEvent"]
        /\ job' = job
      BY <1>4 DEF InsertEscrow, Advance
  <2>2. JobFitsTables(r) /\ NothingAhead(r)
      BY <1>2 DEF RequestOK
  <2>3. /\ job[r].cmd = "create" /\ job[r].escrow = r /\ escrow[r] = None
        /\ row.status = "escrowCreated" /\ row.last = None /\ row.anchor = "none"
      BY <1>1, <2>2 DEF JobFitsTables
  <2>4. row \in Row /\ row # None
      BY <1>2, NoneAssumption DEF Job
  <2>5. escrow'[r] = row /\ pc'[r] = "recordEvent"
      BY <2>1 DEF IInv, TypeOK
  <2>6. /\ Grows
        /\ \A q \in Requests \ {r} : Undisturbed(q)
      BY <1>1, <2>1, <2>3 DEF Grows, Undisturbed, IInv, TypeOK
  <2>7. JobFitsTables(r)'
      BY <2>1, <2>3, <2>4, <2>5 DEF JobFitsTables, StandsAt
  <2>8. NothingAhead(r)' /\ WorkIsThere(r)'
      BY <1>1, <2>2, <2>5 DEF NothingAhead, WorkIsThere
  <2>9. \A x \in Requests \ {r} : escrow'[x] = escrow[x]
      BY <2>1 DEF IInv, TypeOK
  <2>10. AtMostOneActiveEscrow'
      BY <1>4, <2>5, <2>9 DEF AtMostOneActiveEscrow, IndexAdmits, UniqueAmong, IInv
  <2>11. RowMatchesEvent'
      BY <1>1, <2>3, <2>5, <2>9 DEF RowMatchesEvent, StandsAt, IInv
  <2>12. ChainIsLegal'
      BY <1>1 DEF ChainIsLegal, LegalEvent, IInv
  <2>13. AnchorIsProven'
      BY <1>1, <2>3, <2>5, <2>9 DEF AnchorIsProven, IInv
  <2>14. EventsNameEscrows'
      BY <1>1, <2>6 DEF EventsNameEscrows, Grows, IInv, TypeOK, Event
  <2>15. LastIsDone'
    <3>1. ASSUME NEW x \in Requests \ {r}, escrow[x] # None, escrow[x].last # None
          PROVE  pc'[escrow[x].last] = "done"
      <4>1. escrow[x].last \in Requests
          BY <3>1 DEF IInv, TypeOK, Row
      <4> QED BY <2>6, <3>1, <4>1 DEF LastIsDone, Grows, IInv
    <3> QED BY <2>3, <2>5, <2>9, <3>1 DEF LastIsDone
  <2>16. RequestOK(r)' /\ TablesOK'
      BY <2>7, <2>8, <2>10, <2>11, <2>12, <2>13, <2>14 DEF RequestOK, TablesOK
  <2> QED BY <2>6, <2>15, <2>16, MoveKeepsInvariant
<1> QED BY <1>3, <1>4

LEMMA UpdateKeepsInvariant ==
    ASSUME IInv, TypeOK', NEW r \in Requests, UpdateEscrow(r)
    PROVE  IInv'
<1> USE DEF ReadSteps, WriteSteps, InFlightSteps
<1> DEFINE k == job[r].escrow
           row == UpdatedRow(r)
<1>1. /\ pc[r] = "update"
      /\ events' = events /\ onChain' = onChain /\ metadata' = metadata
    BY DEF UpdateEscrow
<1>2. InFlight(r) /\ RequestOK(r) /\ job[r] \in Job
    BY <1>1, IInvParts, InFlightHasJob DEF InFlight
<1>3. CASE ~IndexAdmits(k, row)
  <2>1. /\ End(r, "failed") /\ "failed" \in Ended /\ pc[r] # "done"
        /\ UNCHANGED tableVars
      BY <1>1, <1>3 DEF UpdateEscrow, Ended, tableVars
  <2> QED BY <2>1, EndKeepsInvariant
<1>4. CASE IndexAdmits(k, row)
  <2>1. /\ escrow' = [escrow EXCEPT ![k] = row]
        /\ pc' = [pc EXCEPT ![r] = "done"]
        /\ job' = [job EXCEPT ![r] = None]
      BY <1>4 DEF UpdateEscrow, End
  <2>2. JobFitsTables(r) /\ WorkIsThere(r)
      BY <1>2 DEF RequestOK
  <2>3. /\ events[r] = LifecycleEvent(job[r])
        /\ metadata[r] = job[r].outcome
        /\ job[r].outcome = "anchored" => r \in onChain
      BY <1>1, <2>2 DEF WorkIsThere
  <2>4. /\ escrow[k] # None /\ escrow[k].order = job[r].row.order
        /\ escrow[k].ref = job[r].row.ref
      BY <1>1, <2>2 DEF JobFitsTables
  <2>5. /\ row \in Row /\ row # None /\ k \in Requests
        /\ events[r] # None /\ r # None
      BY <1>2, <2>3, UpdateHasType, EventHasType, NoneAssumption DEF Job, IInv
  <2>6. /\ row.order = job[r].row.order /\ row.ref = job[r].row.ref
        /\ row.last = r /\ row.anchor = job[r].outcome
        /\ row.status = events[r].to
      BY <1>2, <2>3 DEF UpdatedRow, LifecycleEvent, Job, Row
  <2>7. escrow'[k] = row /\ pc'[r] = "done"
      BY <2>1, <2>5 DEF IInv, TypeOK
  <2>8. \A x \in Requests \ {k} : escrow'[x] = escrow[x]
      BY <2>1 DEF IInv, TypeOK
  <2>9. Grows
      BY <1>1, <2>1, <2>4, <2>5, <2>6, <2>7, <2>8 DEF Grows, IInv, TypeOK
  <2>10. \A q \in Requests \ {r} : Undisturbed(q)
      BY <1>1, <2>1, <2>4, <2>5, <2>8 DEF Undisturbed, IInv, TypeOK
  <2> HIDE DEF row
  <2>11. AtMostOneActiveEscrow'
      BY <1>4, <2>5, <2>7, <2>8 DEF AtMostOneActiveEscrow, IndexAdmits, UniqueAmong, IInv
  <2>12. StandsAt(k, row)
    <3>1. /\ events[r].escrow = k
          /\ events[r].order = job[r].row.order
          /\ events[r].corr = Correlation(job[r].row)
        BY <2>3 DEF LifecycleEvent
    <3> QED BY <2>5, <2>6, <3>1 DEF StandsAt, Correlation
  <2>13. RowMatchesEvent'
      BY <1>1, <2>3, <2>5, <2>6, <2>7, <2>8, <2>12 DEF RowMatchesEvent, StandsAt, IInv
  <2>14. ChainIsLegal'
      BY <1>1 DEF ChainIsLegal, LegalEvent, IInv
  <2>15. AnchorIsProven'
      BY <1>1, <2>3, <2>6, <2>7, <2>8 DEF AnchorIsProven, IInv
  <2>16. EventsNameEscrows'
      BY <1>1, <2>9 DEF EventsNameEscrows, Grows, IInv, TypeOK, Event
  <2>17. LastIsDone'
    <3>1. ASSUME NEW x \in Requests \ {k}, escrow[x] # None, escrow[x].last # None
          PROVE  pc'[escrow[x].last] = "done"
      <4>1. escrow[x].last \in Requests
          BY <3>1 DEF IInv, TypeOK, Row
      <4> QED BY <2>9, <3>1, <4>1 DEF LastIsDone, Grows, IInv
    <3> QED BY <2>6, <2>7, <2>8, <3>1 DEF LastIsDone
  <2>18. TablesOK'
      BY <2>11, <2>13, <2>14, <2>15, <2>16 DEF TablesOK
  <2>19. RequestOK(r)'
      BY <2>7, EndedIsOK DEF Ended
  <2> QED BY <2>9, <2>10, <2>17, <2>18, <2>19, MoveKeepsInvariant
<1> QED BY <1>3, <1>4

LEMMA CrashKeepsInvariant ==
    ASSUME IInv, TypeOK', Crash
    PROVE  IInv'
<1>1. /\ UNCHANGED tableVars
      /\ \A q \in Requests : InFlight(q) => pc'[q] = "failed"
      /\ \A q \in Requests : ~InFlight(q) => pc'[q] = pc[q]
      /\ \A q \in Requests : job'[q] = None
    BY DEF Crash
<1>2. Grows
    BY <1>1 DEF Grows, tableVars, InFlight, InFlightSteps, ReadSteps, WriteSteps
<1>3. ASSUME NEW q \in Requests
      PROVE  RequestOK(q)'
  <2>1. CASE InFlight(q)
      BY <1>1, <2>1, EndedIsOK DEF Ended
  <2>2. CASE ~InFlight(q)
    <3>1. Undisturbed(q)
        BY <1>1, <2>2 DEF Undisturbed, tableVars, IInv, TypeOK
    <3> QED BY <1>2, <3>1, UndisturbedIsKept, IInvParts
  <2> QED BY <2>1, <2>2
<1>4. TablesOK'
    BY <1>1, SameTables, IInvParts
<1>5. LastIsDone'
    BY <1>1, <1>2, LastStaysDone DEF IInv, tableVars
<1> QED BY <1>3, <1>4, <1>5 DEF IInv, TablesOK, RequestInvariant, RequestOK

\* The invariant does not look at the other modules.
LEMMA OutsideKeepsInvariant ==
    ASSUME IInv, TypeOK', UNCHANGED <<tableVars, pc, job>>
    PROVE  IInv'
<1>1. Grows
    BY DEF Grows, tableVars
<1>2. \A q \in Requests : Undisturbed(q)
    BY DEF Undisturbed, tableVars
<1>3. \A q \in Requests : RequestOK(q)'
    BY <1>1, <1>2, UndisturbedIsKept, IInvParts
<1>4. TablesOK'
    BY SameTables, IInvParts
<1>5. LastIsDone'
    BY <1>1, LastStaysDone DEF IInv, tableVars
<1> QED BY <1>3, <1>4, <1>5 DEF IInv, TablesOK, RequestInvariant, RequestOK

LEMMA NextKeepsInvariant ==
    ASSUME IInv, [Next]_vars
    PROVE  IInv'
<1>0. TypeOK'
    BY NextKeepsType DEF IInv
<1>1. ASSUME NEW r \in Requests, Arrive(r)
      PROVE  IInv'
    BY <1>0, <1>1, CreateKeepsInvariant, TransitionKeepsInvariant DEF Arrive
<1>2. ASSUME NEW r \in Requests, Step(r)
      PROVE  IInv'
    BY <1>0, <1>2, ReadsKeepInvariant, InsertKeepsInvariant, RecordKeepsInvariant,
       AnchorKeepsInvariant, SaveKeepsInvariant, UpdateKeepsInvariant DEF Step
<1>3. ASSUME NEW r \in Requests, QueryFails(r)
      PROVE  IInv'
  <2>1. End(r, "failed") /\ "failed" \in Ended /\ pc[r] # "done" /\ UNCHANGED tableVars
      BY <1>3 DEF QueryFails, Ended, InFlight, InFlightSteps, ReadSteps, WriteSteps, tableVars
  <2> QED BY <1>0, <2>1, EndKeepsInvariant
<1>4. CASE Crash
    BY <1>0, <1>4, CrashKeepsInvariant
<1>5. CASE Environment
  <2>1. UNCHANGED <<tableVars, pc, job>>
      BY <1>5 DEF Environment, BeginAcknowledgement, SaveAcknowledgement, BeginEvidence,
                  SaveEvidence, EligibilityChanges
  <2> QED BY <1>0, <2>1, OutsideKeepsInvariant
<1>6. CASE UNCHANGED vars
  <2>1. UNCHANGED <<tableVars, pc, job>>
      BY <1>6 DEF vars
  <2> QED BY <1>0, <2>1, OutsideKeepsInvariant
<1> QED BY <1>1, <1>2, <1>3, <1>4, <1>5, <1>6 DEF Next

LEMMA InitHasInvariant == Init => IInv
<1> SUFFICES ASSUME Init PROVE IInv
    OBVIOUS
<1>1. TypeOK
    BY InitHasType
<1>2. TablesOK /\ LastIsDone
    BY DEF Init, TablesOK, AtMostOneActiveEscrow, RowMatchesEvent, ChainIsLegal, AnchorIsProven,
           EventsNameEscrows, LastIsDone
<1>3. \A r \in Requests : RequestOK(r)
    BY DEF Init, RequestOK, InFlight, NothingAhead, WorkIsThere, InFlightSteps, ReadSteps,
           WriteSteps
<1> QED BY <1>1, <1>2, <1>3, IInvParts

\* Rows, trails, anchors and the work of the requests in flight stay in step.
THEOREM InvariantHolds == Spec => []IInv
<1>1. Init => IInv
    BY InitHasInvariant
<1>2. IInv /\ [Next]_vars => IInv'
    BY NextKeepsInvariant
<1> QED BY <1>1, <1>2, PTL DEF Spec

\* An order never has two active escrows, in any interleaving of creations,
\* transitions, failures and crashes.
THEOREM OneActiveEscrow == Spec => []AtMostOneActiveEscrow
<1>1. IInv => AtMostOneActiveEscrow
    BY DEF IInv
<1> QED BY <1>1, InvariantHolds, PTL

\* Status, event hash and anchor status of a row are always of one event.
THEOREM RowsAreConsistent == Spec => []RowMatchesEvent
<1>1. IInv => RowMatchesEvent
    BY DEF IInv
<1> QED BY <1>1, InvariantHolds, PTL

\* Whatever snapshot an event is built from, it legally continues the event
\* its previous hash names.
THEOREM TrailIsLegal == Spec => []ChainIsLegal
<1>1. IInv => ChainIsLegal
    BY DEF IInv
<1> QED BY <1>1, InvariantHolds, PTL

\* No anchor status claims more than the ledger holds.
THEOREM AnchorsAreProven == Spec => []AnchorIsProven
<1>1. IInv => AnchorIsProven
    BY DEF IInv
<1> QED BY <1>1, InvariantHolds, PTL

\* The chain check of the event repository never turns a transition away.
THEOREM NoEventIsRefused == Spec => []ChainCheckAccepts
<1>1. ASSUME IInv PROVE ChainCheckAccepts
  <2> SUFFICES ASSUME NEW r \in Requests, pc[r] = "recordEvent"
               PROVE  ChainCheck(LifecycleEvent(job[r]))
      BY DEF ChainCheckAccepts
  <2>1. RequestOK(r) /\ InFlight(r)
      BY <1>1, IInvParts DEF InFlight, InFlightSteps, WriteSteps
  <2>2. StandsAt(job[r].escrow, job[r].row)
      BY <2>1 DEF RequestOK, JobFitsTables, ReadSteps
  <2> QED BY <2>2 DEF StandsAt, ChainCheck, LifecycleEvent
<1> QED BY <1>1, InvariantHolds, PTL

-----------------------------------------------------------------------------
(* The detailed workflow implements EscrowHistory: an INSERT opens an      *)
(* escrow, recording appends an event, a row update makes the escrow stand *)
(* at one, and every other step stutters.                                  *)

LEMMA HeadIsRecord ==
    ASSUME TypeOK, NEW x \in Requests
    PROVE  /\ Heads[x] = None <=> escrow[x] = None
           /\ escrow[x] # None =>
                /\ Heads[x].order = escrow[x].order
                /\ Heads[x].status = escrow[x].status
<1>1. CASE escrow[x] = None
    BY <1>1 DEF Heads
<1>2. CASE escrow[x] # None
  <2>1. escrow[x] \in Row
      BY <1>2 DEF TypeOK
  <2>2. [ order |-> escrow[x].order, status |-> escrow[x].status, last |-> escrow[x].last ]
            \in HeadRow
      BY <2>1 DEF Row, HeadRow
  <2> QED BY <1>2, <2>2, NoneAssumption DEF Heads
<1> QED BY <1>1, <1>2

LEMMA LogIsRecord ==
    ASSUME TypeOK, NEW e \in Requests
    PROVE  /\ EventLog[e] = None <=> events[e] = None
           /\ events[e] # None =>
                /\ EventLog[e].escrow = events[e].escrow
                /\ EventLog[e].cmd = events[e].cmd
                /\ EventLog[e].prev = events[e].prev
                /\ EventLog[e].from = events[e].from
                /\ EventLog[e].to = events[e].to
<1>1. CASE events[e] = None
    BY <1>1 DEF EventLog
<1>2. CASE events[e] # None
  <2>1. events[e] \in Event
      BY <1>2 DEF TypeOK
  <2>2. [ escrow |-> events[e].escrow, cmd |-> events[e].cmd, prev |-> events[e].prev,
          from |-> events[e].from, to |-> events[e].to ] \in TrailEvent
      BY <2>1 DEF Event, TrailEvent
  <2> QED BY <1>2, <2>2, NoneAssumption DEF EventLog
<1> QED BY <1>1, <1>2

LEMMA IndexIsNoOtherActive ==
    ASSUME TypeOK, NEW x \in Requests, NEW row \in Row, IndexAdmits(x, row),
           row.status \in ActiveEscrowStatuses
    PROVE  History!NoOtherActive(x, row.order)
<1>1. ASSUME NEW y \in Requests \ {x}, Heads[y] # None, Heads[y].order = row.order
      PROVE  Heads[y].status \notin ActiveEscrowStatuses
  <2>1. /\ escrow[y] # None
        /\ Heads[y].order = escrow[y].order
        /\ Heads[y].status = escrow[y].status
      BY <1>1, HeadIsRecord
  <2> QED BY <1>1, <2>1 DEF IndexAdmits, UniqueAmong
<1> QED BY <1>1 DEF History!NoOtherActive, History!ActiveEscrowStatuses,
            History!EscrowStatuses, ActiveEscrowStatuses, EscrowStatuses

LEMMA InsertOpens ==
    ASSUME IInv, TypeOK', NEW r \in Requests, InsertEscrow(r)
    PROVE  History!HistoryNext \/ UNCHANGED <<EventLog, Heads>>
<1> DEFINE row == job[r].row
<1>1. CASE ~IndexAdmits(r, row)
    BY <1>1 DEF InsertEscrow, EventLog, Heads
<1>2. CASE IndexAdmits(r, row)
  <2>1. InFlight(r) /\ pc[r] = "insert"
      BY DEF InsertEscrow, InFlight, InFlightSteps, WriteSteps
  <2>2. JobFitsTables(r) /\ job[r] \in Job
      BY <2>1, IInvParts, InFlightHasJob DEF RequestOK, IInv
  <2>3. /\ escrow[r] = None /\ row.status = "escrowCreated" /\ row.last = None
        /\ row \in Row /\ row.order \in Orders /\ row # None
      BY <2>1, <2>2, NoneAssumption DEF JobFitsTables, Job, Row
  <2>4. escrow' = [escrow EXCEPT ![r] = row] /\ events' = events
      BY <1>2 DEF InsertEscrow
  <2>5. Heads' = [Heads EXCEPT ![r] = [ order |-> row.order, status |-> "escrowCreated",
                                        last |-> None ]]
      BY <2>3, <2>4 DEF Heads, IInv, TypeOK
  <2>6. EventLog' = EventLog
      BY <2>4 DEF EventLog
  <2>7. Heads[r] = None
      BY <2>3, HeadIsRecord DEF IInv
  <2>8. History!NoOtherActive(r, row.order)
      BY <1>2, <2>3, IndexIsNoOtherActive
      DEF ActiveEscrowStatuses, EscrowStatuses, IInv
  <2>9. History!Open(r, row.order)
      BY <2>5, <2>6, <2>7, <2>8 DEF History!Open
  <2> QED BY <2>3, <2>9 DEF History!HistoryNext
<1> QED BY <1>1, <1>2

LEMMA RecordAppends ==
    ASSUME IInv, IInv', NEW r \in Requests, RecordEvent(r)
    PROVE  History!HistoryNext \/ UNCHANGED <<EventLog, Heads>>
<1> DEFINE ev == LifecycleEvent(job[r])
<1>1. CASE ~ChainCheck(ev)
    BY <1>1 DEF RecordEvent, EventLog, Heads
<1>2. CASE ChainCheck(ev)
  <2>1. InFlight(r) /\ pc[r] = "recordEvent"
      BY DEF RecordEvent, InFlight, InFlightSteps, WriteSteps
  <2>2. events' = [events EXCEPT ![r] = ev] /\ escrow' = escrow
      BY <1>2 DEF RecordEvent
  <2>3. events[r] = None
      BY <2>1, IInvParts DEF RequestOK, NothingAhead
  <2>4. ev \in Event /\ ev # None
      BY <2>1, EventHasType, NoneAssumption DEF IInv
  <2>5. events'[r] = ev
      BY <2>2 DEF IInv, TypeOK
  <2>6. Heads' = Heads
      BY <2>2 DEF Heads
  <2>7. ev.escrow \in Requests /\ ev.cmd \in Commands \union {"create"}
        /\ ev.prev \in Requests \union {None}
      BY <2>4 DEF Event
  <2>8. LegalEvent(ev)
    <3>1. LegalEvent(events[r])'
        BY <2>4, <2>5 DEF IInv, ChainIsLegal
    <3>2. ev.prev # None => events'[ev.prev] = events[ev.prev]
        BY <1>2, <2>2, <2>3, <2>7 DEF ChainCheck, IInv, TypeOK
    <3> QED BY <2>5, <3>1, <3>2 DEF LegalEvent
  <2>9. EventLog[r] = None
      BY <2>3, LogIsRecord DEF IInv
  <2>10. Heads[ev.escrow] # None
    <3>1. escrow[ev.escrow] # None
        BY <2>2, <2>4, <2>5 DEF IInv, EventsNameEscrows
    <3> QED BY <2>7, <3>1, HeadIsRecord DEF IInv
  <2>11. ev.prev # None =>
            /\ events[ev.prev] # None
            /\ EventLog[ev.prev] # None
            /\ EventLog[ev.prev].escrow = events[ev.prev].escrow
            /\ EventLog[ev.prev].to = events[ev.prev].to
      BY <1>2, <2>7, LogIsRecord DEF ChainCheck, IInv
  <2>12. ev.from = History!From(ev.cmd, ev.prev)
      BY <2>8, <2>11 DEF LegalEvent, History!From, LifecycleEvent
  <2>13. History!Sources = Sources /\ History!Target = Target
         /\ History!Commands = Commands
      BY DEF Commands, Sources, Target, Holdable, AwaitingRelease, PausedStatuses,
             History!Commands, History!Sources, History!Target, History!Holdable,
             History!AwaitingRelease, History!PausedStatuses
  <2>14. /\ History!Continues(ev.cmd, ev.prev)
         /\ ev.prev \in History!TrailOf(ev.escrow) \union {None}
      BY <2>7, <2>8, <2>11, <2>12, <2>13 DEF LegalEvent, History!Continues, History!TrailOf
  <2>15. EventLog' = [EventLog EXCEPT ![r] = History!Entry(ev.cmd, ev.escrow, ev.prev)]
    <3>1. History!Entry(ev.cmd, ev.escrow, ev.prev)
            = [ escrow |-> ev.escrow, cmd |-> ev.cmd, prev |-> ev.prev, from |-> ev.from,
                to |-> ev.to ]
        BY <2>8, <2>12, <2>13 DEF LegalEvent, History!Entry
    <3> QED BY <2>2, <2>4, <2>5, <3>1 DEF EventLog, IInv, TypeOK
  <2>16. History!Append(r, ev.escrow)
      BY <2>6, <2>7, <2>9, <2>10, <2>13, <2>14, <2>15 DEF History!Append
  <2> QED BY <2>7, <2>16 DEF History!HistoryNext
<1> QED BY <1>1, <1>2

LEMMA UpdateStands ==
    ASSUME IInv, TypeOK', NEW r \in Requests, UpdateEscrow(r)
    PROVE  History!HistoryNext \/ UNCHANGED <<EventLog, Heads>>
<1> DEFINE k == job[r].escrow
           row == UpdatedRow(r)
<1>1. CASE ~IndexAdmits(k, row)
    BY <1>1 DEF UpdateEscrow, EventLog, Heads
<1>2. CASE IndexAdmits(k, row)
  <2>1. InFlight(r) /\ pc[r] = "update"
      BY DEF UpdateEscrow, InFlight, InFlightSteps, WriteSteps
  <2>2. JobFitsTables(r) /\ WorkIsThere(r) /\ job[r] \in Job
      BY <2>1, IInvParts, InFlightHasJob DEF RequestOK, IInv
  <2>3. /\ escrow[k] # None /\ escrow[k].order = job[r].row.order
        /\ events[r] = LifecycleEvent(job[r]) /\ k \in Requests
      BY <2>1, <2>2 DEF JobFitsTables, WorkIsThere, Job, ReadSteps
  <2>4. /\ row \in Row /\ row # None /\ row.order = escrow[k].order
        /\ row.last = r /\ row.status = events[r].to
        /\ events[r] # None /\ events[r].escrow = k
    <3>1. row \in Row /\ events[r] \in Event
        BY <2>1, <2>3, UpdateHasType, EventHasType DEF IInv
    <3>2. row.order = job[r].row.order /\ row.last = r
        BY <2>2 DEF UpdatedRow, Job, Row
    <3>3. row.status = events[r].to /\ events[r].escrow = k
        BY <2>2, <2>3 DEF UpdatedRow, LifecycleEvent, Job, Row
    <3> QED BY <2>3, <3>1, <3>2, <3>3, NoneAssumption
  <2>5. escrow' = [escrow EXCEPT ![k] = row] /\ events' = events
      BY <1>2 DEF UpdateEscrow
  <2> HIDE DEF row
  <2>6. /\ Heads[k] # None /\ Heads[k].order = escrow[k].order
        /\ EventLog[r] # None /\ EventLog[r].escrow = k /\ EventLog[r].to = events[r].to
      BY <2>3, <2>4, HeadIsRecord, LogIsRecord DEF IInv
  <2>7. Heads' = [Heads EXCEPT ![k] = [ order |-> row.order, status |-> row.status,
                                        last |-> row.last ]]
      BY <2>3, <2>4, <2>5 DEF Heads, IInv, TypeOK
  <2>8. EventLog' = EventLog
      BY <2>5 DEF EventLog
  <2>9. row.status \in ActiveEscrowStatuses => History!NoOtherActive(k, row.order)
      BY <1>2, <2>3, <2>4, IndexIsNoOtherActive DEF IInv
  <2>10. History!ActiveEscrowStatuses = ActiveEscrowStatuses
      BY DEF History!ActiveEscrowStatuses, History!EscrowStatuses, ActiveEscrowStatuses,
             EscrowStatuses
  <2>11. History!StandAt(k, r)
      BY <2>4, <2>6, <2>7, <2>8, <2>9, <2>10 DEF History!StandAt
  <2> QED BY <2>3, <2>11 DEF History!HistoryNext
<1> QED BY <1>1, <1>2

LEMMA StepImplementsHistory ==
    ASSUME IInv, IInv', [Next]_vars
    PROVE  History!HistoryNext \/ UNCHANGED <<EventLog, Heads>>
<1>0. TypeOK'
    BY DEF IInv
<1>1. CASE UNCHANGED <<escrow, events>>
    BY <1>1 DEF EventLog, Heads
<1>2. ASSUME NEW r \in Requests, InsertEscrow(r)
      PROVE  History!HistoryNext \/ UNCHANGED <<EventLog, Heads>>
    BY <1>0, <1>2, InsertOpens
<1>3. ASSUME NEW r \in Requests, RecordEvent(r)
      PROVE  History!HistoryNext \/ UNCHANGED <<EventLog, Heads>>
    BY <1>3, RecordAppends
<1>4. ASSUME NEW r \in Requests, UpdateEscrow(r)
      PROVE  History!HistoryNext \/ UNCHANGED <<EventLog, Heads>>
    BY <1>0, <1>4, UpdateStands
<1>5. ASSUME NEW r \in Requests, Arrive(r) \/ Step(r) \/ QueryFails(r),
             ~InsertEscrow(r), ~RecordEvent(r), ~UpdateEscrow(r)
      PROVE  UNCHANGED <<escrow, events>>
  <2>1. CASE Arrive(r)
      BY <2>1 DEF Arrive, CreateEscrow, TransitionEscrow, tableVars
  <2>2. CASE Step(r)
      BY <1>5, <2>2 DEF Step, ReadOrder, ReadEvidence, ReadBuyerEligibility,
         ReadSupplierEligibility, FindActiveEscrow, Check, AnchorEvent, SaveAnchorMetadata,
         tableVars
  <2>3. CASE QueryFails(r)
      BY <2>3 DEF QueryFails, tableVars
  <2> QED BY <1>5, <2>1, <2>2, <2>3
<1>6. CASE Crash \/ Environment \/ UNCHANGED vars
    BY <1>1, <1>6 DEF Crash, Environment, BeginAcknowledgement, SaveAcknowledgement,
       BeginEvidence, SaveEvidence, EligibilityChanges, vars, tableVars
<1> QED BY <1>1, <1>2, <1>3, <1>4, <1>5, <1>6 DEF Next

\* The handlers, whatever their interleaving and whatever fails, implement the
\* audit trail that EscrowHistory promises.
THEOREM WorkflowImplementsHistory == Spec => ImplementsHistory
<1>1. Init => History!HistoryInit
    BY DEF Init, History!HistoryInit, EventLog, Heads
<1>2. IInv /\ IInv' /\ [Next]_vars => [History!HistoryNext]_<<EventLog, Heads>>
    BY StepImplementsHistory
<1>3. History!HistorySpec <=>
        History!HistoryInit /\ [][History!HistoryNext]_<<EventLog, Heads>>
    BY DEF History!HistorySpec, History!historyVars
<1> QED BY <1>1, <1>2, <1>3, InvariantHolds, PTL DEF Spec, ImplementsHistory

-----------------------------------------------------------------------------
(* What is behind a settlement: the evidence an approval has read is never *)
(* taken back, and the trail leads to the approval through the statuses    *)
(* its commands start from.                                                *)

\* The evidence is still there while an approval that has found it goes on ...
ApprovalChecked(r) ==
    pc[r] \in {"readBuyer", "readSupplier", "recordEvent"} /\ job[r].cmd = "approveRelease"
        => evidence[job[r].row.order] = "recorded"

\* ... and after it has recorded its event.
ApprovalsHaveEvidence ==
    \A e \in Requests : events[e] # None /\ events[e].cmd = "approveRelease"
        => evidence[events[e].order] = "recorded"

EvidenceFits == ApprovalsHaveEvidence /\ \A r \in Requests : ApprovalChecked(r)

EvidenceKept == \A o \in Orders : evidence[o] = "recorded" => evidence'[o] = "recorded"

LEMMA EvidenceStays ==
    ASSUME TypeOK, [Next]_vars
    PROVE  EvidenceKept
<1>1. CASE UNCHANGED evidence
    BY <1>1 DEF EvidenceKept
<1>2. ASSUME NEW o \in Orders, BeginEvidence(o) \/ SaveEvidence(o)
      PROVE  EvidenceKept
    BY <1>2 DEF EvidenceKept, BeginEvidence, SaveEvidence, TypeOK
<1>3. ASSUME NEW r \in Requests, Arrive(r) \/ Step(r) \/ QueryFails(r)
      PROVE  UNCHANGED evidence
  <2>1. CASE Arrive(r)
      BY <2>1 DEF Arrive, CreateEscrow, TransitionEscrow, envVars
  <2>2. CASE Step(r)
      BY <2>2 DEF Step, ReadOrder, ReadEvidence, ReadBuyerEligibility, ReadSupplierEligibility,
                  FindActiveEscrow, Check, InsertEscrow, RecordEvent, AnchorEvent,
                  SaveAnchorMetadata, UpdateEscrow, envVars
  <2>3. CASE QueryFails(r)
      BY <2>3 DEF QueryFails, envVars
  <2> QED BY <1>3, <2>1, <2>2, <2>3
<1>4. CASE Crash \/ UNCHANGED vars
    BY <1>1, <1>4 DEF Crash, vars, envVars
<1>5. CASE Environment
    BY <1>1, <1>2, <1>5 DEF Environment, BeginAcknowledgement, SaveAcknowledgement,
                            EligibilityChanges
<1> QED BY <1>1, <1>3, <1>4, <1>5 DEF Next

\* A request moves without recording an event.
LEMMA MoveKeepsEvidence ==
    ASSUME TypeOK, EvidenceFits, EvidenceKept, NEW r \in Requests, UNCHANGED events,
           \A q \in Requests \ {r} : pc'[q] = pc[q] /\ job'[q] = job[q],
           ApprovalChecked(r)'
    PROVE  EvidenceFits'
<1>1. ApprovalsHaveEvidence'
  <2>1. \A e \in Requests : events[e] # None => events[e].order \in Orders
      BY DEF TypeOK, Event
  <2> QED BY <2>1 DEF EvidenceFits, ApprovalsHaveEvidence, EvidenceKept
<1>2. ASSUME NEW q \in Requests \ {r}
      PROVE  ApprovalChecked(q)'
  <2>1. CASE pc[q] \in {"readBuyer", "readSupplier", "recordEvent"}
    <3>1. InFlight(q)
        BY <2>1 DEF InFlight, InFlightSteps, ReadSteps, WriteSteps
    <3>2. job[q].row.order \in Orders
        BY <3>1, InFlightHasJob DEF Job, Row
    <3> QED BY <3>2 DEF EvidenceFits, ApprovalChecked, EvidenceKept
  <2>2. CASE pc[q] \notin {"readBuyer", "readSupplier", "recordEvent"}
      BY <2>2 DEF ApprovalChecked
  <2> QED BY <2>1, <2>2
<1> QED BY <1>1, <1>2 DEF EvidenceFits

LEMMA StepKeepsEvidence ==
    ASSUME IInv, EvidenceFits, EvidenceKept, NEW r \in Requests, Step(r)
    PROVE  EvidenceFits'
<1>1. TypeOK /\ ApprovalChecked(r)
    BY DEF IInv, EvidenceFits
<1>2. CASE ReadOrder(r) \/ FindActiveEscrow(r) \/ SaveAnchorMetadata(r) \/ UpdateEscrow(r)
  <2>1. /\ UNCHANGED events
        /\ pc'[r] \notin {"readBuyer", "readSupplier", "recordEvent"}
        /\ \A q \in Requests \ {r} : pc'[q] = pc[q] /\ job'[q] = job[q]
      BY <1>1, <1>2 DEF ReadOrder, FindActiveEscrow, SaveAnchorMetadata, UpdateEscrow, Check,
                        Advance, End, TypeOK, tableVars
  <2> QED BY <1>1, <2>1, MoveKeepsEvidence DEF ApprovalChecked
<1>3. ASSUME NEW outcome \in {"anchored", "failed"}, NEW committed \in BOOLEAN,
             AnchorEvent(r, outcome, committed)
      PROVE  EvidenceFits'
  <2>1. /\ UNCHANGED events
        /\ pc'[r] \notin {"readBuyer", "readSupplier", "recordEvent"}
        /\ \A q \in Requests \ {r} : pc'[q] = pc[q] /\ job'[q] = job[q]
      BY <1>1, <1>3 DEF AnchorEvent, TypeOK
  <2> QED BY <1>1, <2>1, MoveKeepsEvidence DEF ApprovalChecked
<1>4. CASE ReadEvidence(r) \/ ReadBuyerEligibility(r) \/ ReadSupplierEligibility(r)
  <2>1. /\ UNCHANGED <<events, evidence>>
        /\ \A q \in Requests \ {r} : pc'[q] = pc[q] /\ job'[q] = job[q]
        /\ \/ pc'[r] = "rejected"
           \/ job'[r] = job[r] /\ evidence[job[r].row.order] = "recorded"
           \/ job'[r] = job[r] /\ pc[r] \in {"readBuyer", "readSupplier"}
      BY <1>1, <1>4 DEF ReadEvidence, ReadBuyerEligibility, ReadSupplierEligibility, Check,
                        Advance, End, TypeOK, envVars, tableVars
  <2>2. ApprovalChecked(r)'
      BY <1>1, <2>1 DEF ApprovalChecked
  <2> QED BY <1>1, <2>1, <2>2, MoveKeepsEvidence
<1>5. CASE InsertEscrow(r)
  <2>1. /\ UNCHANGED events
        /\ \A q \in Requests \ {r} : pc'[q] = pc[q] /\ job'[q] = job[q]
        /\ pc'[r] = "failed" \/ job'[r] = job[r]
      BY <1>1, <1>5 DEF InsertEscrow, Advance, End, TypeOK
  <2>2. job[r].cmd = "create"
    <3>1. InFlight(r) /\ pc[r] = "insert"
        BY <1>5 DEF InsertEscrow, InFlight, InFlightSteps, WriteSteps
    <3> QED BY <3>1 DEF IInv, RequestInvariant, JobFitsTables
  <2> QED BY <1>1, <2>1, <2>2, MoveKeepsEvidence DEF ApprovalChecked
<1>6. CASE RecordEvent(r)
  <2>1. /\ pc'[r] \notin {"readBuyer", "readSupplier", "recordEvent"}
        /\ \A q \in Requests \ {r} : pc'[q] = pc[q] /\ job'[q] = job[q]
        /\ pc[r] = "recordEvent" /\ evidence' = evidence
      BY <1>1, <1>6 DEF RecordEvent, Advance, End, TypeOK, envVars
  <2>2. \A q \in Requests : ApprovalChecked(q)'
      BY <2>1 DEF EvidenceFits, ApprovalChecked
  <2>3. ASSUME NEW e \in Requests, events'[e] # None, events'[e].cmd = "approveRelease"
        PROVE  evidence'[events'[e].order] = "recorded"
    <3>1. CASE events'[e] = events[e]
        BY <2>1, <2>3, <3>1 DEF EvidenceFits, ApprovalsHaveEvidence
    <3>2. CASE events'[e] # events[e]
      <4>1. e = r /\ events'[e] = LifecycleEvent(job[r])
          BY <1>1, <1>6, <3>2 DEF RecordEvent, TypeOK
      <4>2. job[r].cmd = "approveRelease" /\ events'[e].order = job[r].row.order
          BY <2>3, <4>1 DEF LifecycleEvent
      <4> QED BY <1>1, <2>1, <4>2 DEF ApprovalChecked
    <3> QED BY <3>1, <3>2
  <2> QED BY <2>2, <2>3 DEF EvidenceFits, ApprovalsHaveEvidence
<1> QED BY <1>2, <1>3, <1>4, <1>5, <1>6 DEF Step

LEMMA ArrivalKeepsEvidence ==
    ASSUME IInv, EvidenceFits, EvidenceKept, NEW r \in Requests, Arrive(r)
    PROVE  EvidenceFits'
<1>1. TypeOK
    BY DEF IInv
<1>2. ASSUME NEW actor \in Actors, NEW o \in Orders, NEW ref \in References,
             CreateEscrow(r, actor, o, ref)
      PROVE  EvidenceFits'
  <2>1. /\ UNCHANGED events /\ job'[r].cmd = "create"
        /\ \A q \in Requests \ {r} : pc'[q] = pc[q] /\ job'[q] = job[q]
      BY <1>1, <1>2 DEF CreateEscrow, Start, TypeOK, tableVars
  <2> QED BY <1>1, <2>1, MoveKeepsEvidence DEF ApprovalChecked
<1>3. ASSUME NEW actor \in Actors, NEW c \in Offered, NEW x \in Requests,
             TransitionEscrow(r, actor, c, x)
      PROVE  EvidenceFits'
  <2>1. /\ UNCHANGED events /\ job'[r].cmd = c
        /\ c \in ReleaseCommands => pc'[r] = "readOrder"
        /\ \A q \in Requests \ {r} : pc'[q] = pc[q] /\ job'[q] = job[q]
      BY <1>1, <1>3 DEF TransitionEscrow, Start, TypeOK, tableVars
  <2>2. ApprovalChecked(r)'
      BY <2>1 DEF ApprovalChecked, ReleaseCommands
  <2> QED BY <1>1, <2>1, <2>2, MoveKeepsEvidence
<1> QED BY <1>2, <1>3 DEF Arrive

LEMMA NextKeepsEvidence ==
    ASSUME IInv, EvidenceFits, [Next]_vars
    PROVE  EvidenceFits'
<1>1. TypeOK /\ EvidenceKept
    BY EvidenceStays DEF IInv
<1>2. ASSUME NEW r \in Requests, Arrive(r) \/ Step(r)
      PROVE  EvidenceFits'
    BY <1>1, <1>2, StepKeepsEvidence, ArrivalKeepsEvidence
<1>3. ASSUME NEW r \in Requests, QueryFails(r)
      PROVE  EvidenceFits'
  <2>1. /\ UNCHANGED events /\ pc'[r] = "failed"
        /\ \A q \in Requests \ {r} : pc'[q] = pc[q] /\ job'[q] = job[q]
      BY <1>1, <1>3 DEF QueryFails, End, TypeOK, tableVars
  <2> QED BY <1>1, <2>1, MoveKeepsEvidence DEF ApprovalChecked
<1>4. \A e \in Requests : events[e] # None => events[e].order \in Orders
    BY <1>1 DEF TypeOK, Event
<1>5. CASE Crash
  <2>1. UNCHANGED <<events, evidence>>
        /\ \A q \in Requests : pc'[q] \notin {"readBuyer", "readSupplier", "recordEvent"}
      BY <1>1, <1>5 DEF Crash, InFlight, InFlightSteps, ReadSteps, WriteSteps, tableVars, envVars
  <2> QED BY <2>1 DEF EvidenceFits, ApprovalsHaveEvidence, ApprovalChecked
<1>6. CASE Environment \/ UNCHANGED vars
  <2>1. UNCHANGED <<events, pc, job>>
      BY <1>6 DEF Environment, BeginAcknowledgement, SaveAcknowledgement, BeginEvidence,
                  SaveEvidence, EligibilityChanges, vars, tableVars
  <2>2. ASSUME NEW q \in Requests, pc[q] \in {"readBuyer", "readSupplier", "recordEvent"}
        PROVE  job[q].row.order \in Orders
    <3>1. InFlight(q)
        BY <2>2 DEF InFlight, InFlightSteps, ReadSteps, WriteSteps
    <3> QED BY <1>1, <3>1, InFlightHasJob DEF Job, Row
  <2> QED BY <1>1, <1>4, <2>1, <2>2
          DEF EvidenceFits, ApprovalsHaveEvidence, ApprovalChecked, EvidenceKept
<1> QED BY <1>2, <1>3, <1>5, <1>6 DEF Next

LEMMA InitHasEvidence == Init => EvidenceFits
BY DEF Init, EvidenceFits, ApprovalsHaveEvidence, ApprovalChecked

\* Which commands lead to the statuses a settlement comes through, and where
\* the release commands start.
LEMMA WaysToSettlement ==
    ASSUME NEW c \in Commands
    PROVE  /\ Target[c] = "settlementInstructionReady" =>
                  \/ c = "approveRelease" /\ Sources[c] = {"releaseRequested"}
                  \/ c = "arbitrateApproveRelease" /\ Sources[c] = PausedStatuses
           /\ Target[c] = "releaseRequested" =>
                  c = "requestRelease" /\ Sources[c] = AwaitingRelease
           /\ Target[c] \in AwaitingRelease => Target[c] = "funded"
           /\ "escrowCreated" \notin AwaitingRelease \union PausedStatuses
BY DEF Commands, Target, Sources, AwaitingRelease, PausedStatuses

\* An event that does not start a trail follows one in the status it found.
LEMMA EventFollows ==
    ASSUME IInv, NEW e \in Requests, events[e] # None, events[e].to # "escrowCreated"
    PROVE  /\ events[e].cmd \in Commands
           /\ events[e].to = Target[events[e].cmd]
           /\ events[e].from \in Sources[events[e].cmd]
           /\ events[e].from # "escrowCreated" =>
                  /\ events[e].prev \in Requests
                  /\ events[events[e].prev] # None
                  /\ events[events[e].prev].to = events[e].from
<1>1. events[e] \in Event /\ LegalEvent(events[e])
    BY DEF IInv, TypeOK, ChainIsLegal
<1>2. events[e].cmd # "create"
    BY <1>1 DEF LegalEvent
<1> QED BY <1>1, <1>2 DEF LegalEvent, Event

LEMMA SettlementFollows ==
    ASSUME IInv, EvidenceFits
    PROVE  SettlementIsBacked
<1> SUFFICES ASSUME NEW x \in Requests, escrow[x] # None,
                    escrow[x].status = "settlementInstructionReady"
             PROVE  LET e == escrow[x].last
                    IN  \/ /\ Follows(e, "approveRelease", {"releaseRequested"})
                           /\ Follows(events[e].prev, "requestRelease", {"funded"})
                           /\ evidence[escrow[x].order] = "recorded"
                        \/ Follows(e, "arbitrateApproveRelease", PausedStatuses)
    BY DEF SettlementIsBacked
<1> DEFINE e == escrow[x].last
           d == events[e].prev
<1>1. /\ e \in Requests /\ events[e] # None
      /\ events[e].to = "settlementInstructionReady" /\ events[e].order = escrow[x].order
  <2>1. StandsAt(x, escrow[x]) /\ escrow[x] \in Row
      BY DEF IInv, RowMatchesEvent, TypeOK
  <2> QED BY <2>1 DEF StandsAt, Row
<1> HIDE DEF e
<1>2. None \notin Requests
    BY NoneAssumption
<1>3. /\ events[e].cmd \in Commands /\ Target[events[e].cmd] = "settlementInstructionReady"
      /\ events[e].from \in Sources[events[e].cmd]
      /\ events[e].from # "escrowCreated" =>
             d \in Requests /\ events[d] # None /\ events[d].to = events[e].from
    BY <1>1, EventFollows
<1>4. CASE events[e].cmd = "arbitrateApproveRelease"
  <2>1. events[e].from \in PausedStatuses /\ events[e].from # "escrowCreated"
      BY <1>3, <1>4, WaysToSettlement
  <2>2. Follows(e, "arbitrateApproveRelease", PausedStatuses)
      BY <1>1, <1>2, <1>3, <1>4, <2>1 DEF Follows
  <2> QED BY <2>2 DEF e
<1>5. CASE events[e].cmd = "approveRelease"
  <2>1. events[e].from = "releaseRequested"
      BY <1>3, <1>5, WaysToSettlement
  <2>2. d \in Requests /\ events[d] # None /\ events[d].to = "releaseRequested"
      BY <1>3, <2>1
  <2>3. Follows(e, "approveRelease", {"releaseRequested"})
      BY <1>1, <1>2, <1>5, <2>2 DEF Follows
  <2>4. evidence[events[e].order] = "recorded"
      BY <1>1, <1>5 DEF EvidenceFits, ApprovalsHaveEvidence
  <2> DEFINE f == events[d].prev
  <2> HIDE DEF d
  <2>5. /\ events[d].cmd \in Commands /\ Target[events[d].cmd] = "releaseRequested"
        /\ events[d].from \in Sources[events[d].cmd]
        /\ events[d].from # "escrowCreated" =>
               f \in Requests /\ events[f] # None /\ events[f].to = events[d].from
      BY <2>2, EventFollows
  <2>6. events[d].cmd = "requestRelease" /\ events[d].from \in AwaitingRelease
        /\ events[d].from # "escrowCreated"
      BY <2>5, WaysToSettlement
  <2>7. f \in Requests /\ events[f] # None /\ events[f].to \in AwaitingRelease
      BY <2>5, <2>6
  <2> HIDE DEF f
  <2>8. events[f].to = "funded"
    <3>1. events[f].to # "escrowCreated"
        BY <2>5, <2>6, <2>7, WaysToSettlement
    <3>2. events[f].cmd \in Commands /\ events[f].to = Target[events[f].cmd]
        BY <2>7, <3>1, EventFollows
    <3> QED BY <2>7, <3>2, WaysToSettlement
  <2>9. Follows(d, "requestRelease", {"funded"})
      BY <1>2, <2>2, <2>6, <2>7, <2>8 DEF Follows, f
  <2> QED BY <1>1, <2>3, <2>4, <2>9 DEF e, d
<1> QED BY <1>3, <1>4, <1>5, WaysToSettlement

\* An escrow that is ready for settlement was funded, asked to be released and
\* approved with delivery evidence on record, or released by an arbitration,
\* however its requests overlap and whatever fails.
THEOREM SettlementsAreBacked == Spec => []SettlementIsBacked
<1>1. Init => EvidenceFits
    BY InitHasEvidence
<1>2. IInv /\ EvidenceFits /\ [Next]_vars => EvidenceFits'
    BY NextKeepsEvidence
<1>3. IInv /\ EvidenceFits => SettlementIsBacked
    BY SettlementFollows
<1> QED BY <1>1, <1>2, <1>3, InvariantHolds, PTL DEF Spec

-----------------------------------------------------------------------------
(* Forks of a trail, when requests are handled one at a time.              *)

Recorded == {"anchor", "saveMetadata", "update"}

Alone == \A q, r \in Requests : InFlight(q) /\ InFlight(r) => q = r

\* What the request carries is not older than the row; a creation has none before
\* its INSERT.
Current(r) ==
    LET j == job[r]
    IN  ~(j.cmd = "create" /\ pc[r] \in ReadSteps \union {"insert"})
            => j.row.last = escrow[j.escrow].last

\* Whatever continues the event its row names is on its way there or has failed.
ContinuesUnfailed(e) ==
    /\ events[e].prev # None => pc[events[e].prev] = "done"
    /\ events[e].prev = escrow[events[e].escrow].last => pc[e] \in Recorded \union {"failed"}

SerialTrail ==
    /\ \A r \in Requests : InFlight(r) => Current(r)
    /\ \A e \in Requests : events[e] # None => ContinuesUnfailed(e)
    /\ ForksComeFromFailures

\* A step of one request, or of none, that leaves rows and events alone.
LEMMA QuietStepKeepsTrail ==
    ASSUME IInv, SerialTrail, UNCHANGED <<escrow, events>>,
           \A q \in Requests :
               /\ pc[q] \in {"done", "failed"} => pc'[q] = pc[q]
               /\ pc[q] \in Recorded => pc'[q] \in Recorded \union {"failed"}
               /\ InFlight(q)' => Current(q)'
    PROVE  SerialTrail'
<1>1. \A e \in Requests : events[e] # None => events[e].prev \in Requests \union {None}
    BY DEF IInv, TypeOK, Event
<1>2. ASSUME NEW e \in Requests, events[e] # None
      PROVE  ContinuesUnfailed(e)'
    BY <1>1, <1>2 DEF SerialTrail, ContinuesUnfailed, Recorded
<1>3. ForksComeFromFailures'
    BY DEF SerialTrail, ForksComeFromFailures
<1> QED BY <1>2, <1>3 DEF SerialTrail

\* Requests a step leaves alone, or moves on with what they carry, stay current.
LEMMA StaysCurrent ==
    ASSUME SerialTrail, NEW q \in Requests, InFlight(q), escrow' = escrow,
           job'[q].cmd = job[q].cmd, job'[q].escrow = job[q].escrow,
           job'[q].row = job[q].row,
           job[q].cmd = "create" /\ pc[q] \in ReadSteps \union {"insert"}
               => pc'[q] \in ReadSteps \union {"insert"}
    PROVE  Current(q)'
BY DEF SerialTrail, Current

LEMMA EndKeepsTrail ==
    ASSUME IInv, SerialTrail, NEW r \in Requests, InFlight(r),
           NEW how \in {"rejected", "failed"}, End(r, how),
           UNCHANGED <<escrow, events>>, pc[r] \in Recorded => how = "failed"
    PROVE  SerialTrail'
<1>1. pc'[r] = how /\ \A q \in Requests \ {r} : pc'[q] = pc[q] /\ job'[q] = job[q]
    BY DEF End, IInv, TypeOK
<1>2. pc[r] \notin {"done", "failed"} /\ ~InFlight(r)'
    BY <1>1 DEF InFlight, InFlightSteps, ReadSteps, WriteSteps
<1>3. ASSUME NEW q \in Requests \ {r}, InFlight(q)'
      PROVE  Current(q)'
  <2>1. InFlight(q)
      BY <1>1, <1>3 DEF InFlight
  <2> QED BY <1>1, <2>1, StaysCurrent
<1> QED BY <1>1, <1>2, <1>3, QuietStepKeepsTrail

LEMMA AdvanceKeepsTrail ==
    ASSUME IInv, SerialTrail, NEW r \in Requests, InFlight(r), NEW step \in InFlightSteps,
           pc' = [pc EXCEPT ![r] = step],
           \A q \in Requests \ {r} : job'[q] = job[q],
           job'[r].cmd = job[r].cmd, job'[r].escrow = job[r].escrow,
           job'[r].row = job[r].row,
           UNCHANGED <<escrow, events>>,
           pc[r] \in Recorded => step \in Recorded,
           job[r].cmd = "create" /\ pc[r] \in ReadSteps \union {"insert"}
               => step \in ReadSteps \union {"insert"}
    PROVE  SerialTrail'
<1>1. pc'[r] = step /\ \A q \in Requests \ {r} : pc'[q] = pc[q]
    BY DEF IInv, TypeOK
<1>2. pc[r] \notin {"done", "failed"}
    BY DEF InFlight, InFlightSteps, ReadSteps, WriteSteps
<1>3. ASSUME NEW q \in Requests, InFlight(q)'
      PROVE  Current(q)'
  <2>1. InFlight(q)
      BY <1>1, <1>3 DEF InFlight
  <2> QED BY <1>1, <2>1, StaysCurrent
<1> QED BY <1>1, <1>2, <1>3, QuietStepKeepsTrail

LEMMA CheckKeepsTrail ==
    ASSUME IInv, SerialTrail, NEW r \in Requests, NEW step \in ReadSteps, NEW condition,
           NEW next \in ReadSteps \union {"insert", "recordEvent"},
           Check(r, step, condition, next), job[r].cmd = "create" => next # "recordEvent"
    PROVE  SerialTrail'
<1>1. /\ InFlight(r) /\ pc[r] \notin Recorded /\ UNCHANGED <<escrow, events>>
      /\ next \in InFlightSteps
    BY DEF Check, InFlight, InFlightSteps, ReadSteps, WriteSteps, Recorded, tableVars
<1>2. CASE condition
    BY <1>1, <1>2, AdvanceKeepsTrail DEF Check, Advance
<1>3. CASE ~condition
    BY <1>1, <1>3, EndKeepsTrail DEF Check
<1> QED BY <1>2, <1>3

LEMMA ArrivalKeepsTrail ==
    ASSUME IInv, SerialTrail, NEW r \in Requests, Arrive(r)
    PROVE  SerialTrail'
<1>1. pc[r] = "idle" /\ UNCHANGED <<escrow, events>>
    BY DEF Arrive, CreateEscrow, TransitionEscrow, NextToArrive, tableVars
<1>2. ASSUME NEW step \in InFlightSteps, NEW j, Start(r, step, j),
             (j.cmd = "create" /\ step \in ReadSteps) \/ j.row.last = escrow[j.escrow].last
      PROVE  SerialTrail'
  <2>1. /\ pc'[r] = step /\ job'[r] = j
        /\ \A q \in Requests \ {r} : pc'[q] = pc[q] /\ job'[q] = job[q]
      BY <1>2 DEF Start, IInv, TypeOK
  <2>2. Current(r)'
      BY <1>1, <1>2, <2>1 DEF Current
  <2>3. ASSUME NEW q \in Requests \ {r}, InFlight(q)'
        PROVE  Current(q)'
    <3>1. InFlight(q)
        BY <2>1, <2>3 DEF InFlight
    <3> QED BY <1>1, <2>1, <3>1, StaysCurrent
  <2> QED BY <1>1, <2>1, <2>2, <2>3, QuietStepKeepsTrail DEF Recorded
<1>3. ASSUME NEW actor \in Actors, NEW o \in Orders, NEW ref \in References,
             CreateEscrow(r, actor, o, ref)
      PROVE  SerialTrail'
    BY <1>2, <1>3 DEF CreateEscrow, InFlightSteps, ReadSteps
<1>4. ASSUME NEW actor \in Actors, NEW c \in Offered, NEW x \in Requests,
             TransitionEscrow(r, actor, c, x)
      PROVE  SerialTrail'
  <2>1. PICK j : j = [cmd |-> c, escrow |-> x, row |-> escrow[x], outcome |-> "none"]
      OBVIOUS
  <2>2. PICK step \in InFlightSteps :
            step = IF c \in ReleaseCommands THEN "readOrder" ELSE "recordEvent"
      BY DEF InFlightSteps, ReadSteps, WriteSteps
  <2>3. Start(r, step, j) /\ j.row.last = escrow[j.escrow].last
      BY <1>4, <2>1, <2>2 DEF TransitionEscrow
  <2> QED BY <1>2, <2>3
<1> QED BY <1>3, <1>4 DEF Arrive

\* The new row is named by no event, and no row was there to be read.
LEMMA InsertKeepsTrail ==
    ASSUME IInv, SerialTrail, NEW r \in Requests, InsertEscrow(r)
    PROVE  SerialTrail'
<1>1. InFlight(r) /\ pc[r] = "insert" /\ events' = events
    BY DEF InsertEscrow, InFlight, InFlightSteps, WriteSteps
<1>2. JobFitsTables(r)
    BY <1>1 DEF IInv, RequestInvariant
<1>3. job[r].cmd = "create" /\ job[r].escrow = r /\ escrow[r] = None
    BY <1>1, <1>2 DEF JobFitsTables
<1>4. CASE ~IndexAdmits(r, job[r].row)
    BY <1>1, <1>4, EndKeepsTrail DEF InsertEscrow
<1>5. CASE IndexAdmits(r, job[r].row)
  <2>1. /\ escrow' = [escrow EXCEPT ![r] = job[r].row] /\ job' = job
        /\ pc' = [pc EXCEPT ![r] = "recordEvent"]
      BY <1>5 DEF InsertEscrow, Advance
  <2>2. /\ escrow'[r] = job[r].row /\ pc'[r] = "recordEvent"
        /\ \A q \in Requests \ {r} : pc'[q] = pc[q] /\ escrow'[q] = escrow[q]
      BY <2>1 DEF IInv, TypeOK
  <2>3. \A e \in Requests : events[e] # None =>
            events[e].escrow \in Requests \ {r} /\ events[e].prev \in Requests \union {None}
      BY <1>3 DEF IInv, EventsNameEscrows, TypeOK, Event
  <2>4. ASSUME NEW e \in Requests, events'[e] # None
        PROVE  ContinuesUnfailed(e)'
    <3>1. PICK x \in Requests \ {r}, p \in Requests \union {None} :
              x = events[e].escrow /\ p = events[e].prev
        BY <1>1, <2>3, <2>4
    <3>2. e # r
        BY <1>1, <2>4 DEF IInv, RequestInvariant, NothingAhead
    <3>3. p # None => pc'[p] = "done"
        BY <1>1, <2>2, <2>4, <3>1 DEF SerialTrail, ContinuesUnfailed
    <3>4. p = escrow'[x].last => pc'[e] \in Recorded \union {"failed"}
        BY <1>1, <2>2, <2>4, <3>1, <3>2 DEF SerialTrail, ContinuesUnfailed
    <3> QED BY <1>1, <3>1, <3>3, <3>4 DEF ContinuesUnfailed
  <2>5. ASSUME NEW q \in Requests, InFlight(q)'
        PROVE  Current(q)'
    <3>1. CASE q = r
        BY <1>3, <2>1, <2>2, <3>1 DEF Current
    <3>2. CASE q # r
      <4>1. InFlight(q) /\ JobFitsTables(q) /\ pc'[q] = pc[q]
          BY <2>2, <2>5, <3>2 DEF InFlight, IInv, RequestInvariant
      <4>2. job[q].escrow \in Requests
          BY <4>1, InFlightHasJob DEF IInv, Job
      <4>3. ~(job[q].cmd = "create" /\ pc[q] \in ReadSteps \union {"insert"})
                => job[q].escrow # r
          BY <1>3, <4>1 DEF JobFitsTables
      <4> QED BY <2>1, <2>2, <4>1, <4>2, <4>3, <3>2 DEF SerialTrail, Current
    <3> QED BY <3>1, <3>2
  <2>6. ForksComeFromFailures'
      BY <1>1, <2>2 DEF SerialTrail, ForksComeFromFailures
  <2> QED BY <2>4, <2>5, <2>6 DEF SerialTrail
<1> QED BY <1>4, <1>5

\* The new event continues the event of its row, as no unfailed event does yet.
LEMMA RecordKeepsTrail ==
    ASSUME IInv, Alone, SerialTrail, NEW r \in Requests, RecordEvent(r)
    PROVE  SerialTrail'
<1>1. InFlight(r) /\ pc[r] = "recordEvent" /\ escrow' = escrow
    BY DEF RecordEvent, InFlight, InFlightSteps, WriteSteps
<1>2. /\ JobFitsTables(r) /\ events[r] = None
    BY <1>1 DEF IInv, RequestInvariant, NothingAhead
<1>3. PICK j \in Job : j = job[r]
    BY <1>1, InFlightHasJob DEF IInv
<1>4. /\ j.row.last # None => pc[j.row.last] = "done"
      /\ j.row.last = escrow[j.escrow].last
      /\ j.row.last \in Requests \union {None}
    BY <1>1, <1>2, <1>3 DEF JobFitsTables, SerialTrail, Current, ReadSteps, Job, Row
<1>5. PICK ev : ev = LifecycleEvent(j)
    OBVIOUS
<1>6. ev.escrow = j.escrow /\ ev.prev = j.row.last
    BY <1>5 DEF LifecycleEvent
<1>7. CASE ~ChainCheck(ev)
    BY <1>1, <1>3, <1>5, <1>7, EndKeepsTrail DEF RecordEvent, Recorded
<1>8. CASE ChainCheck(ev)
  <2>1. /\ events' = [events EXCEPT ![r] = ev]
        /\ pc' = [pc EXCEPT ![r] = "anchor"] /\ job' = job
      BY <1>3, <1>5, <1>8 DEF RecordEvent, Advance
  <2>2. /\ events'[r] = ev /\ pc'[r] = "anchor"
        /\ \A q \in Requests \ {r} : events'[q] = events[q] /\ pc'[q] = pc[q]
      BY <2>1 DEF IInv, TypeOK
  <2>3. \A q \in Requests : pc[q] \in {"done", "failed"} => pc'[q] = pc[q]
      BY <1>1, <2>2
  <2>4. ASSUME NEW e \in Requests, events'[e] # None
        PROVE  ContinuesUnfailed(e)'
    <3>1. CASE e = r
        BY <1>1, <1>4, <1>6, <2>2, <2>3, <3>1 DEF ContinuesUnfailed, Recorded
    <3>2. CASE e # r
      <4>1. events'[e] = events[e] /\ pc'[e] = pc[e] /\ ContinuesUnfailed(e)
            /\ events[e].prev \in Requests \union {None}
          BY <2>2, <2>4, <3>2 DEF SerialTrail, IInv, TypeOK, Event
      <4> QED BY <1>1, <2>3, <4>1 DEF ContinuesUnfailed
    <3> QED BY <3>1, <3>2
  <2>5. ASSUME NEW q \in Requests, InFlight(q)'
        PROVE  Current(q)'
    <3>1. InFlight(q)
        BY <1>1, <2>2, <2>5 DEF InFlight
    <3>2. q = r
        BY <1>1, <3>1 DEF Alone
    <3> QED BY <1>1, <1>3, <1>4, <2>1, <3>2 DEF Current
  <2>6. ASSUME NEW e \in Requests \ {r}, events[e] # None,
               events[e].escrow = ev.escrow, events[e].prev = ev.prev
        PROVE  pc'[e] = "failed"
    <3>1. pc[e] \in Recorded \union {"failed"}
        BY <1>4, <1>6, <2>6 DEF SerialTrail, ContinuesUnfailed
    <3>2. ~InFlight(e)
        BY <1>1, <2>6 DEF Alone
    <3>3. pc[e] = "failed"
        BY <3>1, <3>2 DEF Recorded, InFlight, InFlightSteps, WriteSteps
    <3> QED BY <2>2, <3>3
  <2>7. ForksComeFromFailures'
    <3> SUFFICES ASSUME NEW d \in Requests, NEW e \in Requests, d # e,
                        events'[d] # None, events'[e] # None,
                        events'[d].escrow = events'[e].escrow,
                        events'[d].prev = events'[e].prev
                 PROVE  pc'[d] = "failed" \/ pc'[e] = "failed"
        BY DEF ForksComeFromFailures
    <3>1. CASE d = r
        BY <2>2, <2>6, <3>1
    <3>2. CASE e = r
        BY <2>2, <2>6, <3>2
    <3>3. CASE d # r /\ e # r
        BY <2>2, <3>3 DEF SerialTrail, ForksComeFromFailures
    <3> QED BY <3>1, <3>2, <3>3
  <2> QED BY <2>4, <2>5, <2>7 DEF SerialTrail
<1> QED BY <1>7, <1>8

\* The row names the event of the request now, which no event continues.
LEMMA UpdateKeepsTrail ==
    ASSUME IInv, Alone, SerialTrail, NEW r \in Requests, UpdateEscrow(r)
    PROVE  SerialTrail'
<1>1. InFlight(r) /\ pc[r] = "update" /\ events' = events
    BY DEF UpdateEscrow, InFlight, InFlightSteps, WriteSteps
<1>2. PICK j \in Job : j = job[r]
    BY <1>1, InFlightHasJob DEF IInv
<1>3. PICK row : row = UpdatedRow(r)
    OBVIOUS
<1>4. row.last = r /\ j.escrow \in Requests
    BY <1>2, <1>3 DEF UpdatedRow, Job, Row
<1>5. CASE ~IndexAdmits(j.escrow, row)
    BY <1>1, <1>2, <1>3, <1>5, EndKeepsTrail DEF UpdateEscrow
<1>6. CASE IndexAdmits(j.escrow, row)
  <2>1. escrow' = [escrow EXCEPT ![j.escrow] = row] /\ End(r, "done")
      BY <1>2, <1>3, <1>6 DEF UpdateEscrow
  <2>2. /\ escrow'[j.escrow] = row /\ pc'[r] = "done"
        /\ \A x \in Requests \ {j.escrow} : escrow'[x] = escrow[x]
        /\ \A q \in Requests \ {r} : pc'[q] = pc[q]
      BY <1>4, <2>1 DEF End, IInv, TypeOK
  <2>3. \A q \in Requests : ~InFlight(q)'
      BY <1>1, <2>2 DEF Alone, InFlight, InFlightSteps, ReadSteps, WriteSteps
  <2>4. ASSUME NEW e \in Requests, events'[e] # None
        PROVE  ContinuesUnfailed(e)'
    <3>1. PICK x \in Requests, p \in Requests \union {None} :
              x = events[e].escrow /\ p = events[e].prev
        BY <1>1, <2>4 DEF IInv, TypeOK, Event
    <3>2. p # None => pc[p] = "done"
        BY <1>1, <2>4, <3>1 DEF SerialTrail, ContinuesUnfailed
    <3>3. p # None => pc'[p] = "done"
        BY <1>1, <2>2, <3>2
    <3>4. p # r
        BY <1>1, <3>2, NoneAssumption
    <3>5. ASSUME p = escrow'[x].last
          PROVE  pc'[e] \in Recorded \union {"failed"}
      <4>1. x # j.escrow /\ escrow'[x] = escrow[x]
          BY <1>4, <2>2, <3>4, <3>5
      <4>2. pc[e] \in Recorded \union {"failed"}
        <5>1. ContinuesUnfailed(e)
            BY <1>1, <2>4 DEF SerialTrail
        <5>2. events[e].prev = escrow[events[e].escrow].last
            BY <3>1, <3>5, <4>1
        <5> QED BY <5>1, <5>2 DEF ContinuesUnfailed
      <4>3. e # r
        <5>1. events[r] = LifecycleEvent(j)
            BY <1>1, <1>2 DEF IInv, RequestInvariant, WorkIsThere
        <5>2. events[r].escrow = j.escrow
            BY <5>1 DEF LifecycleEvent
        <5> QED BY <3>1, <4>1, <5>2
      <4> QED BY <2>2, <4>2, <4>3
    <3> QED BY <1>1, <3>1, <3>3, <3>5 DEF ContinuesUnfailed
  <2>5. \A q \in Requests : pc[q] = "failed" => pc'[q] = "failed"
      BY <1>1, <2>2
  <2>6. ForksComeFromFailures'
      BY <1>1, <2>5 DEF SerialTrail, ForksComeFromFailures
  <2> QED BY <2>3, <2>4, <2>6 DEF SerialTrail
<1> QED BY <1>5, <1>6

LEMMA StepKeepsTrail ==
    ASSUME IInv, Alone, SerialTrail, NEW r \in Requests, Step(r)
    PROVE  SerialTrail'
<1>1. CASE ReadOrder(r) \/ ReadEvidence(r) \/ ReadBuyerEligibility(r)
           \/ ReadSupplierEligibility(r) \/ FindActiveEscrow(r)
    BY <1>1, CheckKeepsTrail
    DEF ReadOrder, ReadEvidence, ReadBuyerEligibility, ReadSupplierEligibility,
        FindActiveEscrow, ReadSteps
<1>2. ASSUME NEW outcome \in {"anchored", "failed"}, NEW committed \in BOOLEAN,
             AnchorEvent(r, outcome, committed)
      PROVE  SerialTrail'
  <2>1. InFlight(r) /\ pc[r] = "anchor" /\ UNCHANGED <<escrow, events>>
      BY <1>2 DEF AnchorEvent, InFlight, InFlightSteps, WriteSteps
  <2>2. PICK j \in Job : j = job[r]
      BY <2>1, InFlightHasJob DEF IInv
  <2>3. PICK k : k = [j EXCEPT !.outcome = outcome]
      OBVIOUS
  <2>4. k.cmd = j.cmd /\ k.escrow = j.escrow /\ k.row = j.row
      BY <2>3 DEF Job
  <2>5. pc' = [pc EXCEPT ![r] = "saveMetadata"] /\ job' = [job EXCEPT ![r] = k]
      BY <1>2, <2>2, <2>3 DEF AnchorEvent
  <2>6. job'[r] = k /\ \A q \in Requests \ {r} : job'[q] = job[q]
      BY <2>5 DEF IInv, TypeOK
  <2> QED BY <2>1, <2>2, <2>4, <2>5, <2>6, AdvanceKeepsTrail
      DEF InFlightSteps, ReadSteps, WriteSteps, Recorded
<1>3. CASE SaveAnchorMetadata(r)
    BY <1>3, AdvanceKeepsTrail
    DEF SaveAnchorMetadata, Advance, InFlight, InFlightSteps, ReadSteps, WriteSteps, Recorded
<1> QED BY <1>1, <1>2, <1>3, InsertKeepsTrail, RecordKeepsTrail, UpdateKeepsTrail DEF Step

LEMMA NextKeepsTrail ==
    ASSUME IInv, Alone, SerialTrail, [Next]_vars
    PROVE  SerialTrail'
<1>1. ASSUME NEW r \in Requests, QueryFails(r)
      PROVE  SerialTrail'
    BY <1>1, EndKeepsTrail DEF QueryFails, tableVars
<1>2. CASE Crash
  <2>1. /\ UNCHANGED <<escrow, events>>
        /\ pc' = [q \in Requests |-> IF InFlight(q) THEN "failed" ELSE pc[q]]
      BY <1>2 DEF Crash, tableVars
  <2>2. \A q \in Requests : ~InFlight(q)'
      BY <2>1 DEF InFlight, InFlightSteps, ReadSteps, WriteSteps
  <2> QED BY <2>1, <2>2, QuietStepKeepsTrail
      DEF InFlight, InFlightSteps, ReadSteps, WriteSteps, Recorded
<1>3. CASE Environment \/ UNCHANGED vars
  <2>1. UNCHANGED <<escrow, events, pc, job>>
      BY <1>3 DEF Environment, BeginAcknowledgement, SaveAcknowledgement, BeginEvidence,
                  SaveEvidence, EligibilityChanges, vars, tableVars
  <2>2. ASSUME NEW q \in Requests, InFlight(q)'
        PROVE  Current(q)'
      BY <2>1, <2>2, StaysCurrent DEF InFlight
  <2> QED BY <2>1, <2>2, QuietStepKeepsTrail
<1> QED BY <1>1, <1>2, <1>3, ArrivalKeepsTrail, StepKeepsTrail DEF Next

\* At most one request in flight.
LEMMA OneIsAlone ==
    ASSUME NEW S \in SUBSET Requests, Cardinality(S) <= 1
    PROVE  \A q, r \in S : q = r
<1> SUFFICES ASSUME NEW q \in S, NEW r \in S, q # r
             PROVE  FALSE
    OBVIOUS
<1>1. IsFiniteSet(Requests)
    BY WorkflowAssumption, FS_Interval DEF Requests
<1>2. IsFiniteSet(S)
    BY <1>1, FS_Subset
<1>3. Cardinality({q, r}) <= Cardinality(S)
    BY <1>2, FS_Subset
<1>4. Cardinality({q}) = 1 /\ IsFiniteSet({q})
    BY FS_Singleton
<1>5. Cardinality({q} \union {r}) = Cardinality({q}) + 1
    BY <1>4, FS_AddElement
<1>6. {q, r} = {q} \union {r}
    OBVIOUS
<1>7. Cardinality(S) \in Nat
    BY <1>2, FS_CardinalityType
<1> QED BY <1>3, <1>4, <1>5, <1>6, <1>7

\* With one request in flight at a time, an escrow's trail forks only where a request
\* failed between recording its event and updating the row.
THEOREM SerialForksAreFailures == LoadSpec => []SerialForksComeFromFailures
<1> DEFINE Serial == limit = 1 => Alone /\ SerialTrail
<1>1. LoadInit => IInv /\ Serial
  <2>1. Init => Alone /\ SerialTrail
      BY DEF Init, Alone, SerialTrail, ForksComeFromFailures, InFlight, InFlightSteps,
             ReadSteps, WriteSteps
  <2> QED BY <2>1, InitHasInvariant DEF LoadInit
<1>2. IInv /\ [LoadNext]_<<vars, limit>> => IInv'
  <2>1. [LoadNext]_<<vars, limit>> => [Next]_vars
      BY DEF LoadNext
  <2> QED BY <2>1, NextKeepsInvariant
<1>3. IInv /\ Serial /\ [LoadNext]_<<vars, limit>> => Serial'
  <2> SUFFICES ASSUME IInv, limit = 1, Alone, SerialTrail, [LoadNext]_<<vars, limit>>
               PROVE  Alone' /\ SerialTrail'
      BY DEF LoadNext
  <2>1. SerialTrail'
      BY NextKeepsTrail DEF LoadNext
  <2>2. CASE UNCHANGED vars
      BY <2>1, <2>2 DEF Alone, InFlight, vars
  <2>3. CASE LoadNext
    <3> DEFINE running == {r \in Requests : InFlight(r)'}
    <3>1. Cardinality(running) <= 1
        BY <2>3 DEF LoadNext
    <3>2. \A q, r \in running : q = r
        BY <3>1, OneIsAlone
    <3> QED BY <2>1, <3>2 DEF Alone
  <2> QED BY <2>1, <2>2, <2>3
<1>4. Serial => SerialForksComeFromFailures
    BY DEF SerialForksComeFromFailures, SerialTrail
<1> QED BY <1>1, <1>2, <1>3, <1>4, PTL DEF LoadSpec

=============================================================================
