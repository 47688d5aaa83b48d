--------------------------- MODULE EscrowWorkflow ---------------------------
(***************************************************************************)
(* The escrow module running against Postgres: requests that create an     *)
(* escrow (createEscrow) or move it (transitionEscrow) are handled by one  *)
(* Node process, so each awaited query or ledger call is an interleaving   *)
(* point and everything between two of them is one step.  No handler opens *)
(* a transaction and the row is written back whole, from the snapshot read *)
(* at the start of the request.                                            *)
(*                                                                         *)
(* A request is its number, in order of arrival; the escrow or the         *)
(* lifecycle event it writes has the number as its identity (the code      *)
(* draws a UUID, and the event's payload hash stands for the event).       *)
(***************************************************************************)
EXTENDS EscrowDomain, Naturals, FiniteSets

CONSTANTS
    RequestBound,       \* requests in a behaviour (a bound)
    MaxInFlight,        \* requests handled at the same time (a bound)
    Faults,             \* which faults happen: "query", "crash", "ledger"
    Offered,            \* the transition commands clients issue
    Acknowledgements,   \* what suppliers answer: "accepted", "rejected"
    Orders, Orgs, Actors,
    BuyerOf, SupplierOf, FinancierOf,
    References,         \* acceptedOrderReference: "none", "plain" or "demo"
    DemoOrders,         \* the orders named demo-order-...
    VolatileOrgs,       \* organizations whose KYC/AML eligibility may change
    None

Requests == 1..RequestBound

ASSUME WorkflowAssumption ==
    /\ RequestBound \in Nat
    /\ MaxInFlight \in Nat
    /\ Faults \subseteq {"query", "crash", "ledger"}
    /\ Offered \subseteq Commands
    /\ Acknowledgements \subseteq {"accepted", "rejected"}
    /\ Actors \subseteq [org : Orgs, roles : SUBSET Roles]
    /\ BuyerOf \in [Orders -> Orgs]
    /\ SupplierOf \in [Orders -> Orgs]
    /\ FinancierOf \in [Orders -> Orgs]
    /\ References \subseteq {"none", "plain", "demo"}
    /\ DemoOrders \subseteq Orders
    /\ VolatileOrgs \subseteq Orgs

ReadSteps == {"readOrder", "readEvidence", "readBuyer", "readSupplier", "findActive"}
WriteSteps == {"insert", "recordEvent", "anchor", "saveMetadata", "update"}
InFlightSteps == ReadSteps \union WriteSteps
Ended == {"done", "rejected", "failed"}

Row == [ order : Orders, ref : References, status : EscrowStatuses,
         last : Requests \union {None}, anchor : {"none", "anchored", "failed"} ]

Event == [ escrow : Requests, order : Orders, corr : Orders \union References,
           cmd : Commands \union {"create"}, prev : Requests \union {None},
           from : EscrowStatuses, to : EscrowStatuses ]

Job == [ cmd : Commands \union {"create"}, escrow : Requests, row : Row,
         outcome : {"none", "anchored", "failed"} ]

\* What EscrowHistory sees of them.
TrailEvent == [ escrow : Requests, cmd : Commands \union {"create"},
                prev : Requests \union {None}, from : EscrowStatuses, to : EscrowStatuses ]

HeadRow == [ order : Orders, status : EscrowStatuses, last : Requests \union {None} ]

ASSUME NoneAssumption ==
    None \notin Requests \union Row \union Event \union Job \union TrailEvent \union HeadRow

VARIABLES
    orders,         \* the status of each procurement order
    acknowledging,  \* supplier answers that have read a "created" order
    evidence,       \* delivery evidence of each order
    eligible,       \* the organizations the onboarding module finds eligible
    escrow,         \* escrow[x]: a row of table escrows, or None
    events,         \* events[e]: a row of procure_to_pay_lifecycle_events, or None
    onChain,        \* events the audit-anchor chaincode holds
    metadata,       \* blockchain_anchor_metadata of each event
    pc,             \* where the handler of each request is
    job             \* its local variables while it runs, or None

envVars == <<orders, acknowledging, evidence, eligible>>
tableVars == <<escrow, events, onChain, metadata>>
vars == <<envVars, tableVars, pc, job>>

Init ==
    /\ orders \in [Orders -> {"missing", "created"}]
    /\ \A o \in DemoOrders : orders[o] = "missing"
    /\ acknowledging = [o \in Orders |-> {}]
    /\ evidence = [o \in Orders |-> "none"]
    /\ eligible \in {Orgs, Orgs \ VolatileOrgs}
    /\ escrow = [x \in Requests |-> None]
    /\ events = [e \in Requests |-> None]
    /\ onChain = {}
    /\ metadata = [e \in Requests |-> "none"]
    /\ pc = [r \in Requests |-> "idle"]
    /\ job = [r \in Requests |-> None]

InFlight(r) == pc[r] \in InFlightSteps

NextToArrive(r) ==
    /\ pc[r] = "idle"
    /\ \A q \in Requests : q < r => pc[q] # "idle"
    /\ Cardinality({q \in Requests : InFlight(q)}) < MaxInFlight

Start(r, step, j) ==
    /\ pc' = [pc EXCEPT ![r] = step]
    /\ job' = [job EXCEPT ![r] = j]

Advance(r, step) ==
    /\ pc' = [pc EXCEPT ![r] = step]
    /\ UNCHANGED job

\* Fault: the local state of a finished request is kept.
EndKeepingJob(r, how) ==
    /\ pc' = [pc EXCEPT ![r] = how]
    /\ UNCHANGED job

End(r, how) ==
    /\ pc' = [pc EXCEPT ![r] = how]
    /\ job' = [job EXCEPT ![r] = None]

\* A read that answers whether the request may go on.
Check(r, step, condition, next) ==
    /\ pc[r] = step
    /\ IF condition THEN Advance(r, next) ELSE End(r, "rejected")
    /\ UNCHANGED <<envVars, tableVars>>

-----------------------------------------------------------------------------
(* Arrival of a request, up to the answer of its first query.  A request   *)
(* that this answer or its own content makes the code refuse changes       *)
(* nothing and is not represented.                                         *)

OrderAllowsCreation(o, ref) ==
    \/ orders[o] = "missing" /\ (ref = "demo" \/ o \in DemoOrders)
    \/ orders[o] = "accepted"

CreateEscrow(r, actor, o, ref) ==
    /\ NextToArrive(r)
    /\ "buyer" \in actor.roles
    /\ actor.org = BuyerOf[o]
    /\ OrderAllowsCreation(o, ref)
    /\ Start(r, "readBuyer",
             [ cmd |-> "create", escrow |-> r, outcome |-> "none",
               row |-> [ order |-> o, ref |-> ref, status |-> "escrowCreated",
                         last |-> None, anchor |-> "none" ] ])
    /\ UNCHANGED <<envVars, tableVars>>

TransitionEscrow(r, actor, c, x) ==
    /\ NextToArrive(r)
    /\ escrow[x] # None
    /\ LET o == escrow[x].order
       IN  CanActorPerform(actor, c, BuyerOf[o], SupplierOf[o], FinancierOf[o])
    /\ escrow[x].status \in Sources[c]
    /\ Start(r, IF c \in ReleaseCommands THEN "readOrder" ELSE "recordEvent",
             [cmd |-> c, escrow |-> x, row |-> escrow[x], outcome |-> "none"])
    /\ UNCHANGED <<envVars, tableVars>>

-----------------------------------------------------------------------------
(* The queries of evaluateReleaseConditions and of createEscrow's guards.  *)
(* The release conditions are judged after the last of the four reads; a   *)
(* request that fails one writes nothing, so it ends at the read.  The     *)
(* fourth condition, disputeFree, is judged on the snapshot: the command's *)
(* own source statuses imply it.                                           *)

ReadOrder(r) ==
    Check(r, "readOrder",
          orders[job[r].row.order] = "accepted" \/ job[r].row.ref # "none",
          "readEvidence")

\* Fault: evidence counts from the moment its submission begins.
ReadEvidenceEarly(r) ==
    Check(r, "readEvidence", evidence[job[r].row.order] # "none", "readBuyer")

ReadEvidence(r) ==
    Check(r, "readEvidence", evidence[job[r].row.order] = "recorded", "readBuyer")

ReadBuyerEligibility(r) ==
    Check(r, "readBuyer", BuyerOf[job[r].row.order] \in eligible, "readSupplier")

ReadSupplierEligibility(r) ==
    Check(r, "readSupplier", SupplierOf[job[r].row.order] \in eligible,
          IF job[r].cmd = "create" THEN "findActive" ELSE "recordEvent")

\* findActiveByOrderId finds nothing.
NoActiveEscrow(o) ==
    \A y \in Requests :
        escrow[y] # None /\ escrow[y].order = o => escrow[y].status \notin ActiveEscrowStatuses

FindActiveEscrow(r) ==
    Check(r, "findActive", NoActiveEscrow(job[r].row.order), "insert")

-----------------------------------------------------------------------------
(* The writes, in the order the handlers make them.                        *)

\* A unique index on the order, for rows in the given statuses.
UniqueAmong(statuses, x, row) ==
    row.status \in statuses =>
        \A y \in Requests \ {x} :
            escrow[y] # None /\ escrow[y].order = row.order => escrow[y].status \notin statuses

\* Fault: the index of migration 004 is still the one in force.
FirstIndexAdmits(x, row) ==
    UniqueAmong({"accepted", "escrowCreated", "releasePending", "releaseReady", "disputed"},
                x, row)

\* The unique index of migration 006: one active escrow per order.
IndexAdmits(x, row) == UniqueAmong(ActiveEscrowStatuses, x, row)

\* The repository looks for an active escrow once more before the INSERT; the
\* index decides.
InsertEscrow(r) ==
    /\ pc[r] = "insert"
    /\ IF IndexAdmits(r, job[r].row)
       THEN /\ escrow' = [escrow EXCEPT ![r] = job[r].row]
            /\ Advance(r, "recordEvent")
       ELSE /\ End(r, "failed")
            /\ UNCHANGED escrow
    /\ UNCHANGED <<envVars, events, onChain, metadata>>

Correlation(row) == IF row.ref = "none" THEN row.order ELSE row.ref

\* Fault: a creation is correlated by its order, transitions by the reference.
EventWithOrderCorrelation(j) ==
    [ escrow |-> j.escrow,
      order  |-> j.row.order,
      corr   |-> IF j.cmd = "create" THEN j.row.order ELSE Correlation(j.row),
      cmd    |-> j.cmd,
      prev   |-> j.row.last,
      from   |-> IF j.cmd = "create" THEN "accepted" ELSE j.row.status,
      to     |-> IF j.cmd = "create" THEN "escrowCreated" ELSE Target[j.cmd] ]

LifecycleEvent(j) ==
    [ escrow |-> j.escrow,
      order  |-> j.row.order,
      corr   |-> Correlation(j.row),
      cmd    |-> j.cmd,
      prev   |-> j.row.last,
      from   |-> IF j.cmd = "create" THEN "accepted" ELSE j.row.status,
      to     |-> IF j.cmd = "create" THEN "escrowCreated" ELSE Target[j.cmd] ]

\* assertLifecycleConstraints: the previous event is stored, for the same case
\* and correlation.
ChainCheck(ev) ==
    ev.prev # None =>
        /\ events[ev.prev] # None
        /\ events[ev.prev].order = ev.order
        /\ events[ev.prev].corr = ev.corr

RecordEvent(r) ==
    /\ pc[r] = "recordEvent"
    /\ LET ev == LifecycleEvent(job[r])
       IN  IF ChainCheck(ev)
           THEN /\ events' = [events EXCEPT ![r] = ev]
                /\ Advance(r, "anchor")
           ELSE /\ End(r, "failed")
                /\ UNCHANGED events
    /\ UNCHANGED <<envVars, escrow, onChain, metadata>>

\* Fault: only a submission that succeeds is recorded with its event.
AnchorEventUnlessFailed(r, outcome, committed) ==
    /\ pc[r] = "anchor"
    /\ outcome = "anchored" => committed
    /\ outcome = "failed" => "ledger" \in Faults
    /\ onChain' = IF committed THEN onChain \union {r} ELSE onChain
    /\ Start(r, IF outcome = "failed" THEN "update" ELSE "saveMetadata",
                [job[r] EXCEPT !.outcome = outcome])
    /\ UNCHANGED <<envVars, escrow, events, metadata>>

\* The gateway never throws.  A submission it reports as failed may have been
\* committed (a timeout while waiting for the commit status).
AnchorEvent(r, outcome, committed) ==
    /\ pc[r] = "anchor"
    /\ outcome = "anchored" => committed
    /\ outcome = "failed" => "ledger" \in Faults
    /\ onChain' = IF committed THEN onChain \union {r} ELSE onChain
    /\ pc' = [pc EXCEPT ![r] = "saveMetadata"]
    /\ job' = [job EXCEPT ![r].outcome = outcome]
    /\ UNCHANGED <<envVars, escrow, events, metadata>>

SaveAnchorMetadata(r) ==
    /\ pc[r] = "saveMetadata"
    /\ metadata' = [metadata EXCEPT ![r] = job[r].outcome]
    /\ Advance(r, "update")
    /\ UNCHANGED <<envVars, escrow, events, onChain>>

\* Fault: the row keeps the event hash of the snapshot.
RowKeepingHash(r) ==
    LET j == job[r]
    IN  [ j.row EXCEPT
            !.status = IF j.cmd = "create" THEN "escrowCreated" ELSE Target[j.cmd],
            !.anchor = j.outcome ]

\* Fault: a row once anchored is not marked otherwise.
RowKeepingAnchor(r) ==
    LET j == job[r]
    IN  [ j.row EXCEPT
            !.status = IF j.cmd = "create" THEN "escrowCreated" ELSE Target[j.cmd],
            !.last   = r,
            !.anchor = IF j.row.anchor = "anchored" THEN "anchored" ELSE j.outcome ]

\* The whole row, from the snapshot.
UpdatedRow(r) ==
    LET j == job[r]
    IN  [ j.row EXCEPT
            !.status = IF j.cmd = "create" THEN "escrowCreated" ELSE Target[j.cmd],
            !.last   = r,
            !.anchor = j.outcome ]

UpdateEscrow(r) ==
    /\ pc[r] = "update"
    /\ IF IndexAdmits(job[r].escrow, UpdatedRow(r))
       THEN /\ escrow' = [escrow EXCEPT ![job[r].escrow] = UpdatedRow(r)]
            /\ End(r, "done")
       ELSE /\ End(r, "failed")
            /\ UNCHANGED escrow
    /\ UNCHANGED <<envVars, events, onChain, metadata>>

-----------------------------------------------------------------------------
(* Faults.  A query that throws ends its request with an error reply,      *)
(* leaving what was written before; saveMetadata is no exception, because  *)
(* the promise of the save is returned without being awaited.  A failure   *)
(* at a step also stands for an applied statement whose reply was lost at  *)
(* the step before.  A crash does it to every request in flight.           *)

QueryFails(r) ==
    /\ "query" \in Faults
    /\ InFlight(r)
    /\ End(r, "failed")
    /\ UNCHANGED <<envVars, tableVars>>

Crash ==
    /\ "crash" \in Faults
    /\ \E r \in Requests : InFlight(r)
    /\ pc' = [r \in Requests |-> IF InFlight(r) THEN "failed" ELSE pc[r]]
    /\ job' = [r \in Requests |-> None]
    /\ UNCHANGED <<envVars, tableVars>>

-----------------------------------------------------------------------------
(* The other modules, as the escrow module sees them.  Acknowledging an    *)
(* order and submitting delivery evidence read the order and save later    *)
(* without a check, so an acknowledgement can replace another one and      *)
(* evidence can be saved for an order that is no longer accepted.          *)

BeginAcknowledgement(o, answer) ==
    /\ orders[o] = "created"
    /\ acknowledging' = [acknowledging EXCEPT ![o] = @ \union {answer}]
    /\ UNCHANGED <<orders, evidence, eligible, tableVars, pc, job>>

SaveAcknowledgement(o, answer) ==
    /\ answer \in acknowledging[o]
    /\ acknowledging' = [acknowledging EXCEPT ![o] = @ \ {answer}]
    /\ orders' = [orders EXCEPT ![o] = answer]
    /\ UNCHANGED <<evidence, eligible, tableVars, pc, job>>

BeginEvidence(o) ==
    /\ evidence[o] = "none"
    /\ orders[o] = "accepted"
    /\ evidence' = [evidence EXCEPT ![o] = "submitting"]
    /\ UNCHANGED <<orders, acknowledging, eligible, tableVars, pc, job>>

SaveEvidence(o) ==
    /\ evidence[o] = "submitting"
    /\ evidence' = [evidence EXCEPT ![o] = "recorded"]
    /\ UNCHANGED <<orders, acknowledging, eligible, tableVars, pc, job>>

EligibilityChanges(g) ==
    /\ eligible' = IF g \in eligible THEN eligible \ {g} ELSE eligible \union {g}
    /\ UNCHANGED <<orders, acknowledging, evidence, tableVars, pc, job>>

-----------------------------------------------------------------------------
Step(r) ==
    \/ ReadOrder(r)
    \/ ReadEvidence(r)
    \/ ReadBuyerEligibility(r)
    \/ ReadSupplierEligibility(r)
    \/ FindActiveEscrow(r)
    \/ InsertEscrow(r)
    \/ RecordEvent(r)
    \/ \E outcome \in {"anchored", "failed"}, committed \in BOOLEAN :
          AnchorEvent(r, outcome, committed)
    \/ SaveAnchorMetadata(r)
    \/ UpdateEscrow(r)

Arrive(r) ==
    \/ \E actor \in Actors, o \in Orders, ref \in References :
          CreateEscrow(r, actor, o, ref)
    \/ \E actor \in Actors, c \in Offered, x \in Requests :
          TransitionEscrow(r, actor, c, x)

Environment ==
    \/ \E o \in Orders, answer \in Acknowledgements :
          BeginAcknowledgement(o, answer) \/ SaveAcknowledgement(o, answer)
    \/ \E o \in Orders : BeginEvidence(o) \/ SaveEvidence(o)
    \/ \E g \in VolatileOrgs : EligibilityChanges(g)

Next ==
    \/ \E r \in Requests : Arrive(r) \/ Step(r) \/ QueryFails(r)
    \/ Crash
    \/ Environment

Spec == Init /\ [][Next]_vars

\* Node keeps running the continuation of every request it has accepted.
FairSpec == Spec /\ \A r \in Requests : WF_vars(Step(r))

-----------------------------------------------------------------------------
TypeOK ==
    /\ orders \in [Orders -> {"missing", "created", "accepted", "rejected"}]
    /\ acknowledging \in [Orders -> SUBSET {"accepted", "rejected"}]
    /\ evidence \in [Orders -> {"none", "submitting", "recorded"}]
    /\ eligible \subseteq Orgs
    /\ escrow \in [Requests -> Row \union {None}]
    /\ events \in [Requests -> Event \union {None}]
    /\ onChain \subseteq Requests
    /\ metadata \in [Requests -> {"none", "anchored", "failed"}]
    /\ pc \in [Requests -> {"idle"} \union InFlightSteps \union Ended]
    /\ job \in [Requests -> Job \union {None}]
    /\ \A r \in Requests : InFlight(r) <=> job[r] # None

-----------------------------------------------------------------------------
\* However creations and late updates interleave, an order never has two active
\* escrows: the index decides, not the application's findActiveByOrderId.
AtMostOneActiveEscrow ==
    \A x, y \in Requests :
        /\ escrow[x] # None
        /\ escrow[y] # None
        /\ escrow[x].order = escrow[y].order
        /\ escrow[x].status \in ActiveEscrowStatuses
        /\ escrow[y].status \in ActiveEscrowStatuses
        => x = y

\* The status and the event hash of a version of row x belong together.
StandsAt(x, row) ==
    IF row.last = None
    THEN row.status = "escrowCreated"
    ELSE /\ events[row.last] # None
         /\ events[row.last].escrow = x
         /\ events[row.last].order = row.order
         /\ events[row.last].corr = Correlation(row)
         /\ events[row.last].to = row.status

\* Whatever overwrites an escrow row overwrites it with one consistent version:
\* its status, its event hash and its anchor status belong to the same event of
\* its own trail (the update in transitionEscrow and the one in createEscrow).
RowMatchesEvent ==
    \A x \in Requests :
        escrow[x] # None =>
            /\ StandsAt(x, escrow[x])
            /\ escrow[x].anchor = IF escrow[x].last = None
                                  THEN "none" ELSE metadata[escrow[x].last]

LegalEvent(ev) ==
    IF ev.cmd = "create"
    THEN ev.prev = None /\ ev.to = "escrowCreated"
    ELSE /\ ev.from \in Sources[ev.cmd]
         /\ ev.to = Target[ev.cmd]
         /\ IF ev.prev = None
            THEN ev.from = "escrowCreated"
            ELSE /\ events[ev.prev] # None
                 /\ events[ev.prev].escrow = ev.escrow
                 /\ events[ev.prev].to = ev.from

\* Every recorded event continues, legally, the event its previousEventHash
\* names, though the escrow may have moved on since the snapshot: the branch an
\* event ends is always a possible life of its escrow.
ChainIsLegal == \A e \in Requests : events[e] # None => LegalEvent(events[e])

\* The chain check of the event repository never refuses an event of this
\* module, in spite of the snapshot the event is built from.
ChainCheckAccepts ==
    \A r \in Requests : pc[r] = "recordEvent" => ChainCheck(LifecycleEvent(job[r]))

\* e is a recorded event of command c that followed an event of an allowed status.
Follows(e, c, statuses) ==
    /\ e # None
    /\ events[e] # None
    /\ events[e].cmd = c
    /\ events[e].prev # None
    /\ events[events[e].prev].to \in statuses

\* An escrow ready for settlement got there through funding, a release request
\* and a release approval with delivery evidence on record, or through an
\* arbitration of an escrow that was paused.
SettlementIsBacked ==
    \A x \in Requests :
        escrow[x] # None /\ escrow[x].status = "settlementInstructionReady" =>
            LET e == escrow[x].last
            IN  \/ /\ Follows(e, "approveRelease", {"releaseRequested"})
                   /\ Follows(events[e].prev, "requestRelease", {"funded"})
                   /\ evidence[escrow[x].order] = "recorded"
                \/ Follows(e, "arbitrateApproveRelease", PausedStatuses)

\* An anchor status of "anchored", in the metadata table or in an escrow row, is
\* backed by the ledger, and the ledger holds recorded events only.
AnchorIsProven ==
    /\ \A e \in onChain : events[e] # None
    /\ \A e \in Requests : metadata[e] = "anchored" => e \in onChain
    /\ \A x \in Requests :
          escrow[x] # None /\ escrow[x].anchor = "anchored" => escrow[x].last \in onChain

\* A release is granted only to an escrow that is not on hold, disputed or
\* under arbitration, unless the arbitration grants it.
ReleaseOnlyWhenDisputeFree ==
    [][\A r \in Requests :
          pc[r] = "update" /\ pc'[r] = "done" /\ job[r].cmd \in ReleaseCommands
              => escrow[job[r].escrow].status \notin PausedStatuses]_vars

\* A request that has recorded its event is not failed by its anchoring.
AnchoringNeverFailsARequest ==
    [][\A r \in Requests : pc[r] = "saveMetadata" => pc'[r] # "failed"]_vars

\* Handled one at a time, requests fork the trail of an escrow only after a
\* request that failed between recording its event and updating the row.
ForksComeFromFailures ==
    \A d, e \in Requests :
        /\ d # e
        /\ events[d] # None
        /\ events[e] # None
        /\ events[d].escrow = events[e].escrow
        /\ events[d].prev = events[e].prev
        => pc[d] = "failed" \/ pc[e] = "failed"

\* Each recorded event ends up with a known anchor status, whatever the ledger
\* answers, unless its request lost a query or the process before it got there.
AnchorStatusIsSettled ==
    \A e \in Requests : events[e] # None ~> (metadata[e] # "none" \/ pc[e] = "failed")

\* The trail and the rows implement what EscrowHistory promises.
EventLog ==
    [e \in Requests |->
        IF events[e] = None THEN None
        ELSE [ escrow |-> events[e].escrow, cmd |-> events[e].cmd,
               prev |-> events[e].prev, from |-> events[e].from, to |-> events[e].to ]]

Heads ==
    [x \in Requests |->
        IF escrow[x] = None THEN None
        ELSE [ order |-> escrow[x].order, status |-> escrow[x].status,
               last |-> escrow[x].last ]]

History == INSTANCE EscrowHistory WITH Ids <- Requests, log <- EventLog, head <- Heads

\* The concurrent, failing handlers never break the abstract audit trail.
ImplementsHistory == History!HistorySpec

-----------------------------------------------------------------------------
(* The inductive invariant behind the safety properties above.             *)

\* What a request in flight carries agrees with the tables.
JobFitsTables(r) ==
    LET j == job[r]
    IN  /\ IF j.cmd = "create"
           THEN /\ j.escrow = r
                /\ j.row.status = "escrowCreated"
                /\ j.row.last = None
                /\ j.row.anchor = "none"
                /\ pc[r] \notin {"readOrder", "readEvidence"}
           ELSE /\ j.row.status \in Sources[j.cmd]
                /\ pc[r] \notin {"findActive", "insert"}
        /\ IF j.cmd = "create" /\ pc[r] \in ReadSteps \union {"insert"}
           THEN escrow[r] = None
           ELSE /\ escrow[j.escrow] # None
                /\ escrow[j.escrow].order = j.row.order
                /\ escrow[j.escrow].ref = j.row.ref
                /\ StandsAt(j.escrow, j.row)
        /\ j.row.last # None => pc[j.row.last] = "done"

\* What a request has not written yet is not there ...
NothingAhead(r) ==
    /\ pc[r] = "idle" => escrow[r] = None
    /\ pc[r] \in {"idle", "insert", "recordEvent"} \union ReadSteps => events[r] = None
    /\ pc[r] \in {"idle", "insert", "recordEvent", "anchor"} \union ReadSteps
            => r \notin onChain
    /\ pc[r] \in ({"idle"} \union InFlightSteps) \ {"update"} => metadata[r] = "none"

\* ... and what it has written is what it carries.
WorkIsThere(r) ==
    /\ pc[r] \in {"anchor", "saveMetadata", "update"} => events[r] = LifecycleEvent(job[r])
    /\ pc[r] \in {"saveMetadata", "update"} /\ job[r].outcome = "anchored" => r \in onChain
    /\ pc[r] = "update" => metadata[r] = job[r].outcome

RequestInvariant ==
    \A r \in Requests :
        /\ InFlight(r) => JobFitsTables(r)
        /\ NothingAhead(r)
        /\ WorkIsThere(r)

\* The anchor status of an event is final once a row refers to it.
LastIsDone ==
    \A x \in Requests :
        escrow[x] # None /\ escrow[x].last # None => pc[escrow[x].last] = "done"

EventsNameEscrows ==
    \A e \in Requests : events[e] # None => escrow[events[e].escrow] # None

IInv ==
    /\ TypeOK
    /\ AtMostOneActiveEscrow
    /\ RowMatchesEvent
    /\ ChainIsLegal
    /\ AnchorIsProven
    /\ RequestInvariant
    /\ LastIsDone
    /\ EventsNameEscrows
=============================================================================
