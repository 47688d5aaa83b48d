---------------------------- MODULE SourceToAward ----------------------------
(***************************************************************************)
(* Source to award: a buyer's requisition is approved, put out for         *)
(* quotation and awarded, and the award generates a purchase order         *)
(* (source-to-award-service.ts, create-procurement-order.ts).  Buyers may  *)
(* also create an order directly.                                          *)
(*                                                                         *)
(* Each handler reads the case, records lifecycle events and ends by       *)
(* writing the whole case back (INSERT ... ON CONFLICT DO UPDATE), with    *)
(* nothing that holds other requests off in between.  A request is its     *)
(* number, in order of arrival, and the number is the identity of the      *)
(* case, RFQ, quotation or order it makes.  There is one buyer.            *)
(***************************************************************************)
EXTENDS Naturals, FiniteSets, Sequences

CONSTANTS
    Suppliers,
    RequestBound,   \* requests in a behaviour (a bound)
    CaseBound,      \* only the requests up to this number open a case (a bound)
    MaxInFlight,    \* requests handled at the same time (a bound)
    Faults,         \* which faults happen: "query", "crash"
    None

Requests == 1..RequestBound

ASSUME SourceAssumption ==
    /\ RequestBound \in Nat
    /\ CaseBound \in Nat
    /\ MaxInFlight \in Nat
    /\ Faults \subseteq {"query", "crash"}

Statuses == {"requisitionPendingApproval", "requisitionApproved", "rfqIssued",
             "quotationReceived", "awarded", "purchaseOrderGenerated"}

CaseActions == {"requisitionCreated", "requisitionApproved", "rfqIssued",
                "quotationSubmitted", "awardSelected", "purchaseOrderGenerated"}

Actions == CaseActions \union {"purchaseOrderCreated"}

\* A request records at most one event for each action.
EventIds == [ by : Requests, type : Actions ]

Event == [ id : EventIds, case : Requests, prev : EventIds \union {None},
           supplier : Suppliers \union {None} ]

Quotation == [ id : Requests, supplier : Suppliers ]

\* The trail is lifecycleEventIds; its last event has latestLifecyclePayloadHash.
Row == [ status : Statuses, rfq : Requests \union {None}, invited : SUBSET Suppliers,
         quotations : SUBSET Quotation, award : Quotation \union {None},
         order : Requests \union {None}, trail : Seq(EventIds) ]

Order == [ supplier : Suppliers, quotation : Requests \union {None} ]

\* action is the next event to record, supplier the one it names.
Job == [ case : Requests \union {None}, row : Row \union {None}, action : Actions,
         supplier : Suppliers \union {None} ]

ASSUME NothingAssumption ==
    None \notin Requests \union Suppliers \union EventIds \union Quotation
                         \union Row \union Order \union Job

InFlightSteps == {"recordEvent", "checkEligibility", "recordOrder", "saveOrder", "saveCase"}
Ended == {"done", "rejected", "failed"}

VARIABLES
    cases,      \* cases[c]: the row of source_to_award_cases, or None
    orders,     \* orders[o]: what the row of procurement_orders was created with, or None
    events,     \* the lifecycle events of this module
    pc,         \* where the handler of each request is
    job,        \* its local variables while it runs, or None
    limit       \* how many requests the clients of this behaviour have in flight

vars == <<cases, orders, events, pc, job, limit>>

Init ==
    /\ cases = [c \in Requests |-> None]
    /\ orders = [o \in Requests |-> None]
    /\ events = {}
    /\ pc = [r \in Requests |-> "idle"]
    /\ job = [r \in Requests |-> None]
    /\ limit \in 1..MaxInFlight

InFlight(r) == pc[r] \in InFlightSteps

NextToArrive(r) ==
    /\ pc[r] = "idle"
    /\ \A q \in Requests : q < r => pc[q] # "idle"
    /\ Cardinality({q \in Requests : InFlight(q)}) < limit

Start(r, step, j) ==
    /\ pc' = [pc EXCEPT ![r] = step]
    /\ job' = [job EXCEPT ![r] = j]

\* Fault: the handler's variables outlive it.
EndKeepingJob(r, how) ==
    /\ pc' = [pc EXCEPT ![r] = how]
    /\ UNCHANGED job

End(r, how) ==
    /\ pc' = [pc EXCEPT ![r] = how]
    /\ job' = [job EXCEPT ![r] = None]

-----------------------------------------------------------------------------
(* Arrival of a request, with its first read.  A request the code refuses  *)
(* for its content, its actor or what it reads first changes nothing and   *)
(* is not represented.                                                     *)

NewRow ==
    [ status |-> "requisitionPendingApproval", rfq |-> None, invited |-> {},
      quotations |-> {}, award |-> None, order |-> None, trail |-> <<>> ]

CreateRequisition(r) ==
    /\ NextToArrive(r)
    /\ r <= CaseBound
    /\ Start(r, "recordEvent", [ case |-> r, row |-> NewRow,
                                 action |-> "requisitionCreated", supplier |-> None ])
    /\ UNCHANGED <<cases, orders, events, limit>>

ApproveRequisition(r, c) ==
    /\ NextToArrive(r)
    /\ cases[c] # None
    /\ cases[c].status = "requisitionPendingApproval"
    /\ Start(r, "recordEvent",
             [ case |-> c, row |-> [cases[c] EXCEPT !.status = "requisitionApproved"],
               action |-> "requisitionApproved", supplier |-> None ])
    /\ UNCHANGED <<cases, orders, events, limit>>

IssueRfq(r, c, invited) ==
    /\ NextToArrive(r)
    /\ cases[c] # None
    /\ cases[c].status = "requisitionApproved"
    /\ invited # {}
    /\ Start(r, "recordEvent",
             [ case |-> c,
               row |-> [cases[c] EXCEPT !.status = "rfqIssued", !.rfq = r, !.invited = invited],
               action |-> "rfqIssued", supplier |-> None ])
    /\ UNCHANGED <<cases, orders, events, limit>>

\* Fault: the quotation is added beside the supplier's earlier one.
QuotationAdded(quotations, quotation) == quotations \union {quotation}

\* A quotation replaces the earlier one of its supplier.
WithQuotation(quotations, quotation) ==
    {q \in quotations : q.supplier # quotation.supplier} \union {quotation}

\* Fault: an awarded RFQ still takes quotations.
SubmitQuotationLate(r, c, s) ==
    /\ NextToArrive(r)
    /\ cases[c] # None
    /\ cases[c].rfq # None
    /\ s \in cases[c].invited
    /\ Start(r, "recordEvent",
             [ case |-> c,
               row |-> [cases[c] EXCEPT
                   !.status = "quotationReceived", !.award = None, !.order = None,
                   !.quotations = WithQuotation(@, [id |-> r, supplier |-> s])],
               action |-> "quotationSubmitted", supplier |-> s ])
    /\ UNCHANGED <<cases, orders, events, limit>>

SubmitQuotation(r, c, s) ==
    /\ NextToArrive(r)
    /\ cases[c] # None
    /\ cases[c].rfq # None
    /\ s \in cases[c].invited
    /\ cases[c].award = None
    /\ Start(r, "recordEvent",
             [ case |-> c,
               row |-> [cases[c] EXCEPT
                   !.status = "quotationReceived",
                   !.quotations = WithQuotation(@, [id |-> r, supplier |-> s])],
               action |-> "quotationSubmitted", supplier |-> s ])
    /\ UNCHANGED <<cases, orders, events, limit>>

AwardRfq(r, c, q) ==
    /\ NextToArrive(r)
    /\ cases[c] # None
    /\ cases[c].rfq # None
    /\ cases[c].award = None
    /\ q \in cases[c].quotations
    /\ Start(r, "recordEvent",
             [ case |-> c, row |-> [cases[c] EXCEPT !.status = "awarded", !.award = q],
               action |-> "awardSelected", supplier |-> q.supplier ])
    /\ UNCHANGED <<cases, orders, events, limit>>

\* POST /orders: createProcurementOrder without a case.
CreateOrder(r, s) ==
    /\ NextToArrive(r)
    /\ Start(r, "checkEligibility", [ case |-> None, row |-> None,
                                      action |-> "purchaseOrderCreated", supplier |-> s ])
    /\ UNCHANGED <<cases, orders, events, limit>>

-----------------------------------------------------------------------------
(* appendSourceEvent: the event names the last one of the snapshot and is  *)
(* added to its trail.                                                     *)

LastOf(trail) == IF trail = <<>> THEN None ELSE trail[Len(trail)]

\* Fault: the event names the last one of the stored case.
EventOnFreshCase(r) ==
    [ id |-> [by |-> r, type |-> job[r].action], case |-> job[r].case,
      prev |-> IF cases[job[r].case] = None THEN None ELSE LastOf(cases[job[r].case].trail),
      supplier |-> job[r].supplier ]

CaseEvent(r) ==
    [ id |-> [by |-> r, type |-> job[r].action], case |-> job[r].case,
      prev |-> LastOf(job[r].row.trail), supplier |-> job[r].supplier ]

\* Fault: the case is stored as awarded before it has its order.
RecordEventStoringAward(r) ==
    /\ pc[r] = "recordEvent"
    /\ events' = events \union {CaseEvent(r)}
    /\ LET row == [job[r].row EXCEPT !.trail = Append(@, CaseEvent(r).id)]
       IN  /\ Start(r, IF job[r].action = "awardSelected" THEN "checkEligibility" ELSE "saveCase",
                    [job[r] EXCEPT !.row = row])
           /\ cases' = IF job[r].action = "awardSelected"
                       THEN [cases EXCEPT ![job[r].case] = row] ELSE cases
    /\ UNCHANGED <<orders, limit>>

RecordEvent(r) ==
    /\ pc[r] = "recordEvent"
    /\ events' = events \union {CaseEvent(r)}
    /\ Start(r, IF job[r].action = "awardSelected" THEN "checkEligibility" ELSE "saveCase",
             [job[r] EXCEPT !.row.trail = Append(@, CaseEvent(r).id)])
    /\ UNCHANGED <<cases, orders, limit>>

(* createProcurementOrder, called by an award or by the orders route.      *)

\* The gateway tells the eligibility of the buyer's organization at this time.
CheckEligibility(r, eligible) ==
    /\ pc[r] = "checkEligibility"
    /\ IF eligible
       THEN /\ pc' = [pc EXCEPT ![r] = "recordOrder"]
            /\ UNCHANGED job
       ELSE End(r, "rejected")
    /\ UNCHANGED <<cases, orders, events, limit>>

\* The order starts a trail of its own, whose case is the order.
RecordOrder(r) ==
    /\ pc[r] = "recordOrder"
    /\ events' = events \union
          {[ id |-> [by |-> r, type |-> "purchaseOrderCreated"], case |-> r,
             prev |-> None, supplier |-> job[r].supplier ]}
    /\ pc' = [pc EXCEPT ![r] = "saveOrder"]
    /\ UNCHANGED <<cases, orders, job, limit>>

SaveOrder(r) ==
    /\ pc[r] = "saveOrder"
    /\ orders' = [orders EXCEPT ![r] =
          [ supplier |-> job[r].supplier,
            quotation |-> IF job[r].case = None THEN None ELSE job[r].row.award.id ]]
    /\ IF job[r].case = None
       THEN End(r, "done")
       ELSE Start(r, "recordEvent",
                  [job[r] EXCEPT !.action = "purchaseOrderGenerated",
                                 !.row.status = "purchaseOrderGenerated",
                                 !.row.order = r])
    /\ UNCHANGED <<cases, events, limit>>

\* The upsert of the whole row.
SaveCase(r) ==
    /\ pc[r] = "saveCase"
    /\ cases' = [cases EXCEPT ![job[r].case] = job[r].row]
    /\ End(r, "done")
    /\ UNCHANGED <<orders, events, limit>>

-----------------------------------------------------------------------------
(* A query that throws ends its request with an error reply, after what    *)
(* was written before; a crash does it to every request in flight.         *)

QueryFails(r) ==
    /\ "query" \in Faults
    /\ InFlight(r)
    /\ End(r, "failed")
    /\ UNCHANGED <<cases, orders, events, limit>>

Crash ==
    /\ "crash" \in Faults
    /\ \E r \in Requests : InFlight(r)
    /\ pc' = [r \in Requests |-> IF InFlight(r) THEN "failed" ELSE pc[r]]
    /\ job' = [r \in Requests |-> None]
    /\ UNCHANGED <<cases, orders, events, limit>>

Arrive(r) ==
    \/ CreateRequisition(r)
    \/ \E c \in Requests :
          \/ ApproveRequisition(r, c)
          \/ \E invited \in SUBSET Suppliers : IssueRfq(r, c, invited)
          \/ \E s \in Suppliers : SubmitQuotation(r, c, s)
          \/ \E q \in Quotation : AwardRfq(r, c, q)
    \/ \E s \in Suppliers : CreateOrder(r, s)

Step(r) ==
    \/ RecordEvent(r)
    \/ \E eligible \in BOOLEAN : CheckEligibility(r, eligible)
    \/ RecordOrder(r)
    \/ SaveOrder(r)
    \/ SaveCase(r)

Next ==
    \/ \E r \in Requests : Arrive(r) \/ Step(r) \/ QueryFails(r)
    \/ Crash

Spec == Init /\ [][Next]_vars

-----------------------------------------------------------------------------
TypeOK ==
    /\ cases \in [Requests -> Row \union {None}]
    /\ orders \in [Requests -> Order \union {None}]
    /\ events \subseteq Event
    /\ pc \in [Requests -> {"idle"} \union InFlightSteps \union Ended]
    /\ job \in [Requests -> Job \union {None}]
    /\ limit \in 1..MaxInFlight
    /\ \A r \in Requests : InFlight(r) <=> job[r] # None

\* A stored case is awarded exactly when it has an order, and then the order was
\* saved, for the supplier and the quotation the award names, and the award is one
\* of the quotations of the case.  No reader sees the state between selection
\* and order, whichever requests were overtaken or failed.
AwardFits(row) ==
    /\ row.status # "awarded"
    /\ row.award = None <=> row.order = None
    /\ row.award # None <=> row.status = "purchaseOrderGenerated"
    /\ row.award # None =>
          /\ row.award \in row.quotations
          /\ orders[row.order] = [ supplier |-> row.award.supplier,
                                   quotation |-> row.award.id ]

AwardHasItsOrder == \A c \in Requests : cases[c] # None => AwardFits(cases[c])

\* Which event may follow which in the trail of a case.
Follows(earlier, later) ==
    \/ earlier.type = "requisitionCreated"  /\ later.type = "requisitionApproved"
    \/ earlier.type = "requisitionApproved" /\ later.type = "rfqIssued"
    \/ earlier.type = "rfqIssued"           /\ later.type = "quotationSubmitted"
    \/ earlier.type = "quotationSubmitted"  /\ later.type = "quotationSubmitted"
    \/ earlier.type = "quotationSubmitted"  /\ later.type = "awardSelected"
    \/ /\ earlier.type = "awardSelected"
       /\ later = [by |-> earlier.by, type |-> "purchaseOrderGenerated"]

StatusAfter(type) ==
    IF type = "requisitionCreated" THEN "requisitionPendingApproval"
    ELSE IF type \in {"requisitionApproved", "rfqIssued"} THEN type
    ELSE IF type = "quotationSubmitted" THEN "quotationReceived"
    ELSE IF type = "awardSelected" THEN "awarded"
    ELSE "purchaseOrderGenerated"

Recorded(id, c, prev) ==
    \E e \in events : e.id = id /\ e.case = c /\ e.prev = prev

\* trail is a chain of recorded events of case c, in a legal order.
IsTrailOf(trail, c) ==
    /\ trail # <<>>
    /\ trail[1] = [by |-> c, type |-> "requisitionCreated"]
    /\ Recorded(trail[1], c, None)
    /\ \A k \in 2..Len(trail) : /\ Recorded(trail[k], c, trail[k - 1])
                                /\ Follows(trail[k - 1], trail[k])

\* The trail a case stores is one unbroken, legal chain from its requisition to the
\* event that led to its status, although late writes may take the case back
\* to an earlier state and the store may hold several branches.
TrailFits(row, c) ==
    /\ IsTrailOf(row.trail, c)
    /\ row.status = StatusAfter(LastOf(row.trail).type)

TrailTellsTheCase == \A c \in Requests : cases[c] # None => TrailFits(cases[c], c)

\* Every order that came from an award, also one its case has lost, has the recorded
\* selection of a quotation that the same supplier submitted to the same case.
Told(id, c, supplier) ==
    \E e \in events : e.id = id /\ e.case = c /\ e.supplier = supplier

OrdersAreAwarded ==
    \A o \in Requests :
        orders[o] # None /\ orders[o].quotation # None =>
            \E c \in Requests :
                /\ Told([by |-> o, type |-> "awardSelected"], c, orders[o].supplier)
                /\ Told([by |-> orders[o].quotation, type |-> "quotationSubmitted"],
                        c, orders[o].supplier)

\* A case holds quotations of invited suppliers only, of each supplier one, and its
\* trail accounts for the RFQ and for each of them, however the requests
\* overtake each other.
InTrail(row, id) == \E k \in 1..Len(row.trail) : row.trail[k] = id

Answers(q, row, c) ==
    /\ q.supplier \in row.invited
    /\ InTrail(row, [by |-> q.id, type |-> "quotationSubmitted"])
    /\ Told([by |-> q.id, type |-> "quotationSubmitted"], c, q.supplier)

OnePerSupplier(quotations) ==
    \A p, q \in quotations : p.supplier = q.supplier => p = q

StageFits(row) ==
    /\ row.rfq = None <=> row.status \in {"requisitionPendingApproval", "requisitionApproved"}
    /\ row.quotations = {} <=> row.rfq = None \/ row.status = "rfqIssued"

QuotationsFit(row, c) ==
    /\ StageFits(row)
    /\ row.rfq # None => InTrail(row, [by |-> row.rfq, type |-> "rfqIssued"])
    /\ OnePerSupplier(row.quotations)
    /\ \A q \in row.quotations : Answers(q, row, c)

QuotationsAnswerTheRfq == \A c \in Requests : cases[c] # None => QuotationsFit(cases[c], c)

(* What holds only while the clients keep one request in flight: a late    *)
(* write of another request would break each of these.                     *)

\* One request at a time, with crashes and failing queries: an award, once stored,
\* is never changed or removed.
AwardIsFinal ==
    [][\A c \in Requests :
          limit = 1 /\ cases[c] # None /\ cases[c].award # None
              => cases'[c] # None /\ cases'[c].award = cases[c].award]_vars

-----------------------------------------------------------------------------
(* The inductive invariant.                                                *)

RowFits(row, c) == TrailFits(row, c) /\ QuotationsFit(row, c) /\ AwardFits(row)

\* What is being recorded is not in the row's trail yet; the row has it already.
BeingRecorded(r, j) ==
    /\ j.row.status = StatusAfter(j.action)
    /\ IF j.action = "requisitionCreated"
       THEN j.case = r /\ j.row = NewRow
       ELSE /\ IsTrailOf(j.row.trail, j.case)
            /\ Follows(LastOf(j.row.trail), [by |-> r, type |-> j.action])
    /\ StageFits(j.row)
    /\ j.row.rfq # None =>
          \/ j.action = "rfqIssued" /\ j.row.rfq = r
          \/ InTrail(j.row, [by |-> j.row.rfq, type |-> "rfqIssued"])
    /\ OnePerSupplier(j.row.quotations)
    /\ \A q \in j.row.quotations :
          \/ Answers(q, j.row, j.case)
          \/ /\ j.action = "quotationSubmitted"
             /\ q = [id |-> r, supplier |-> j.supplier]
             /\ q.supplier \in j.row.invited

\* The award of a request that has not saved its order.
Selected(r, j) ==
    /\ j.row.award \in j.row.quotations
    /\ j.row.order = None
    /\ j.supplier = j.row.award.supplier
    /\ orders[r] = None

Recording(r, j) ==
    /\ j.case # None
    /\ j.row # None
    /\ j.action \in CaseActions
    /\ BeingRecorded(r, j)
    /\ j.action = "purchaseOrderGenerated" => AwardFits(j.row)
    /\ j.action = "awardSelected" => Selected(r, j)
    /\ j.action \notin {"awardSelected", "purchaseOrderGenerated"} =>
          j.row.award = None /\ j.row.order = None

Ordering(r, j) ==
    /\ orders[r] = None
    /\ IF j.case = None
       THEN j.supplier # None
       ELSE /\ j.row # None
            /\ j.action = "awardSelected"
            /\ LastOf(j.row.trail) = [by |-> r, type |-> "awardSelected"]
            /\ TrailFits(j.row, j.case)
            /\ QuotationsFit(j.row, j.case)
            /\ Selected(r, j)
            /\ Told([by |-> r, type |-> "awardSelected"], j.case, j.supplier)

JobFits(step, r, j) ==
    /\ step = "recordEvent" => Recording(r, j)
    /\ step \in {"checkEligibility", "recordOrder", "saveOrder"} => Ordering(r, j)
    /\ step = "saveCase" => j.case # None /\ j.row # None /\ RowFits(j.row, j.case)

RequestFits(r) ==
    /\ pc[r] = "idle" => orders[r] = None
    /\ InFlight(r) => JobFits(pc[r], r, job[r])

RowsFit == \A c \in Requests : cases[c] # None => RowFits(cases[c], c)

RequestsFit == \A r \in Requests : RequestFits(r)

IInv == TypeOK /\ OrdersAreAwarded /\ RowsFit /\ RequestsFit

=============================================================================
