----------------------------- MODULE Fulfilment -----------------------------
(***************************************************************************)
(* What follows the award of an order: its acknowledgement, delivery       *)
(* evidence, invoices with their three-way match and approval, and the     *)
(* closeout of the case.  Each handler reads several tables, records a     *)
(* lifecycle event and then writes its row whole.                          *)
(***************************************************************************)
EXTENDS RequestHandling, Sequences, FiniteSetsExt

CONSTANTS
    SeededEvents,   \* the seeded requests, as the events they recorded
    Terms,          \* amount, supplier and source-to-award case of each order
    Amounts,        \* the amounts suppliers type
    Numeric,        \* what NUMERIC(18, 2) makes of an amount, as text
    Hashes          \* invoice hashes suppliers send

Acknowledgements == {"purchaseOrderAccepted", "purchaseOrderRejected"}
OrderEvents == {"purchaseOrderCreated"} \union Acknowledgements
InvoiceEvents == {"invoiceIssued", "invoiceMatchPassed", "invoiceMatchFailed",
                  "invoicePaymentApproved"}
EventTypes == OrderEvents \union InvoiceEvents \union {"deliveryEvidenceSubmitted"}

Orders == {r \in 1..Seeded : SeededEvents[r].type = "purchaseOrderCreated"}
Cases == Orders \union {Terms[o].case : o \in Orders}

ASSUME FulfilmentAssumption ==
    /\ SeededEvents \in [1..Seeded -> [ type : EventTypes, order : 1..Seeded ]]
    /\ \A r \in 1..Seeded : SeededEvents[r].type \in InvoiceEvents => SeededEvents[r].type = "invoiceIssued"
    /\ \A r \in 1..Seeded : SeededEvents[r].order \in Orders
    /\ \A o \in Orders : SeededEvents[o].order = o
    /\ \A r \in 1..Seeded : SeededEvents[r].type # "purchaseOrderCreated" => SeededEvents[r].order < r
    /\ \A q, r \in 1..Seeded :
           /\ SeededEvents[q].order = SeededEvents[r].order
           /\ {SeededEvents[q].type, SeededEvents[r].type} \subseteq Acknowledgements
           => q = r
    /\ \A r \in 1..Seeded : SeededEvents[r].type \notin OrderEvents =>
           \E q \in 1..(r - 1) : SeededEvents[q] =
               [ type |-> "purchaseOrderAccepted", order |-> SeededEvents[r].order ]
    /\ Amounts \subseteq DOMAIN Numeric
    /\ \A a \in DOMAIN Numeric : Numeric[a] \in DOMAIN Numeric /\ Numeric[Numeric[a]] = Numeric[a]
    /\ \A o \in Orders : Terms[o].amount \in DOMAIN Numeric
    /\ None \notin Requests

\* events lists the requests that recorded the row's events.
Order == [ status : {"created", "accepted", "rejected"}, events : Seq(Requests) ]

Evidence == [ order : Orders, event : Requests \union {None} ]

Invoice == [ order : Orders, evidence : Requests \union {None}, amount : DOMAIN Numeric,
             hash : Hashes \union Requests,
             status : {"submitted", "matchPassed", "matchFailed", "paymentApproved"},
             match : {"notChecked", "passed", "failed"}, matched : Requests \union {None},
             approvedBy : Requests \union {None}, events : Seq(Requests) ]

Metrics == [ evidence : Nat, invoices : Nat, exceptions : Nat, coverage : 0..100,
             closeouts : Nat, score : Nat ]

Closeout == [ case : Cases, order : Orders, metrics : Metrics ]

\* target is the row the event is about, prev the event it continues.
Event == [ type : EventTypes, order : Orders, target : Requests,
           prev : Requests \union {None} ]

ASSUME RowAssumption == None \notin Event \union Evidence \union Invoice \union Closeout

VARIABLES
    order,          \* order[o]: the row of procurement_orders
    evidence,       \* evidence[r]: the row of delivery_evidence r inserted, or None
    invoice,        \* likewise of procurement_invoices
    closeout,       \* likewise of procurement_case_closeouts
    event           \* event[r]: the lifecycle event r recorded, or None

fulfilmentVars == <<order, evidence, invoice, closeout, event>>

LastOf(row) == row.events[Len(row.events)]

SeededOrderEvents(o) ==
    {r \in 1..Seeded : SeededEvents[r].order = o /\ SeededEvents[r].type \in OrderEvents}

FulfilmentInit ==
    /\ order = [o \in Orders |->
           LET acks == SeededOrderEvents(o) \ {o}
           IN  IF acks = {} THEN [ status |-> "created", events |-> <<o>> ]
               ELSE LET ack == CHOOSE r \in acks : TRUE
                    IN  [ status |-> IF SeededEvents[ack].type = "purchaseOrderAccepted"
                                     THEN "accepted" ELSE "rejected",
                          events |-> <<o, ack>> ]]
    /\ event = [r \in Requests |->
           IF r > Seeded THEN None
           ELSE LET e == SeededEvents[r]
                    earlier == {q \in SeededOrderEvents(e.order) : q < r}
                IN  [ type |-> e.type, order |-> e.order,
                      target |-> IF e.type \in OrderEvents THEN e.order ELSE r,
                      prev |-> IF e.type = "invoiceIssued" \/ earlier = {} THEN None
                               ELSE Max(earlier) ]]
    /\ evidence = [r \in Requests |->
           IF r > Seeded THEN None
           ELSE IF SeededEvents[r].type # "deliveryEvidenceSubmitted" THEN None
           ELSE [ order |-> SeededEvents[r].order, event |-> r ]]
    /\ invoice = [r \in Requests |->
           IF r > Seeded THEN None
           ELSE IF SeededEvents[r].type # "invoiceIssued" THEN None
           ELSE [ order |-> SeededEvents[r].order, evidence |-> None,
                  amount |-> Numeric[Terms[SeededEvents[r].order].amount], hash |-> r,
                  status |-> "submitted", match |-> "notChecked", matched |-> None,
                  approvedBy |-> None, events |-> <<r>> ]]
    /\ closeout = [r \in Requests |-> None]

\* listByOrderId of each repository.
EvidenceOf(o) == {e \in Requests : evidence[e] # None /\ evidence[e].order = o}
InvoicesOf(o) == {i \in Requests : invoice[i] # None /\ invoice[i].order = o}

\* recordProcureToPaySourceEvent, which continues prev.  A previous event is
\* in the store and of the same order: assertLifecycleConstraints has nothing
\* to refuse (RowsTellTheirTrail).
RecordEvent(r, step, type, o, target, prev, next) ==
    /\ pc[r] = step
    /\ event' = [event EXCEPT ![r] =
           [ type |-> type, order |-> o, target |-> target, prev |-> prev ]]
    /\ Await(r, next, job[r])
    /\ UNCHANGED <<order, evidence, invoice, closeout>>

-----------------------------------------------------------------------------
(* POST /orders/:orderId/acknowledgement                                   *)

\* acknowledgeProcurementOrder up to the answer of findById
Acknowledge(r, o, decision) ==
    /\ NextToArrive(r)
    /\ order[o].status = "created"
    /\ Await(r, "recordAcknowledgement", [ id |-> o, status |-> decision, row |-> order[o] ])
    /\ UNCHANGED fulfilmentVars

RecordAcknowledgement(r) ==
    RecordEvent(r, "recordAcknowledgement",
                IF job[r].status = "accepted" THEN "purchaseOrderAccepted"
                                              ELSE "purchaseOrderRejected",
                job[r].id, job[r].id, LastOf(job[r].row), "saveOrder")

SaveOrder(r) ==
    /\ pc[r] = "saveOrder"
    /\ order' = [order EXCEPT ![job[r].id] =
           [ status |-> job[r].status, events |-> Append(job[r].row.events, r) ]]
    /\ Answer(r, "done")
    /\ UNCHANGED <<evidence, invoice, closeout, event>>

-----------------------------------------------------------------------------
(* POST /orders/:orderId/delivery-evidence                                 *)

\* Fault: the status of the order is not looked at.
SubmitEvidenceUnchecked(r, o) ==
    /\ NextToArrive(r)
    /\ Await(r, "saveBaseEvidence", [ order |-> o, prev |-> LastOf(order[o]) ])
    /\ UNCHANGED fulfilmentVars

\* submitDeliveryEvidence up to the answer of findById
SubmitEvidence(r, o) ==
    /\ NextToArrive(r)
    /\ order[o].status = "accepted"
    /\ Await(r, "saveBaseEvidence", [ order |-> o, prev |-> LastOf(order[o]) ])
    /\ UNCHANGED fulfilmentVars

SaveBaseEvidence(r) ==
    /\ pc[r] = "saveBaseEvidence"
    /\ evidence' = [evidence EXCEPT ![r] = [ order |-> job[r].order, event |-> None ]]
    /\ Await(r, "listEvents", job[r])
    /\ UNCHANGED <<order, invoice, closeout, event>>

\* resolvePreviousEventHash drops a hash the store does not know.
ListEvents(r) ==
    /\ pc[r] = "listEvents"
    /\ Await(r, "recordEvidence",
             [job[r] EXCEPT !.prev = IF event[job[r].prev] # None THEN job[r].prev ELSE None])
    /\ UNCHANGED fulfilmentVars

RecordEvidence(r) ==
    RecordEvent(r, "recordEvidence", "deliveryEvidenceSubmitted", job[r].order, r,
                job[r].prev, "anchorEvidence")

\* anchorProcureToPayLifecycleEvent, whatever the ledger says, and then the
\* second save of the row: any answer gives the row an anchor.
AnchorEvidence(r) ==
    /\ pc[r] = "anchorEvidence"
    /\ Await(r, "saveFinalEvidence", job[r])
    /\ UNCHANGED fulfilmentVars

SaveFinalEvidence(r) ==
    /\ pc[r] = "saveFinalEvidence"
    /\ evidence' = [evidence EXCEPT ![r] = [ order |-> job[r].order, event |-> r ]]
    /\ Answer(r, "done")
    /\ UNCHANGED <<order, invoice, closeout, event>>

-----------------------------------------------------------------------------
(* POST /invoices                                                          *)

\* submitInvoice up to the answer of the order's findById.  A hash the client
\* does not send is computed from the time of submission as well: no other
\* invoice has it.
SubmitInvoice(r, o, e, amount, hash) ==
    /\ NextToArrive(r)
    /\ order[o].status = "accepted"
    /\ Await(r, IF e = None THEN "findInvoiceHash" ELSE "readLinkedEvidence",
             [ order |-> o, evidence |-> e, amount |-> amount, hash |-> hash,
               status |-> "submitted", match |-> "notChecked", matched |-> None,
               approvedBy |-> None, events |-> <<>> ])
    /\ UNCHANGED fulfilmentVars

ReadLinkedEvidence(r) ==
    /\ pc[r] = "readLinkedEvidence"
    /\ IF job[r].evidence \in EvidenceOf(job[r].order)
       THEN Await(r, "findInvoiceHash", job[r])
       ELSE Answer(r, "done")
    /\ UNCHANGED fulfilmentVars

HashTaken(hash) == \E i \in Requests : invoice[i] # None /\ invoice[i].hash = hash

FindInvoiceHash(r) ==
    /\ pc[r] = "findInvoiceHash"
    /\ IF HashTaken(job[r].hash) THEN Answer(r, "done") ELSE Await(r, "recordInvoice", job[r])
    /\ UNCHANGED fulfilmentVars

RecordInvoice(r) ==
    RecordEvent(r, "recordInvoice", "invoiceIssued", job[r].order, r, None, "insertInvoice")

\* invoice_hash TEXT NOT NULL UNIQUE
HashConstraintAdmits(hash) == ~HashTaken(hash)

\* The amount is stored as a number and comes back as its canonical text.
InsertInvoice(r) ==
    /\ pc[r] = "insertInvoice"
    /\ IF HashConstraintAdmits(job[r].hash)
       THEN /\ invoice' = [invoice EXCEPT ![r] =
                   [job[r] EXCEPT !.amount = Numeric[job[r].amount], !.events = <<r>>]]
            /\ Answer(r, "done")
       ELSE /\ Answer(r, "failed")
            /\ UNCHANGED invoice
    /\ UNCHANGED <<order, evidence, closeout, event>>

-----------------------------------------------------------------------------
(* POST /invoices/:id/verify-match                                         *)

\* verifyInvoiceMatch up to the answer of findById, whatever the status
VerifyMatch(r, i) ==
    /\ NextToArrive(r)
    /\ invoice[i] # None
    /\ Await(r, "readMatchedOrder", [ id |-> i, row |-> invoice[i], accepted |-> FALSE ])
    /\ UNCHANGED fulfilmentVars

ReadMatchedOrder(r) ==
    /\ pc[r] = "readMatchedOrder"
    /\ Await(r, "listMatchedEvidence",
             [job[r] EXCEPT !.accepted = order[job[r].row.order].status = "accepted"])
    /\ UNCHANGED fulfilmentVars

\* The linked record, or the first of the order; None if there is none.
MatchedEvidence(row) ==
    LET records == EvidenceOf(row.order)
    IN  IF row.evidence # None
        THEN IF row.evidence \in records THEN row.evidence ELSE None
        ELSE IF records = {} THEN None ELSE Min(records)

\* Fault: the amounts are compared as numbers only.
MatchesWithoutEvidence(row, accepted) ==
    accepted /\ Numeric[Terms[row.order].amount] = row.amount

\* No issue: the texts of the amounts agree, there is evidence and the order
\* was accepted.  The order keeps the text its buyer typed.
Matches(row, accepted) ==
    /\ accepted
    /\ Terms[row.order].amount = row.amount
    /\ MatchedEvidence(row) # None

ListMatchedEvidence(r) ==
    /\ pc[r] = "listMatchedEvidence"
    /\ LET row == job[r].row
           passed == Matches(row, job[r].accepted)
       IN  Await(r, "recordMatch",
                 [ id |-> job[r].id,
                   row |-> [row EXCEPT !.status = IF passed THEN "matchPassed" ELSE "matchFailed",
                                       !.match = IF passed THEN "passed" ELSE "failed",
                                       !.matched = MatchedEvidence(row)] ])
    /\ UNCHANGED fulfilmentVars

RecordMatch(r) ==
    RecordEvent(r, "recordMatch",
                IF job[r].row.match = "passed" THEN "invoiceMatchPassed" ELSE "invoiceMatchFailed",
                job[r].row.order, job[r].id, LastOf(job[r].row), "saveInvoice")

-----------------------------------------------------------------------------
(* POST /invoices/:id/approve-payment                                      *)

\* approveInvoicePayment up to the answer of findById
ApprovePayment(r, i) ==
    /\ NextToArrive(r)
    /\ invoice[i] # None
    /\ invoice[i].status = "matchPassed"
    /\ Await(r, "recordApproval",
             [ id |-> i, row |-> [invoice[i] EXCEPT !.status = "paymentApproved", !.approvedBy = r] ])
    /\ UNCHANGED fulfilmentVars

RecordApproval(r) ==
    RecordEvent(r, "recordApproval", "invoicePaymentApproved", job[r].row.order, job[r].id,
                LastOf(job[r].row), "saveInvoice")

\* Fault: only the status of the row is written.
SaveInvoiceStatus(r) ==
    /\ pc[r] = "saveInvoice"
    /\ invoice' = [invoice EXCEPT ![job[r].id].status = job[r].row.status]
    /\ Answer(r, "done")
    /\ UNCHANGED <<order, evidence, closeout, event>>

\* ON CONFLICT (invoice_id) DO UPDATE, every column
SaveInvoice(r) ==
    /\ pc[r] = "saveInvoice"
    /\ invoice' = [invoice EXCEPT ![job[r].id] =
           [job[r].row EXCEPT !.events = Append(job[r].row.events, r)]]
    /\ Answer(r, "done")
    /\ UNCHANGED <<order, evidence, closeout, event>>

-----------------------------------------------------------------------------
(* POST /procurement-cases/:caseId/closeout                                *)

\* Math.round of a ratio of naturals.
Rounded(n, d) == (2 * n + d) \div (2 * d)

Least(a, b) == IF a <= b THEN a ELSE b

\* scoreFor of one order with these counts.  An exception costs ten points.
Score(evidenceCount, exceptions, coverage, closeouts) ==
    LET gained == 70 + Least(15, 15 * evidenceCount) + Rounded(coverage, 10)
                     + (IF closeouts > 0 THEN 5 ELSE 0)
    IN  IF gained <= 10 * exceptions THEN 0 ELSE Least(100, gained - 10 * exceptions)

\* resolveCaseOrder: an order, or the order generated for an awarded case.
OrdersOf(c) == IF c \in Orders THEN {c} ELSE {o \in Orders : Terms[o].case = c}

\* closeProcurementCase up to the answer that resolves the order
CloseCase(r, c, o) ==
    /\ NextToArrive(r)
    /\ o \in OrdersOf(c)
    /\ order[o].status = "accepted"
    /\ Await(r, "listEvidence", [ case |-> c, order |-> o, evidence |-> {}, invoices |-> {} ])
    /\ UNCHANGED fulfilmentVars

ListEvidence(r) ==
    /\ pc[r] = "listEvidence"
    /\ LET records == EvidenceOf(job[r].order)
       IN  IF records = {} THEN Answer(r, "done")
           ELSE Await(r, "listInvoices", [job[r] EXCEPT !.evidence =
                    {[ id |-> e, proof |-> evidence[e].event # None ] : e \in records}])
    /\ UNCHANGED fulfilmentVars

ListInvoices(r) ==
    /\ pc[r] = "listInvoices"
    /\ Await(r, "listCloseouts", [job[r] EXCEPT !.invoices =
           {[ id |-> i, exception |-> invoice[i].match = "failed" ] : i \in InvoicesOf(job[r].order)}])
    /\ UNCHANGED fulfilmentVars

CloseoutsOf(supplier) ==
    {c \in Requests : closeout[c] # None /\ Terms[closeout[c].order].supplier = supplier}

MetricsOf(j, closeouts) ==
    LET proofs == Cardinality({e \in j.evidence : e.proof})
        exceptions == Cardinality({i \in j.invoices : i.exception})
        coverage == Rounded(100 * proofs, Cardinality(j.evidence))
    IN  [ evidence |-> Cardinality(j.evidence), invoices |-> Cardinality(j.invoices),
          exceptions |-> exceptions, coverage |-> coverage, closeouts |-> closeouts,
          score |-> Score(Cardinality(j.evidence), exceptions, coverage, closeouts) ]

ListCloseouts(r) ==
    /\ pc[r] = "listCloseouts"
    /\ LET j == job[r]
       IN  Await(r, "insertCloseout",
                 [ case |-> j.case, order |-> j.order,
                   metrics |-> MetricsOf(j, Cardinality(CloseoutsOf(Terms[j.order].supplier))) ])
    /\ UNCHANGED fulfilmentVars

\* Fault: no unique constraint.
AnyCase(c) == TRUE

\* case_id TEXT NOT NULL UNIQUE
CaseConstraintAdmits(c) == \A r \in Requests : closeout[r] # None => closeout[r].case # c

InsertCloseout(r) ==
    /\ pc[r] = "insertCloseout"
    /\ IF CaseConstraintAdmits(job[r].case)
       THEN /\ closeout' = [closeout EXCEPT ![r] = job[r]]
            /\ Answer(r, "done")
       ELSE /\ Answer(r, "failed")
            /\ UNCHANGED closeout
    /\ UNCHANGED <<order, evidence, invoice, event>>

FulfilmentStep(r) ==
    \/ \E o \in Orders :
        \/ \E decision \in {"accepted", "rejected"} : Acknowledge(r, o, decision)
        \/ SubmitEvidence(r, o)
        \/ \E e \in {q \in Requests : evidence[q] # None} \union {None}, amount \in Amounts,
              hash \in Hashes \union {r} : SubmitInvoice(r, o, e, amount, hash)
        \/ \E c \in Cases : CloseCase(r, c, o)
    \/ RecordAcknowledgement(r) \/ SaveOrder(r)
    \/ SaveBaseEvidence(r) \/ ListEvents(r) \/ RecordEvidence(r) \/ AnchorEvidence(r)
    \/ SaveFinalEvidence(r)
    \/ ReadLinkedEvidence(r) \/ FindInvoiceHash(r) \/ RecordInvoice(r) \/ InsertInvoice(r)
    \/ \E i \in Requests : VerifyMatch(r, i) \/ ApprovePayment(r, i)
    \/ ReadMatchedOrder(r) \/ ListMatchedEvidence(r) \/ RecordMatch(r)
    \/ RecordApproval(r) \/ SaveInvoice(r)
    \/ ListEvidence(r) \/ ListInvoices(r) \/ ListCloseouts(r) \/ InsertCloseout(r)

vars == <<handling, fulfilmentVars>>

Init == HandlingInit /\ FulfilmentInit

Next ==
    \/ \E r \in Requests : FulfilmentStep(r) \/ (QueryFails(r) /\ UNCHANGED fulfilmentVars)
    \/ Crash /\ UNCHANGED fulfilmentVars

Spec == Init /\ [][Next]_vars

-----------------------------------------------------------------------------
(* Properties                                                              *)

\* The local variables of a handler are those of the query it awaits.
TypeOK ==
    /\ order \in [Orders -> Order]
    /\ evidence \in [Requests -> Evidence \union {None}]
    /\ invoice \in [Requests -> Invoice \union {None}]
    /\ closeout \in [Requests -> Closeout \union {None}]
    /\ event \in [Requests -> Event \union {None}]
    /\ \A r \in Requests : InFlight(r) = (job[r] # None)

\* Whatever overlaps, an invoice that passed its match, approved or not, has
\* the amount of its order and a stored evidence record of the order, the one
\* it names if it names one; and its status says what its match result says.
MatchIsBacked ==
    \A i \in Requests : invoice[i] # None =>
        LET row == invoice[i]
        IN  /\ row.match = "passed" =>
                   /\ row.amount = Terms[row.order].amount
                   /\ row.matched \in EvidenceOf(row.order)
                   /\ row.evidence \in {None, row.matched}
            /\ (row.match = "passed") = (row.status \in {"matchPassed", "paymentApproved"})
            /\ (row.match = "notChecked") = (row.status = "submitted")

Chained(events) ==
    /\ event[events[1]] # None /\ event[events[1]].prev = None
    /\ \A k \in 2..Len(events) : event[events[k]] # None /\ event[events[k]].prev = events[k - 1]

\* Every event continues one of its own order that was there before it, and
\* the events an order or an invoice lists are one chain that ends at the
\* row's status, though overlapping handlers fork the trail: a payment
\* approval follows the match it relies on.
RowsTellTheirTrail ==
    /\ \A r \in Requests : event[r] # None /\ event[r].prev # None =>
           event[event[r].prev] # None /\ event[event[r].prev].order = event[r].order
    /\ \A o \in Orders :
        /\ Chained(order[o].events)
        /\ event[LastOf(order[o])].type =
               [ created |-> "purchaseOrderCreated", accepted |-> "purchaseOrderAccepted",
                 rejected |-> "purchaseOrderRejected" ][order[o].status]
    /\ \A i \in Requests : invoice[i] # None =>
        LET events == invoice[i].events
        IN  /\ Chained(events)
            /\ event[LastOf(invoice[i])].type =
                   [ submitted |-> "invoiceIssued", matchPassed |-> "invoiceMatchPassed",
                     matchFailed |-> "invoiceMatchFailed",
                     paymentApproved |-> "invoicePaymentApproved" ][invoice[i].status]
            /\ \A k \in 2..Len(events) :
                   event[events[k]].type = "invoicePaymentApproved"
                       => event[events[k - 1]].type = "invoiceMatchPassed"

\* Evidence, invoices and closeouts exist only for an order whose acceptance
\* was recorded, though a late acknowledgement may have rejected it since;
\* and a closeout has evidence behind it.
FulfilmentFollowsAcceptance ==
    LET Accepted(o) == \E r \in Requests :
            event[r] # None /\ event[r].type = "purchaseOrderAccepted" /\ event[r].order = o
    IN  \A r \in Requests :
        /\ evidence[r] # None => Accepted(evidence[r].order)
        /\ invoice[r] # None => Accepted(invoice[r].order)
        /\ closeout[r] # None =>
               Accepted(closeout[r].order) /\ EvidenceOf(closeout[r].order) # {}

\* An invoice hash is stored once and a case is closed once; the closeout
\* counts records that exist, and its score stays on the scale.
NoDuplicates ==
    /\ \A i, j \in Requests : i # j /\ invoice[i] # None /\ invoice[j] # None
           => invoice[i].hash # invoice[j].hash
    /\ \A c, d \in Requests : c # d /\ closeout[c] # None /\ closeout[d] # None
           => closeout[c].case # closeout[d].case
    /\ \A c \in Requests : closeout[c] # None =>
           LET m == closeout[c].metrics
           IN  /\ m.evidence \in 1..Cardinality(EvidenceOf(closeout[c].order))
               /\ m.invoices <= Cardinality(InvoicesOf(closeout[c].order))
               /\ m.exceptions <= m.invoices
               /\ m.score <= 100

=============================================================================
