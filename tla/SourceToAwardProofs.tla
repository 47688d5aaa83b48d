------------------------- MODULE SourceToAwardProofs -------------------------
(***************************************************************************)
(* Proofs about SourceToAward: its types, its inductive invariant and the  *)
(* safety properties that hold however the requests overtake each other,   *)
(* for any number of requests, suppliers and cases.                        *)
(***************************************************************************)
EXTENDS SourceToAward, TLAPS, FiniteSetTheorems

-----------------------------------------------------------------------------
(* Trails.                                                                 *)

LEMMA LastHasType ==
    ASSUME NEW trail \in Seq(EventIds)
    PROVE  /\ LastOf(trail) \in EventIds \union {None}
           /\ trail # <<>> => /\ Len(trail) \in Nat \ {0}
                              /\ LastOf(trail) = trail[Len(trail)]
                              /\ LastOf(trail) \in EventIds
BY DEF LastOf

LEMMA AppendFacts ==
    ASSUME NEW trail \in Seq(EventIds), NEW id \in EventIds
    PROVE  /\ Append(trail, id) \in Seq(EventIds)
           /\ Append(trail, id) # <<>>
           /\ LastOf(Append(trail, id)) = id
           /\ Len(Append(trail, id)) = Len(trail) + 1
           /\ Append(trail, id)[Len(trail) + 1] = id
           /\ \A k \in 1..Len(trail) : Append(trail, id)[k] = trail[k]
BY DEF LastOf

-----------------------------------------------------------------------------
(* Events and orders stay, so what was said about them stays true.         *)

TablesGrow ==
    /\ events \subseteq events'
    /\ \A o \in Requests : orders[o] # None => orders'[o] = orders[o]

LEMMA RecordedStays ==
    ASSUME TablesGrow, NEW id, NEW c, NEW prev, Recorded(id, c, prev)
    PROVE  Recorded(id, c, prev)'
BY DEF TablesGrow, Recorded

LEMMA ToldStays ==
    ASSUME TablesGrow, NEW id, NEW c, NEW s, Told(id, c, s)
    PROVE  Told(id, c, s)'
BY DEF TablesGrow, Told

LEMMA IsTrailStays ==
    ASSUME TablesGrow, NEW trail, NEW c, IsTrailOf(trail, c)
    PROVE  IsTrailOf(trail, c)'
BY RecordedStays DEF IsTrailOf, Follows

LEMMA TrailStays ==
    ASSUME TablesGrow, NEW row, NEW c, TrailFits(row, c)
    PROVE  TrailFits(row, c)'
BY IsTrailStays DEF TrailFits, LastOf, StatusAfter

LEMMA AnswersStays ==
    ASSUME TablesGrow, NEW q, NEW row, NEW c, Answers(q, row, c)
    PROVE  Answers(q, row, c)'
BY ToldStays DEF Answers, InTrail

LEMMA QuotationsStay ==
    ASSUME TablesGrow, NEW row, NEW c, QuotationsFit(row, c)
    PROVE  QuotationsFit(row, c)'
BY AnswersStays DEF QuotationsFit, StageFits, InTrail, OnePerSupplier

LEMMA AwardStays ==
    ASSUME TablesGrow, NEW row \in Row, AwardFits(row)
    PROVE  AwardFits(row)'
<1>1. row.award # None => row.order \in Requests
    BY DEF AwardFits, Row
<1>2. [supplier |-> row.award.supplier, quotation |-> row.award.id] # None
         => (row.award # None => orders'[row.order] = orders[row.order])
    BY <1>1 DEF AwardFits, TablesGrow
<1>3. row.award # None =>
          [supplier |-> row.award.supplier, quotation |-> row.award.id] # None
  <2>1. row.award # None => row.award \in Quotation
      BY DEF Row
  <2>2. row.award # None =>
            [supplier |-> row.award.supplier, quotation |-> row.award.id] \in Order
      BY <2>1 DEF Quotation, Order
  <2> QED BY <2>2, NothingAssumption
<1> QED BY <1>2, <1>3 DEF AwardFits

LEMMA RowStays ==
    ASSUME TablesGrow, NEW row \in Row, NEW c, RowFits(row, c)
    PROVE  RowFits(row, c)'
BY TrailStays, QuotationsStay, AwardStays DEF RowFits

LEMMA BeingRecordedStays ==
    ASSUME TablesGrow, NEW r, NEW j, BeingRecorded(r, j)
    PROVE  BeingRecorded(r, j)'
BY IsTrailStays, AnswersStays
DEF BeingRecorded, StageFits, InTrail, OnePerSupplier, StatusAfter, Follows, LastOf, NewRow

LEMMA JobStays ==
    ASSUME TablesGrow, NEW r \in Requests, orders'[r] = orders[r],
           NEW j \in Job, NEW step, JobFits(step, r, j)
    PROVE  JobFits(step, r, j)'
<1>1. j.row # None => j.row \in Row
    BY DEF Job
<1>2. Selected(r, j) => Selected(r, j)'
    BY DEF Selected
<1>3. Recording(r, j) => Recording(r, j)'
    BY <1>1, <1>2, BeingRecordedStays, AwardStays DEF Recording
<1>4. Ordering(r, j) => Ordering(r, j)'
    BY <1>2, TrailStays, QuotationsStay, ToldStays DEF Ordering, LastOf
<1>5. j.row # None /\ RowFits(j.row, j.case) => RowFits(j.row, j.case)'
    BY <1>1, RowStays
<1> QED BY <1>3, <1>4, <1>5 DEF JobFits
-----------------------------------------------------------------------------
(* Moving a request, and what it leaves alone.                             *)

LEMMA InFlightHasJob ==
    ASSUME TypeOK, NEW r \in Requests, InFlight(r)
    PROVE  /\ job[r] \in Job /\ job[r] # None
           /\ job[r].row # None => job[r].row \in Row
           /\ job[r].case # None => job[r].case \in Requests
BY DEF TypeOK, Job

LEMMA StartIsTyped ==
    ASSUME TypeOK, NEW r \in Requests, NEW step \in InFlightSteps, NEW j \in Job,
           Start(r, step, j)
    PROVE  /\ pc' \in [Requests -> {"idle"} \union InFlightSteps \union Ended]
           /\ job' \in [Requests -> Job \union {None}]
           /\ \A q \in Requests : InFlight(q)' <=> job'[q] # None
           /\ pc'[r] = step /\ job'[r] = j
           /\ \A q \in Requests \ {r} : pc'[q] = pc[q] /\ job'[q] = job[q]
BY NothingAssumption DEF TypeOK, Start, InFlight

LEMMA EndIsTyped ==
    ASSUME TypeOK, NEW r \in Requests, NEW how \in Ended, End(r, how)
    PROVE  /\ pc' \in [Requests -> {"idle"} \union InFlightSteps \union Ended]
           /\ job' \in [Requests -> Job \union {None}]
           /\ \A q \in Requests : InFlight(q)' <=> job'[q] # None
           /\ pc'[r] = how /\ job'[r] = None
           /\ \A q \in Requests \ {r} : pc'[q] = pc[q] /\ job'[q] = job[q]
BY DEF TypeOK, End, InFlight, InFlightSteps, Ended

LEMMA EndedFits ==
    ASSUME NEW r \in Requests, pc'[r] \in Ended
    PROVE  RequestFits(r)'
BY DEF RequestFits, InFlight, InFlightSteps, Ended

\* A request that a step starts fits if its new local state does.
LEMMA MovedFits ==
    ASSUME NEW r \in Requests, NEW step \in InFlightSteps, NEW j,
           pc'[r] = step, job'[r] = j, JobFits(step, r, j)'
    PROVE  RequestFits(r)'
BY DEF RequestFits, InFlightSteps, JobFits, Recording, Ordering, BeingRecorded, Selected,
       IsTrailOf, TrailFits, QuotationsFit, AwardFits, RowFits, Recorded, Told, Answers

\* A request that does not move keeps what the invariant says of it.
LEMMA OthersStillFit ==
    ASSUME TypeOK, RequestsFit, TablesGrow, NEW q \in Requests,
           pc'[q] = pc[q], job'[q] = job[q], orders'[q] = orders[q]
    PROVE  RequestFits(q)'
<1>1. CASE InFlight(q)
  <2>1. PICK j \in Job, step \in InFlightSteps : j = job[q] /\ step = pc[q]
      BY <1>1, InFlightHasJob DEF InFlight
  <2>2. JobFits(step, q, j)
      BY <1>1, <2>1 DEF RequestsFit, RequestFits
  <2>3. JobFits(step, q, j)'
      BY <2>2, JobStays
  <2> QED BY <2>1, <2>3, MovedFits
<1>2. CASE ~InFlight(q)
    BY <1>2 DEF RequestsFit, RequestFits, InFlight
<1> QED BY <1>1, <1>2

\* Rows that are not written keep what the invariant says of them.
LEMMA RowsStillFit ==
    ASSUME TypeOK, RowsFit, TablesGrow, NEW c \in Requests,
           cases'[c] = cases[c], cases[c] # None
    PROVE  RowFits(cases[c], c)'
<1>1. PICK row \in Row : row = cases[c]
    BY DEF TypeOK
<1>2. RowFits(row, c)'
    BY <1>1, RowStays DEF RowsFit
<1>3. row = cases'[c]
    BY <1>1
<1> QED BY <1>1, <1>2, <1>3
    DEF RowFits, TrailFits, QuotationsFit, AwardFits, IsTrailOf, Recorded, Told, Answers,
        StageFits, InTrail, OnePerSupplier

\* A step that stores no case and no order of an award keeps the invariant if the
\* requests it moves fit.
LEMMA QuietStep ==
    ASSUME IInv, TypeOK', TablesGrow, UNCHANGED <<cases, orders>>,
           \A q \in Requests : (pc'[q] = pc[q] /\ job'[q] = job[q]) \/ RequestFits(q)'
    PROVE  IInv'
<1>1. RequestsFit'
  <2>1. ASSUME NEW q \in Requests
        PROVE  RequestFits(q)'
      BY OthersStillFit DEF IInv
  <2> QED BY <2>1 DEF RequestsFit
<1>2. RowsFit'
    BY RowsStillFit DEF IInv, RowsFit
<1>3. OrdersAreAwarded'
    BY ToldStays DEF IInv, OrdersAreAwarded
<1> QED BY <1>1, <1>2, <1>3 DEF IInv

-----------------------------------------------------------------------------
(* One lemma for each action that starts a request.                        *)

LEMMA ArrivalKeeps ==
    ASSUME IInv, NEW r \in Requests, NEW step \in InFlightSteps, NEW j \in Job,
           Start(r, step, j), UNCHANGED <<cases, orders, events, limit>>,
           JobFits(step, r, j)
    PROVE  IInv'
<1>1. TablesGrow
    BY DEF TablesGrow
<1>2. TypeOK' /\ pc'[r] = step /\ job'[r] = j
      /\ \A q \in Requests \ {r} : pc'[q] = pc[q] /\ job'[q] = job[q]
    BY StartIsTyped DEF IInv, TypeOK
<1>3. JobFits(step, r, j)'
    BY <1>1, JobStays
<1>4. RequestFits(r)'
    BY <1>2, <1>3, MovedFits
<1> QED BY <1>1, <1>2, <1>4, QuietStep

LEMMA CreateRequisitionKeeps ==
    ASSUME IInv, NEW r \in Requests, CreateRequisition(r)
    PROVE  IInv'
<1>1. <<>> \in Seq(EventIds)
    OBVIOUS
<1>2. NewRow \in Row
    BY <1>1 DEF NewRow, Row, Statuses
<1>3. PICK j \in Job : j = [ case |-> r, row |-> NewRow,
                             action |-> "requisitionCreated", supplier |-> None ]
    BY <1>2 DEF Job, Actions, CaseActions
<1>4. JobFits("recordEvent", r, j)
    BY <1>2, <1>3, NothingAssumption
    DEF JobFits, Recording, BeingRecorded, StatusAfter, StageFits, OnePerSupplier, NewRow,
        CaseActions
<1> QED BY <1>3, <1>4, ArrivalKeeps DEF CreateRequisition, InFlightSteps

\* The status of a stored case tells the last event of its trail.
LEMMA StatusTellsLast ==
    ASSUME NEW row \in Row, NEW c, RowFits(row, c)
    PROVE  /\ IsTrailOf(row.trail, c)
           /\ row.status = "requisitionPendingApproval" =>
                 LastOf(row.trail).type = "requisitionCreated"
           /\ row.status = "requisitionApproved" =>
                 LastOf(row.trail).type = "requisitionApproved"
           /\ row.status = "rfqIssued" => LastOf(row.trail).type = "rfqIssued"
           /\ row.status = "quotationReceived" =>
                 LastOf(row.trail).type = "quotationSubmitted"
BY DEF RowFits, TrailFits, StatusAfter

LEMMA ApproveRequisitionKeeps ==
    ASSUME IInv, NEW r \in Requests, NEW c \in Requests, ApproveRequisition(r, c)
    PROVE  IInv'
<1>1. PICK old \in Row : old = cases[c]
    BY DEF ApproveRequisition, IInv, TypeOK
<1>2. RowFits(old, c) /\ old.status = "requisitionPendingApproval"
    BY <1>1 DEF ApproveRequisition, IInv, RowsFit
<1>3. PICK row \in Row : row = [old EXCEPT !.status = "requisitionApproved"]
    BY DEF Row, Statuses
<1>4. /\ row.status = "requisitionApproved" /\ row.rfq = old.rfq
      /\ row.invited = old.invited /\ row.quotations = old.quotations
      /\ row.award = old.award /\ row.order = old.order /\ row.trail = old.trail
    BY <1>3 DEF Row
<1>5. PICK j \in Job : j = [ case |-> c, row |-> row,
                             action |-> "requisitionApproved", supplier |-> None ]
    BY DEF Job, Actions, CaseActions
<1>6. old.award = None /\ old.order = None /\ old.rfq = None /\ old.quotations = {}
    BY <1>2 DEF RowFits, AwardFits, QuotationsFit, StageFits
<1>7. Follows(LastOf(row.trail), [by |-> r, type |-> "requisitionApproved"])
      /\ IsTrailOf(row.trail, c)
    BY <1>2, <1>4, StatusTellsLast DEF Follows
<1>8. JobFits("recordEvent", r, j)
    BY <1>4, <1>5, <1>6, <1>7, NothingAssumption
    DEF JobFits, Recording, BeingRecorded, StatusAfter, StageFits, OnePerSupplier, CaseActions
<1> QED BY <1>1, <1>3, <1>5, <1>8, ArrivalKeeps DEF ApproveRequisition, InFlightSteps

LEMMA IssueRfqKeeps ==
    ASSUME IInv, NEW r \in Requests, NEW c \in Requests, NEW invited \in SUBSET Suppliers,
           IssueRfq(r, c, invited)
    PROVE  IInv'
<1>1. PICK old \in Row : old = cases[c]
    BY DEF IssueRfq, IInv, TypeOK
<1>2. RowFits(old, c) /\ old.status = "requisitionApproved"
    BY <1>1 DEF IssueRfq, IInv, RowsFit
<1>3. PICK row \in Row : row = [old EXCEPT !.status = "rfqIssued", !.rfq = r,
                                           !.invited = invited]
    BY DEF Row, Statuses
<1>4. /\ row.status = "rfqIssued" /\ row.rfq = r
      /\ row.quotations = old.quotations
      /\ row.award = old.award /\ row.order = old.order /\ row.trail = old.trail
    BY <1>3 DEF Row
<1>5. PICK j \in Job : j = [ case |-> c, row |-> row,
                             action |-> "rfqIssued", supplier |-> None ]
    BY DEF Job, Actions, CaseActions
<1>6. old.award = None /\ old.order = None /\ old.quotations = {}
    BY <1>2 DEF RowFits, AwardFits, QuotationsFit, StageFits
<1>7. Follows(LastOf(row.trail), [by |-> r, type |-> "rfqIssued"])
      /\ IsTrailOf(row.trail, c)
    BY <1>2, <1>4, StatusTellsLast DEF Follows
<1>8. JobFits("recordEvent", r, j)
    BY <1>4, <1>5, <1>6, <1>7, NothingAssumption
    DEF JobFits, Recording, BeingRecorded, StatusAfter, StageFits, OnePerSupplier, CaseActions
<1> QED BY <1>1, <1>3, <1>5, <1>8, ArrivalKeeps DEF IssueRfq, InFlightSteps

LEMMA SubmitQuotationKeeps ==
    ASSUME IInv, NEW r \in Requests, NEW c \in Requests, NEW s \in Suppliers,
           SubmitQuotation(r, c, s)
    PROVE  IInv'
<1>1. PICK old \in Row : old = cases[c]
    BY DEF SubmitQuotation, IInv, TypeOK
<1>2. RowFits(old, c) /\ old.rfq # None /\ s \in old.invited /\ old.award = None
    BY <1>1 DEF SubmitQuotation, IInv, RowsFit
<1>3. PICK quotation \in Quotation : quotation = [id |-> r, supplier |-> s]
    BY DEF Quotation
<1>4. PICK all \in SUBSET Quotation : all = WithQuotation(old.quotations, quotation)
  <2>1. WithQuotation(old.quotations, quotation) \in SUBSET Quotation
      BY DEF WithQuotation, Row
  <2> QED BY <2>1
<1>5. PICK row \in Row : row = [old EXCEPT !.status = "quotationReceived",
                                           !.quotations = all]
    BY DEF Row, Statuses
<1>6. /\ row.status = "quotationReceived" /\ row.rfq = old.rfq
      /\ row.invited = old.invited /\ row.quotations = all
      /\ row.award = old.award /\ row.order = old.order /\ row.trail = old.trail
    BY <1>5 DEF Row
<1>7. PICK j \in Job : j = [ case |-> c, row |-> row,
                             action |-> "quotationSubmitted", supplier |-> s ]
    BY DEF Job, Actions, CaseActions
<1>8. old.order = None /\ old.status \in {"rfqIssued", "quotationReceived"}
    BY <1>2 DEF RowFits, AwardFits, QuotationsFit, StageFits, Row, Statuses
<1>9. Follows(LastOf(row.trail), [by |-> r, type |-> "quotationSubmitted"])
      /\ IsTrailOf(row.trail, c)
    BY <1>2, <1>6, <1>8, StatusTellsLast DEF Follows
<1>10. OnePerSupplier(all)
    BY <1>2, <1>4 DEF RowFits, QuotationsFit, OnePerSupplier, WithQuotation
<1>11. \A q \in all : Answers(q, row, c) \/ (q = quotation /\ q.supplier \in row.invited)
  <2>1. ASSUME NEW q \in all, q # quotation
        PROVE  Answers(q, row, c)
    <3>1. q \in old.quotations
        BY <1>4, <2>1 DEF WithQuotation
    <3>2. Answers(q, old, c)
        BY <1>2, <3>1 DEF RowFits, QuotationsFit
    <3> QED BY <1>6, <3>2 DEF Answers, InTrail
  <2>2. quotation.supplier \in row.invited
      BY <1>2, <1>3, <1>6
  <2> QED BY <2>1, <2>2
<1>12. StageFits(row) /\ InTrail(row, [by |-> row.rfq, type |-> "rfqIssued"])
    BY <1>2, <1>4, <1>6 DEF StageFits, WithQuotation, RowFits, QuotationsFit, InTrail
<1>13. JobFits("recordEvent", r, j)
    BY <1>2, <1>3, <1>6, <1>7, <1>8, <1>9, <1>10, <1>11, <1>12, NothingAssumption
    DEF JobFits, Recording, BeingRecorded, StatusAfter, CaseActions
<1>14. row = [cases[c] EXCEPT !.status = "quotationReceived",
                              !.quotations = WithQuotation(@, [id |-> r, supplier |-> s])]
    BY <1>1, <1>3, <1>4, <1>5
<1> QED BY <1>7, <1>13, <1>14, ArrivalKeeps DEF SubmitQuotation, InFlightSteps

LEMMA AwardRfqKeeps ==
    ASSUME IInv, NEW r \in Requests, NEW c \in Requests, NEW q \in Quotation,
           AwardRfq(r, c, q)
    PROVE  IInv'
<1>1. PICK old \in Row : old = cases[c]
    BY DEF AwardRfq, IInv, TypeOK
<1>2. RowFits(old, c) /\ old.rfq # None /\ q \in old.quotations /\ old.award = None
    BY <1>1 DEF AwardRfq, IInv, RowsFit
<1>3. PICK row \in Row : row = [old EXCEPT !.status = "awarded", !.award = q]
    BY DEF Row, Statuses
<1>4. /\ row.status = "awarded" /\ row.rfq = old.rfq
      /\ row.invited = old.invited /\ row.quotations = old.quotations
      /\ row.award = q /\ row.order = old.order /\ row.trail = old.trail
    BY <1>3 DEF Row
<1>5. PICK j \in Job : j = [ case |-> c, row |-> row,
                             action |-> "awardSelected", supplier |-> q.supplier ]
    BY DEF Job, Actions, CaseActions, Quotation
<1>6. old.order = None /\ old.status = "quotationReceived"
    BY <1>2 DEF RowFits, AwardFits, QuotationsFit, StageFits, Row, Statuses
<1>7. Follows(LastOf(row.trail), [by |-> r, type |-> "awardSelected"])
      /\ IsTrailOf(row.trail, c)
    BY <1>2, <1>4, <1>6, StatusTellsLast DEF Follows
<1>8. orders[r] = None
    BY DEF AwardRfq, NextToArrive, IInv, RequestsFit, RequestFits
<1>9. /\ StageFits(row) /\ OnePerSupplier(row.quotations)
      /\ InTrail(row, [by |-> row.rfq, type |-> "rfqIssued"])
      /\ \A p \in row.quotations : Answers(p, row, c)
    BY <1>2, <1>4, <1>6 DEF RowFits, QuotationsFit, StageFits, Answers, InTrail
<1>10. JobFits("recordEvent", r, j)
    BY <1>2, <1>4, <1>5, <1>6, <1>7, <1>8, <1>9, NothingAssumption
    DEF JobFits, Recording, BeingRecorded, StatusAfter, Selected, CaseActions
<1> QED BY <1>1, <1>3, <1>5, <1>10, ArrivalKeeps DEF AwardRfq, InFlightSteps

LEMMA CreateOrderKeeps ==
    ASSUME IInv, NEW r \in Requests, NEW s \in Suppliers, CreateOrder(r, s)
    PROVE  IInv'
<1>1. PICK j \in Job : j = [ case |-> None, row |-> None,
                             action |-> "purchaseOrderCreated", supplier |-> s ]
    BY DEF Job, Actions
<1>2. orders[r] = None
    BY DEF CreateOrder, NextToArrive, IInv, RequestsFit, RequestFits
<1>3. JobFits("checkEligibility", r, j)
    BY <1>1, <1>2, NothingAssumption DEF JobFits, Ordering
<1> QED BY <1>1, <1>3, ArrivalKeeps DEF CreateOrder, InFlightSteps

-----------------------------------------------------------------------------
(* One lemma for each later step of a request.                             *)

\* Recording an event extends the trail of the snapshot by it.
LEMMA TrailExtends ==
    ASSUME NEW trail \in Seq(EventIds), NEW c, NEW id \in EventIds,
           IsTrailOf(trail, c)', Follows(LastOf(trail), id), Recorded(id, c, LastOf(trail))'
    PROVE  IsTrailOf(Append(trail, id), c)'
<1>1. PICK more \in Seq(EventIds) : more = Append(trail, id)
    BY AppendFacts
<1>2. /\ more # <<>> /\ Len(more) = Len(trail) + 1 /\ more[Len(trail) + 1] = id
      /\ \A k \in 1..Len(trail) : more[k] = trail[k]
    BY <1>1, AppendFacts
<1>3. Len(trail) \in Nat \ {0} /\ LastOf(trail) = trail[Len(trail)]
    BY LastHasType DEF IsTrailOf
<1>4. more[1] = trail[1]
    BY <1>2, <1>3
<1>5. ASSUME NEW k \in 2..Len(more)
      PROVE  Recorded(more[k], c, more[k - 1])' /\ Follows(more[k - 1], more[k])
  <2>1. CASE k \in 2..Len(trail)
    <3>1. k \in 1..Len(trail) /\ k - 1 \in 1..Len(trail)
        BY <2>1
    <3>2. more[k] = trail[k] /\ more[k - 1] = trail[k - 1]
        BY <1>2, <3>1
    <3>3. Recorded(trail[k], c, trail[k - 1])' /\ Follows(trail[k - 1], trail[k])
        BY <2>1 DEF IsTrailOf, Recorded, Follows
    <3> QED BY <3>2, <3>3 DEF Recorded
  <2>2. CASE k = Len(trail) + 1
    <3>1. more[k] = id /\ more[k - 1] = LastOf(trail)
        BY <1>2, <1>3, <2>2
    <3> QED BY <3>1 DEF Recorded, LastOf
  <2> QED BY <1>2, <1>3, <2>1, <2>2
<1>6. trail[1] = [by |-> c, type |-> "requisitionCreated"] /\ Recorded(trail[1], c, None)'
    BY DEF IsTrailOf, Recorded
<1> QED BY <1>1, <1>2, <1>4, <1>5, <1>6 DEF IsTrailOf, Recorded, Follows

LEMMA CheckEligibilityKeeps ==
    ASSUME IInv, NEW r \in Requests, NEW eligible \in BOOLEAN, CheckEligibility(r, eligible)
    PROVE  IInv'
<1>1. pc[r] = "checkEligibility" /\ InFlight(r) /\ UNCHANGED <<cases, orders, events, limit>>
    BY DEF CheckEligibility, InFlight, InFlightSteps
<1>2. TablesGrow
    BY <1>1 DEF TablesGrow
<1>3. CASE End(r, "rejected")
  <2>1. TypeOK' /\ pc'[r] \in Ended
        /\ \A q \in Requests \ {r} : pc'[q] = pc[q] /\ job'[q] = job[q]
      BY <1>1, <1>3, EndIsTyped DEF IInv, TypeOK, Ended
  <2> QED BY <1>1, <1>2, <2>1, EndedFits, QuietStep
<1>4. CASE pc' = [pc EXCEPT ![r] = "recordOrder"] /\ job' = job
  <2>1. PICK j \in Job : j = job[r]
      BY <1>1, InFlightHasJob DEF IInv
  <2>2. JobFits("checkEligibility", r, j)
      BY <1>1, <2>1 DEF IInv, RequestsFit, RequestFits
  <2>3. JobFits("recordOrder", r, j)
      BY <2>2 DEF JobFits
  <2>4. JobFits("recordOrder", r, j)'
      BY <1>1, <1>2, <2>3, JobStays
  <2>5. TypeOK' /\ pc'[r] = "recordOrder" /\ job'[r] = j
        /\ \A q \in Requests \ {r} : pc'[q] = pc[q] /\ job'[q] = job[q]
      BY <1>1, <1>4, <2>1 DEF IInv, TypeOK, InFlight, InFlightSteps
  <2>6. RequestFits(r)'
      BY <2>4, <2>5, MovedFits DEF InFlightSteps
  <2> QED BY <1>1, <1>2, <2>5, <2>6, QuietStep
<1> QED BY <1>3, <1>4 DEF CheckEligibility

LEMMA RecordOrderKeeps ==
    ASSUME IInv, NEW r \in Requests, RecordOrder(r)
    PROVE  IInv'
<1>1. pc[r] = "recordOrder" /\ InFlight(r) /\ UNCHANGED <<cases, orders, job, limit>>
    BY DEF RecordOrder, InFlight, InFlightSteps
<1>2. PICK j \in Job : j = job[r]
    BY <1>1, InFlightHasJob DEF IInv
<1>3. PICK ev \in Event :
          ev = [ id |-> [by |-> r, type |-> "purchaseOrderCreated"], case |-> r,
                 prev |-> None, supplier |-> j.supplier ]
    BY DEF Event, EventIds, Actions, Job
<1>4. events' = events \union {ev} /\ pc' = [pc EXCEPT ![r] = "saveOrder"]
    BY <1>2, <1>3 DEF RecordOrder
<1>5. TablesGrow
    BY <1>1, <1>4 DEF TablesGrow
<1>6. TypeOK' /\ pc'[r] = "saveOrder" /\ job'[r] = j
      /\ \A q \in Requests \ {r} : pc'[q] = pc[q] /\ job'[q] = job[q]
    BY <1>1, <1>2, <1>4 DEF IInv, TypeOK, InFlight, InFlightSteps
<1>7. JobFits("recordOrder", r, j)
    BY <1>1, <1>2 DEF IInv, RequestsFit, RequestFits
<1>8. JobFits("saveOrder", r, j)
    BY <1>7 DEF JobFits
<1>9. JobFits("saveOrder", r, j)'
    BY <1>1, <1>5, <1>8, JobStays
<1>10. RequestFits(r)'
    BY <1>6, <1>9, MovedFits DEF InFlightSteps
<1> QED BY <1>1, <1>5, <1>6, <1>10, QuietStep

LEMMA SaveCaseKeeps ==
    ASSUME IInv, NEW r \in Requests, SaveCase(r)
    PROVE  IInv'
<1>1. pc[r] = "saveCase" /\ InFlight(r) /\ UNCHANGED <<orders, events, limit>>
      /\ End(r, "done")
    BY DEF SaveCase, InFlight, InFlightSteps
<1>2. TablesGrow
    BY <1>1 DEF TablesGrow
<1>3. job[r].case # None /\ job[r].row # None /\ RowFits(job[r].row, job[r].case)
    BY <1>1 DEF IInv, RequestsFit, RequestFits, JobFits
<1>4. PICK row \in Row, c \in Requests : row = job[r].row /\ c = job[r].case
    BY <1>1, <1>3, InFlightHasJob DEF IInv
<1>5. RowFits(row, c)'
    BY <1>2, <1>3, <1>4, RowStays
<1>6. cases' = [cases EXCEPT ![c] = row]
    BY <1>4 DEF SaveCase
<1>7. cases'[c] = row /\ \A d \in Requests \ {c} : cases'[d] = cases[d]
    BY <1>6 DEF IInv, TypeOK
<1>8. TypeOK' /\ pc'[r] \in Ended
      /\ \A q \in Requests \ {r} : pc'[q] = pc[q] /\ job'[q] = job[q]
    BY <1>1, <1>6, EndIsTyped DEF IInv, TypeOK, Ended
<1>9. RequestsFit'
  <2>1. ASSUME NEW q \in Requests \ {r}
        PROVE  RequestFits(q)'
      BY <1>1, <1>2, <1>8, OthersStillFit DEF IInv
  <2> QED BY <1>8, <2>1, EndedFits DEF RequestsFit
<1>10. RowsFit'
  <2>1. ASSUME NEW d \in Requests \ {c}, cases'[d] # None
        PROVE  RowFits(cases[d], d)'
      BY <1>2, <1>7, <2>1, RowsStillFit DEF IInv
  <2>2. RowFits(cases[c], c)'
      BY <1>5, <1>7
      DEF RowFits, TrailFits, QuotationsFit, AwardFits, IsTrailOf, Recorded, Told, Answers,
          StageFits, InTrail, OnePerSupplier
  <2> QED BY <2>1, <2>2 DEF RowsFit
<1>11. OrdersAreAwarded'
    BY <1>1, <1>2, ToldStays DEF IInv, OrdersAreAwarded
<1> QED BY <1>8, <1>9, <1>10, <1>11 DEF IInv

LEMMA QueryFailsKeeps ==
    ASSUME IInv, NEW r \in Requests, QueryFails(r)
    PROVE  IInv'
<1>1. TypeOK' /\ pc'[r] \in Ended /\ UNCHANGED <<cases, orders, events, limit>>
      /\ \A q \in Requests \ {r} : pc'[q] = pc[q] /\ job'[q] = job[q]
    BY EndIsTyped DEF QueryFails, IInv, TypeOK, Ended
<1>2. TablesGrow
    BY <1>1 DEF TablesGrow
<1> QED BY <1>1, <1>2, EndedFits, QuietStep

LEMMA CrashKeeps ==
    ASSUME IInv, Crash
    PROVE  IInv'
<1>1. UNCHANGED <<cases, orders, events, limit>>
    BY DEF Crash
<1>2. \A q \in Requests : /\ pc'[q] = IF InFlight(q) THEN "failed" ELSE pc[q]
                          /\ job'[q] = None
    BY DEF Crash
<1>3. TypeOK'
    BY <1>1, <1>2 DEF Crash, IInv, TypeOK, InFlight, InFlightSteps, Ended
<1>4. \A q \in Requests : (pc'[q] = pc[q] /\ job'[q] = job[q]) \/ pc'[q] \in Ended
    BY <1>2 DEF IInv, TypeOK, Ended
<1>5. TablesGrow
    BY <1>1 DEF TablesGrow
<1> QED BY <1>1, <1>3, <1>4, <1>5, EndedFits, QuietStep

\* A row with a longer trail is a row.
LEMMA LongerTrail ==
    ASSUME NEW row \in Row, NEW trail \in Seq(EventIds)
    PROVE  LET new == [row EXCEPT !.trail = trail]
           IN  /\ new \in Row /\ new.trail = trail
               /\ new.status = row.status /\ new.rfq = row.rfq
               /\ new.invited = row.invited /\ new.quotations = row.quotations
               /\ new.award = row.award /\ new.order = row.order
BY DEF Row

LEMMA RecordEventKeeps ==
    ASSUME IInv, NEW r \in Requests, RecordEvent(r)
    PROVE  IInv'
<1>1. pc[r] = "recordEvent" /\ InFlight(r) /\ UNCHANGED <<cases, orders, limit>>
    BY DEF RecordEvent, InFlight, InFlightSteps
<1>2. PICK j \in Job : j = job[r]
    BY <1>1, InFlightHasJob DEF IInv
<1>3. Recording(r, j)
    BY <1>1, <1>2 DEF IInv, RequestsFit, RequestFits, JobFits
<1>4. PICK row \in Row, c \in Requests : row = j.row /\ c = j.case
    BY <1>3 DEF Recording, Job
<1>5. PICK id \in EventIds : id = [by |-> r, type |-> j.action]
    BY DEF EventIds, Job
<1>6. PICK trail \in Seq(EventIds) : trail = row.trail
    BY DEF Row
<1>7. PICK more \in Seq(EventIds) : more = Append(trail, id)
    BY AppendFacts
<1>8. /\ more # <<>> /\ LastOf(more) = id
      /\ Len(trail) \in Nat /\ Len(more) = Len(trail) + 1 /\ more[Len(trail) + 1] = id
      /\ \A k \in 1..Len(trail) : more[k] = trail[k]
    BY <1>7, AppendFacts
<1>9. PICK ev \in Event : ev = [ id |-> id, case |-> c, prev |-> LastOf(trail),
                                 supplier |-> j.supplier ]
    BY LastHasType DEF Event, Job
<1>10. ev = CaseEvent(r)
    BY <1>2, <1>4, <1>5, <1>6, <1>9 DEF CaseEvent
<1>11. PICK new \in Row : new = [row EXCEPT !.trail = more]
    BY LongerTrail
<1>12. /\ new.trail = more
       /\ new.status = row.status /\ new.rfq = row.rfq
       /\ new.invited = row.invited /\ new.quotations = row.quotations
       /\ new.award = row.award /\ new.order = row.order
    BY <1>11, LongerTrail
<1>13. PICK k \in Job : k = [j EXCEPT !.row = new]
    BY DEF Job
<1>14. k.row = new /\ k.case = c /\ k.action = j.action /\ k.supplier = j.supplier
    BY <1>4, <1>13 DEF Job
<1>15. k = [job[r] EXCEPT !.row.trail = Append(@, CaseEvent(r).id)]
  <2>1. more = Append(job[r].row.trail, CaseEvent(r).id)
      BY <1>2, <1>4, <1>6, <1>7, <1>9, <1>10
  <2>2. k = [job[r] EXCEPT !.row.trail = more]
      BY <1>2, <1>4, <1>11, <1>13 DEF Job, Row
  <2> QED BY <2>1, <2>2
<1>16. PICK step \in InFlightSteps :
           step = IF j.action = "awardSelected" THEN "checkEligibility" ELSE "saveCase"
    BY DEF InFlightSteps
<1>17. Start(r, step, k) /\ events' = events \union {ev}
    BY <1>2, <1>10, <1>15, <1>16 DEF RecordEvent
<1>18. TypeOK' /\ pc'[r] = step /\ job'[r] = k
       /\ \A q \in Requests \ {r} : pc'[q] = pc[q] /\ job'[q] = job[q]
    BY <1>1, <1>17, StartIsTyped DEF IInv, TypeOK
<1>19. TablesGrow
    BY <1>1, <1>17 DEF TablesGrow
<1>20. Recorded(id, c, LastOf(trail))' /\ Told(id, c, j.supplier)'
    BY <1>9, <1>17 DEF Recorded, Told, LastOf
<1>21. BeingRecorded(r, j)
    BY <1>3 DEF Recording
<1>22. TrailFits(new, c)'
  <2>1. IsTrailOf(more, c)'
    <3>1. CASE j.action = "requisitionCreated"
      <4>1. trail = <<>> /\ c = r
          BY <1>4, <1>6, <1>21, <3>1 DEF BeingRecorded, NewRow
      <4>2. Len(more) = 1 /\ more[1] = id /\ LastOf(trail) = None
          BY <1>8, <4>1 DEF LastOf
      <4>3. Recorded(id, c, None)'
          BY <1>20, <4>2 DEF Recorded, LastOf
      <4> QED BY <1>5, <1>8, <3>1, <4>1, <4>2, <4>3 DEF IsTrailOf
    <3>2. CASE j.action # "requisitionCreated"
      <4>1. IsTrailOf(trail, c) /\ Follows(LastOf(trail), id)
          BY <1>4, <1>5, <1>6, <1>21, <3>2 DEF BeingRecorded
      <4>2. IsTrailOf(trail, c)'
          BY <1>19, <4>1, IsTrailStays
      <4> QED BY <1>7, <1>20, <4>1, <4>2, TrailExtends
    <3> QED BY <3>1, <3>2
  <2>2. new.status = StatusAfter(LastOf(new.trail).type)
      BY <1>4, <1>5, <1>8, <1>12, <1>21 DEF BeingRecorded
  <2> QED BY <1>12, <2>1, <2>2 DEF TrailFits, StatusAfter, LastOf
<1>23. QuotationsFit(new, c)'
  <2>1. \A i : InTrail(row, i) => InTrail(new, i)
      BY <1>6, <1>8, <1>12 DEF InTrail
  <2>2. InTrail(new, id)
      BY <1>8, <1>12 DEF InTrail
  <2>3. StageFits(new) /\ OnePerSupplier(new.quotations)
      BY <1>4, <1>12, <1>21 DEF BeingRecorded, StageFits
  <2>4. new.rfq # None => InTrail(new, [by |-> new.rfq, type |-> "rfqIssued"])
      BY <1>4, <1>5, <1>12, <1>21, <2>1, <2>2 DEF BeingRecorded
  <2>5. ASSUME NEW q \in new.quotations
        PROVE  Answers(q, new, c)'
    <3>1. CASE Answers(q, row, c)
      <4>1. Answers(q, row, c)'
          BY <1>19, <3>1, AnswersStays
      <4>2. q.supplier \in new.invited
            /\ InTrail(new, [by |-> q.id, type |-> "quotationSubmitted"])
          BY <1>12, <2>1, <3>1 DEF Answers
      <4> QED BY <4>1, <4>2 DEF Answers, InTrail
    <3>2. CASE /\ j.action = "quotationSubmitted"
               /\ q = [id |-> r, supplier |-> j.supplier]
               /\ q.supplier \in row.invited
      <4>1. id = [by |-> q.id, type |-> "quotationSubmitted"] /\ q.supplier = j.supplier
          BY <1>5, <3>2
      <4> QED BY <1>12, <1>20, <2>2, <3>2, <4>1 DEF Answers, InTrail
    <3> QED BY <1>4, <1>12, <1>21, <3>1, <3>2 DEF BeingRecorded
  <2> QED BY <2>3, <2>4, <2>5 DEF QuotationsFit, StageFits, OnePerSupplier, InTrail
<1>24. CASE j.action = "awardSelected"
  <2>1. Selected(r, j)
      BY <1>3, <1>24 DEF Recording
  <2>2. Selected(r, k)'
      BY <1>1, <1>4, <1>12, <1>14, <2>1 DEF Selected
  <2>3. Ordering(r, k)'
      BY <1>5, <1>8, <1>12, <1>14, <1>20, <1>22, <1>23, <1>24, <2>2, NothingAssumption
      DEF Ordering, Selected, LastOf
  <2>4. JobFits("checkEligibility", r, k)'
      BY <2>3 DEF JobFits
  <2>5. RequestFits(r)'
      BY <1>16, <1>18, <1>24, <2>4, MovedFits
  <2> QED BY <1>1, <1>18, <1>19, <2>5, QuietStep
<1>25. CASE j.action # "awardSelected"
  <2>1. AwardFits(new)'
    <3>1. CASE j.action = "purchaseOrderGenerated"
      <4>1. AwardFits(row)
          BY <1>3, <1>4, <3>1 DEF Recording
      <4> QED BY <1>1, <1>12, <4>1 DEF AwardFits
    <3>2. CASE j.action # "purchaseOrderGenerated"
      <4>1. row.award = None /\ row.order = None /\ j.action \in CaseActions
          BY <1>3, <1>4, <1>25, <3>2 DEF Recording
      <4>2. row.status \notin {"awarded", "purchaseOrderGenerated"}
          BY <1>4, <1>21, <1>25, <3>2, <4>1 DEF BeingRecorded, StatusAfter, CaseActions
      <4> QED BY <1>12, <4>1, <4>2 DEF AwardFits
    <3> QED BY <3>1, <3>2
  <2>2. RowFits(new, c)'
      BY <1>22, <1>23, <2>1 DEF RowFits
  <2>3. JobFits("saveCase", r, k)'
    <3>1. k.case # None /\ k.row # None /\ k.row = new /\ k.case = c
        BY <1>14, NothingAssumption
    <3> QED BY <2>2, <3>1 DEF JobFits
  <2>4. RequestFits(r)'
      BY <1>16, <1>18, <1>25, <2>3, MovedFits
  <2> QED BY <1>1, <1>18, <1>19, <2>4, QuietStep
<1> QED BY <1>24, <1>25

LEMMA SaveOrderKeeps ==
    ASSUME IInv, NEW r \in Requests, SaveOrder(r)
    PROVE  IInv'
<1>1. pc[r] = "saveOrder" /\ InFlight(r) /\ UNCHANGED <<cases, events, limit>>
    BY DEF SaveOrder, InFlight, InFlightSteps
<1>2. PICK j \in Job : j = job[r]
    BY <1>1, InFlightHasJob DEF IInv
<1>3. Ordering(r, j)
    BY <1>1, <1>2 DEF IInv, RequestsFit, RequestFits, JobFits
<1>4. j.case # None => /\ j.case \in Requests /\ j.row \in Row
                       /\ j.row.award \in Quotation
                       /\ j.supplier = j.row.award.supplier
    BY <1>3 DEF Ordering, Selected, Job, Row
<1>5. j.supplier \in Suppliers
    BY <1>3, <1>4 DEF Ordering, Job, Quotation
<1>6. PICK order \in Order :
          order = [ supplier |-> j.supplier,
                    quotation |-> IF j.case = None THEN None ELSE j.row.award.id ]
  <2>1. (IF j.case = None THEN None ELSE j.row.award.id) \in Requests \union {None}
      BY <1>4 DEF Quotation
  <2> QED BY <1>5, <2>1 DEF Order
<1>7. orders' = [orders EXCEPT ![r] = order] /\ orders[r] = None
    BY <1>2, <1>3, <1>6 DEF SaveOrder, Ordering
<1>8. orders'[r] = order /\ (\A o \in Requests \ {r} : orders'[o] = orders[o])
      /\ orders' \in [Requests -> Order \union {None}]
    BY <1>7 DEF IInv, TypeOK
<1>9. TablesGrow
    BY <1>1, <1>7, <1>8 DEF TablesGrow
<1>10. OrdersAreAwarded'
  <2>1. ASSUME NEW o \in Requests \ {r}, orders'[o] # None, orders'[o].quotation # None
        PROVE  \E c \in Requests :
                   /\ Told([by |-> o, type |-> "awardSelected"], c, orders[o].supplier)'
                   /\ Told([by |-> orders[o].quotation, type |-> "quotationSubmitted"],
                           c, orders[o].supplier)'
    <3>1. PICK c \in Requests :
              /\ Told([by |-> o, type |-> "awardSelected"], c, orders[o].supplier)
              /\ Told([by |-> orders[o].quotation, type |-> "quotationSubmitted"],
                      c, orders[o].supplier)
        BY <1>8, <2>1 DEF IInv, OrdersAreAwarded
    <3> QED BY <1>1, <1>8, <2>1, <3>1 DEF Told
  <2>2. ASSUME order.quotation # None
        PROVE  /\ j.case \in Requests
               /\ Told([by |-> r, type |-> "awardSelected"], j.case, order.supplier)'
               /\ Told([by |-> order.quotation, type |-> "quotationSubmitted"],
                       j.case, order.supplier)'
    <3>1. /\ j.case # None /\ j.case \in Requests
          /\ order.quotation = j.row.award.id /\ order.supplier = j.supplier
        BY <1>4, <1>6, <2>2
    <3>2. Told([by |-> r, type |-> "awardSelected"], j.case, j.supplier)
          /\ Answers(j.row.award, j.row, j.case)
        BY <1>3, <3>1 DEF Ordering, Selected, QuotationsFit
    <3>3. Told([by |-> j.row.award.id, type |-> "quotationSubmitted"], j.case, j.supplier)
        BY <1>4, <3>1, <3>2 DEF Answers
    <3> QED BY <1>1, <3>1, <3>2, <3>3 DEF Told
  <2>3. ASSUME orders'[r].quotation # None
        PROVE  \E c \in Requests :
                   /\ Told([by |-> r, type |-> "awardSelected"], c, orders[r].supplier)'
                   /\ Told([by |-> orders[r].quotation, type |-> "quotationSubmitted"],
                           c, orders[r].supplier)'
      BY <1>8, <2>2, <2>3 DEF Told
  <2>4. ASSUME NEW o \in Requests, orders'[o] # None, orders'[o].quotation # None
        PROVE  \E c \in Requests :
                   /\ Told([by |-> o, type |-> "awardSelected"], c, orders[o].supplier)'
                   /\ Told([by |-> orders[o].quotation, type |-> "quotationSubmitted"],
                           c, orders[o].supplier)'
    <3>1. CASE o = r
        BY <2>3, <2>4, <3>1 DEF Told
    <3>2. CASE o # r
        BY <2>1, <2>4, <3>2 DEF Told
    <3> QED BY <3>1, <3>2
  <2> QED BY <2>4 DEF OrdersAreAwarded, Told
<1>11. RowsFit'
  <2>1. ASSUME NEW c \in Requests, cases[c] # None
        PROVE  RowFits(cases[c], c)'
      BY <1>1, <1>9, <2>1, RowsStillFit DEF IInv
  <2> QED BY <1>1, <2>1 DEF RowsFit
<1>12. ASSUME NEW q \in Requests \ {r}, pc'[q] = pc[q], job'[q] = job[q]
       PROVE  RequestFits(q)'
    BY <1>8, <1>9, <1>12, OthersStillFit DEF IInv
<1>13. CASE j.case = None
  <2>1. End(r, "done")
      BY <1>2, <1>13 DEF SaveOrder
  <2>2. TypeOK' /\ pc'[r] \in Ended
        /\ \A q \in Requests \ {r} : pc'[q] = pc[q] /\ job'[q] = job[q]
      BY <1>1, <1>8, <2>1, EndIsTyped DEF IInv, TypeOK, Ended
  <2> QED BY <1>10, <1>11, <1>12, <2>2, EndedFits DEF IInv, RequestsFit
<1>14. CASE j.case # None
  <2>1. PICK row \in Row, c \in Requests : row = j.row /\ c = j.case
      BY <1>4, <1>14
  <2>2. PICK new \in Row :
            new = [row EXCEPT !.status = "purchaseOrderGenerated", !.order = r]
      BY DEF Row, Statuses
  <2>3. /\ new.status = "purchaseOrderGenerated" /\ new.order = r
        /\ new.rfq = row.rfq /\ new.trail = row.trail
        /\ new.invited = row.invited /\ new.quotations = row.quotations
        /\ new.award = row.award
      BY <2>2 DEF Row
  <2>4. PICK k \in Job : k = [j EXCEPT !.action = "purchaseOrderGenerated", !.row = new]
      BY DEF Job, Actions, CaseActions
  <2>5. k.row = new /\ k.case = c /\ k.action = "purchaseOrderGenerated"
      BY <2>1, <2>4 DEF Job
  <2>6. k = [job[r] EXCEPT !.action = "purchaseOrderGenerated",
                           !.row.status = "purchaseOrderGenerated", !.row.order = r]
      BY <1>2, <2>1, <2>2, <2>4 DEF Job, Row
  <2>7. Start(r, "recordEvent", k)
      BY <1>2, <1>14, <2>6 DEF SaveOrder
  <2>8. TypeOK' /\ pc'[r] = "recordEvent" /\ job'[r] = k
        /\ \A q \in Requests \ {r} : pc'[q] = pc[q] /\ job'[q] = job[q]
      BY <1>1, <1>8, <2>7, StartIsTyped DEF IInv, TypeOK, InFlightSteps
  <2>9. /\ LastOf(row.trail) = [by |-> r, type |-> "awardSelected"]
        /\ TrailFits(row, c) /\ QuotationsFit(row, c)
        /\ row.award \in row.quotations /\ j.supplier = row.award.supplier
      BY <1>3, <1>14, <2>1 DEF Ordering, Selected
  <2>10. IsTrailOf(new.trail, c)' /\ QuotationsFit(row, c)'
      BY <1>9, <2>3, <2>9, IsTrailStays, QuotationsStay DEF TrailFits
  <2>11. Follows(LastOf(new.trail), [by |-> r, type |-> "purchaseOrderGenerated"])
      BY <2>3, <2>9 DEF Follows
  <2>12. StageFits(new)
    <3>1. row.status = "awarded"
        BY <2>9 DEF TrailFits, StatusAfter
    <3> QED BY <2>3, <2>9, <3>1 DEF QuotationsFit, StageFits
  <2>13. AwardFits(new)'
    <3>1. row.award \in Quotation /\ row.award # None /\ r # None
        BY <2>9, NothingAssumption DEF Row
    <3>2. order = [supplier |-> row.award.supplier, quotation |-> row.award.id]
        BY <1>6, <1>14, <2>1, <2>9
    <3> QED BY <1>8, <2>3, <2>9, <3>1, <3>2 DEF AwardFits
  <2>14. BeingRecorded(r, k)'
    <3>1. new.rfq # None => InTrail(new, [by |-> new.rfq, type |-> "rfqIssued"])
        BY <2>3, <2>9 DEF QuotationsFit, InTrail
    <3>2. OnePerSupplier(new.quotations)
        BY <2>3, <2>9 DEF QuotationsFit
    <3>3. \A q \in new.quotations : Answers(q, new, c)'
        BY <2>3, <2>10 DEF QuotationsFit, Answers, InTrail
    <3> QED BY <2>3, <2>5, <2>10, <2>11, <2>12, <3>1, <3>2, <3>3
        DEF BeingRecorded, StatusAfter, StageFits, OnePerSupplier, InTrail, Follows, LastOf
  <2>15. Recording(r, k)'
      BY <2>5, <2>13, <2>14, NothingAssumption DEF Recording, CaseActions
  <2>16. JobFits("recordEvent", r, k)'
      BY <2>15 DEF JobFits
  <2>17. RequestFits(r)'
      BY <2>8, <2>16, MovedFits DEF InFlightSteps
  <2> QED BY <1>10, <1>11, <1>12, <2>8, <2>17 DEF IInv, RequestsFit
<1> QED BY <1>13, <1>14

-----------------------------------------------------------------------------
\* The inductive invariant holds in every state, whatever overtaking requests,
\* failing queries and crashes do to a case.
THEOREM InvariantHolds == Spec => []IInv
<1>1. Init => IInv
  <2> SUFFICES ASSUME Init PROVE IInv
      OBVIOUS
  <2>1. TypeOK
      BY DEF Init, TypeOK, InFlight, InFlightSteps
  <2>2. OrdersAreAwarded /\ RowsFit
      BY DEF Init, OrdersAreAwarded, RowsFit
  <2>3. RequestsFit
      BY DEF Init, RequestsFit, RequestFits, InFlight, InFlightSteps
  <2> QED BY <2>1, <2>2, <2>3 DEF IInv
<1>2. IInv /\ [Next]_vars => IInv'
  <2> SUFFICES ASSUME IInv, [Next]_vars PROVE IInv'
      OBVIOUS
  <2>1. CASE UNCHANGED vars
    <3>1. TypeOK' /\ TablesGrow /\ UNCHANGED <<cases, orders, pc, job>>
        BY <2>1 DEF IInv, TypeOK, InFlight, TablesGrow, vars
    <3> QED BY <3>1, QuietStep
  <2>2. ASSUME NEW r \in Requests, Arrive(r)
        PROVE  IInv'
      BY <2>2, CreateRequisitionKeeps, ApproveRequisitionKeeps, IssueRfqKeeps,
         SubmitQuotationKeeps, AwardRfqKeeps, CreateOrderKeeps DEF Arrive
  <2>3. ASSUME NEW r \in Requests, Step(r) \/ QueryFails(r)
        PROVE  IInv'
      BY <2>3, RecordEventKeeps, CheckEligibilityKeeps, RecordOrderKeeps, SaveOrderKeeps,
         SaveCaseKeeps, QueryFailsKeeps DEF Step
  <2> QED BY <2>1, <2>2, <2>3, CrashKeeps DEF Next
<1> QED BY <1>1, <1>2, PTL DEF Spec

\* A stored case is awarded exactly when the order of its award was saved, for the
\* supplier and quotation of the award.
THEOREM AwardsHaveTheirOrder == Spec => []AwardHasItsOrder
<1>1. IInv => AwardHasItsOrder
    BY DEF IInv, RowsFit, RowFits, AwardHasItsOrder
<1> QED BY <1>1, InvariantHolds, PTL

\* The stored trail of a case is a legal chain of recorded events that ends at its
\* status.
THEOREM TrailsTellTheCase == Spec => []TrailTellsTheCase
<1>1. IInv => TrailTellsTheCase
    BY DEF IInv, RowsFit, RowFits, TrailTellsTheCase
<1> QED BY <1>1, InvariantHolds, PTL

\* An order that came from an award has the recorded selection of a quotation of its
\* supplier.
THEOREM OrdersComeFromAwards == Spec => []OrdersAreAwarded
<1>1. IInv => OrdersAreAwarded
    BY DEF IInv
<1> QED BY <1>1, InvariantHolds, PTL

\* A case holds one quotation of each supplier at most, of invited suppliers, all
\* recorded in its trail.
THEOREM QuotationsAreAnswers == Spec => []QuotationsAnswerTheRfq
<1>1. IInv => QuotationsAnswerTheRfq
    BY DEF IInv, RowsFit, RowFits, QuotationsAnswerTheRfq
<1> QED BY <1>1, InvariantHolds, PTL

\* Types, and local state exactly for the requests in flight.
THEOREM TypeCorrect == Spec => []TypeOK
<1>1. IInv => TypeOK
    BY DEF IInv
<1> QED BY <1>1, InvariantHolds, PTL

-----------------------------------------------------------------------------
(* The finality of awards, with one request at a time.                     *)

\* Whatever case the handler holds, it has arrived, and what the handler is about
\* to store keeps the award the stored case has.
KeepsAward(j) ==
    j.case # None =>
        /\ pc[j.case] # "idle"
        /\ cases[j.case] # None /\ cases[j.case].award # None
              => j.row.award = cases[j.case].award

Alone == \A q, r \in Requests : InFlight(q) /\ InFlight(r) => q = r

\* A case has the number of the request that created it.
CasesHaveArrived == \A c \in Requests : pc[c] = "idle" => cases[c] = None

AwardInv ==
    limit = 1 =>
        /\ Alone
        /\ CasesHaveArrived
        /\ \A r \in Requests : InFlight(r) => KeepsAward(job[r])

\* With one request at a time, a request that arrives or runs is the only one.
LEMMA SerialAlone ==
    ASSUME AwardInv, limit = 1, NEW r \in Requests, InFlight(r) \/ NextToArrive(r)
    PROVE  \A q \in Requests \ {r} : ~InFlight(q)
<1>1. CASE InFlight(r)
    BY <1>1 DEF AwardInv, Alone
<1>2. CASE NextToArrive(r)
  <2> DEFINE running == {q \in Requests : InFlight(q)}
  <2>1. IsFiniteSet(Requests)
      BY SourceAssumption, FS_Interval DEF Requests
  <2>2. IsFiniteSet(running)
      BY <2>1, FS_Subset
  <2>3. Cardinality(running) \in Nat /\ Cardinality(running) < 1
      BY <1>2, <2>2, FS_CardinalityType DEF NextToArrive
  <2>4. running = {}
      BY <2>2, <2>3, FS_EmptySet
  <2> QED BY <2>4
<1> QED BY <1>1, <1>2

\* A step of one request that stores no case.
LEMMA QuietStepKeepsAward ==
    ASSUME AwardInv, limit' = limit, cases' = cases,
           NEW r \in Requests, InFlight(r) \/ NextToArrive(r),
           pc'[r] # "idle",
           \A q \in Requests \ {r} : pc'[q] = pc[q] /\ job'[q] = job[q],
           limit = 1 /\ InFlight(r)' => KeepsAward(job[r])'
    PROVE  AwardInv'
<1> SUFFICES ASSUME limit = 1
             PROVE  /\ Alone'
                    /\ CasesHaveArrived'
                    /\ \A q \in Requests : InFlight(q)' => KeepsAward(job[q])'
    BY DEF AwardInv
<1>1. \A q \in Requests \ {r} : ~InFlight(q)'
    BY SerialAlone DEF InFlight
<1>2. Alone'
    BY <1>1 DEF Alone
<1>3. CasesHaveArrived'
    BY DEF AwardInv, CasesHaveArrived
<1> QED BY <1>1, <1>2, <1>3

\* The arrivals.
LEMMA ArrivalKeepsAward ==
    ASSUME IInv, AwardInv, NEW r \in Requests, Arrive(r)
    PROVE  AwardInv'
<1>1. NextToArrive(r) /\ pc[r] = "idle" /\ limit' = limit /\ cases' = cases
    BY DEF Arrive, CreateRequisition, ApproveRequisition, IssueRfq, SubmitQuotation, AwardRfq,
           CreateOrder, NextToArrive
<1>2. \E step \in InFlightSteps : \E j : Start(r, step, j) /\ (limit = 1 => KeepsAward(j)')
  <2>1. CASE CreateRequisition(r)
    <3>1. limit = 1 => cases[r] = None
        BY <1>1 DEF AwardInv, CasesHaveArrived
    <3>2. pc'[r] = "recordEvent"
        BY <2>1 DEF IInv, TypeOK, CreateRequisition, Start
    <3>3. PICK j : j = [ case |-> r, row |-> NewRow,
                         action |-> "requisitionCreated", supplier |-> None ]
        OBVIOUS
    <3>4. limit = 1 => KeepsAward(j)'
        BY <1>1, <3>1, <3>2, <3>3 DEF KeepsAward
    <3> QED BY <2>1, <3>3, <3>4 DEF CreateRequisition, InFlightSteps
  <2>2. ASSUME NEW c \in Requests, cases[c] # None, NEW j, j.case = c,
               Start(r, "recordEvent", j),
               cases[c].award # None => j.row.award = cases[c].award
        PROVE  limit = 1 => KeepsAward(j)'
    <3>1. limit = 1 => pc[c] # "idle"
        BY <2>2 DEF AwardInv, CasesHaveArrived
    <3>2. limit = 1 => pc'[c] # "idle"
        BY <1>1, <2>2, <3>1 DEF Start, IInv, TypeOK
    <3> QED BY <1>1, <2>2, <3>2 DEF KeepsAward
  <2>3. ASSUME NEW c \in Requests, ApproveRequisition(r, c)
        PROVE  \E j : Start(r, "recordEvent", j) /\ (limit = 1 => KeepsAward(j)')
    <3>1. PICK old \in Row : old = cases[c]
        BY <2>3 DEF ApproveRequisition, IInv, TypeOK
    <3>2. PICK j : j = [ case |-> c, row |-> [old EXCEPT !.status = "requisitionApproved"],
                         action |-> "requisitionApproved", supplier |-> None ]
        OBVIOUS
    <3>3. j.case = c /\ j.row.award = old.award
        BY <3>2 DEF Row
    <3> QED BY <2>2, <2>3, <3>1, <3>2, <3>3 DEF ApproveRequisition
  <2>4. ASSUME NEW c \in Requests, NEW invited \in SUBSET Suppliers, IssueRfq(r, c, invited)
        PROVE  \E j : Start(r, "recordEvent", j) /\ (limit = 1 => KeepsAward(j)')
    <3>1. PICK old \in Row : old = cases[c]
        BY <2>4 DEF IssueRfq, IInv, TypeOK
    <3>2. PICK j : j = [ case |-> c,
                         row |-> [old EXCEPT !.status = "rfqIssued", !.rfq = r,
                                             !.invited = invited],
                         action |-> "rfqIssued", supplier |-> None ]
        OBVIOUS
    <3>3. j.case = c /\ j.row.award = old.award
        BY <3>2 DEF Row
    <3> QED BY <2>2, <2>4, <3>1, <3>2, <3>3 DEF IssueRfq
  <2>5. ASSUME NEW c \in Requests, NEW s \in Suppliers, SubmitQuotation(r, c, s)
        PROVE  \E j : Start(r, "recordEvent", j) /\ (limit = 1 => KeepsAward(j)')
    <3>1. PICK j : /\ j.case = c /\ Start(r, "recordEvent", j)
        BY <2>5 DEF SubmitQuotation
    <3>2. cases[c] # None /\ cases[c].award = None
        BY <2>5 DEF SubmitQuotation
    <3> QED BY <2>2, <3>1, <3>2
  <2>6. ASSUME NEW c \in Requests, NEW q \in Quotation, AwardRfq(r, c, q)
        PROVE  \E j : Start(r, "recordEvent", j) /\ (limit = 1 => KeepsAward(j)')
    <3>1. PICK j : /\ j.case = c /\ Start(r, "recordEvent", j)
        BY <2>6 DEF AwardRfq
    <3>2. cases[c] # None /\ cases[c].award = None
        BY <2>6 DEF AwardRfq
    <3> QED BY <2>2, <3>1, <3>2
  <2>7. CASE \E s \in Suppliers : CreateOrder(r, s)
    <3>1. PICK j : j.case = None /\ Start(r, "checkEligibility", j)
        BY <2>7 DEF CreateOrder
    <3> QED BY <3>1 DEF KeepsAward, InFlightSteps
  <2> QED BY <2>1, <2>3, <2>4, <2>5, <2>6, <2>7 DEF Arrive, InFlightSteps
<1>3. PICK step \in InFlightSteps : \E j : Start(r, step, j) /\ (limit = 1 => KeepsAward(j)')
    BY <1>2
<1>4. PICK j : Start(r, step, j) /\ (limit = 1 => KeepsAward(j)')
    BY <1>3
<1>5. /\ pc'[r] = step /\ job'[r] = j /\ pc'[r] # "idle"
      /\ \A q \in Requests \ {r} : pc'[q] = pc[q] /\ job'[q] = job[q]
    BY <1>4 DEF Start, IInv, TypeOK, InFlightSteps
<1>6. limit = 1 => KeepsAward(job[r])'
    BY <1>4, <1>5 DEF KeepsAward
<1> QED BY <1>1, <1>5, <1>6, QuietStepKeepsAward

\* A step that ends a request without storing a case.
LEMMA EndKeepsAward ==
    ASSUME IInv, AwardInv, NEW r \in Requests, InFlight(r), NEW how \in Ended, End(r, how),
           limit' = limit, cases' = cases
    PROVE  AwardInv'
<1>1. pc'[r] = how /\ \A q \in Requests \ {r} : pc'[q] = pc[q] /\ job'[q] = job[q]
    BY EndIsTyped DEF IInv
<1>2. ~InFlight(r)' /\ pc'[r] # "idle"
    BY <1>1 DEF InFlight, InFlightSteps, Ended
<1> QED BY <1>1, <1>2, QuietStepKeepsAward

\* A step to the next query with a version of the same award.
LEMMA GoesOnKeepsAward ==
    ASSUME IInv, AwardInv, NEW r \in Requests, InFlight(r), NEW step \in InFlightSteps,
           NEW j, pc' = [pc EXCEPT ![r] = step], job' = [job EXCEPT ![r] = j],
           limit' = limit, cases' = cases,
           j.case = job[r].case,
           j.case # None => j.row.award = job[r].row.award
    PROVE  AwardInv'
<1>1. /\ pc'[r] = step /\ job'[r] = j /\ pc'[r] # "idle"
      /\ \A q \in Requests \ {r} : pc'[q] = pc[q] /\ job'[q] = job[q]
      /\ \A q \in Requests : pc[q] # "idle" => pc'[q] # "idle"
    BY DEF IInv, TypeOK, InFlightSteps
<1>2. limit = 1 /\ j.case # None => j.case \in Requests
    BY InFlightHasJob DEF IInv
<1>3. limit = 1 => KeepsAward(j)'
    BY <1>1, <1>2 DEF AwardInv, KeepsAward
<1>4. limit = 1 => KeepsAward(job[r])'
    BY <1>1, <1>3 DEF KeepsAward
<1> QED BY <1>1, <1>4, QuietStepKeepsAward

LEMMA StepKeepsAward ==
    ASSUME IInv, AwardInv, NEW r \in Requests, Step(r) \/ QueryFails(r)
    PROVE  AwardInv'
<1>1. InFlight(r) /\ limit' = limit
    BY DEF Step, RecordEvent, CheckEligibility, RecordOrder, SaveOrder, SaveCase, QueryFails,
           InFlight, InFlightSteps
<1>2. PICK j \in Job : j = job[r] /\ (j.row # None => j.row \in Row)
    BY <1>1, InFlightHasJob DEF IInv
<1>3. job' = job => job' = [job EXCEPT ![r] = j]
    BY <1>2 DEF IInv, TypeOK
<1>4. CASE RecordEvent(r)
  <2>1. j.row # None /\ j.row \in Row
      BY <1>1, <1>2, <1>4 DEF RecordEvent, IInv, RequestsFit, RequestFits, JobFits, Recording
  <2>2. PICK id : id = CaseEvent(r).id
      OBVIOUS
  <2>3. PICK row : row = [j.row EXCEPT !.trail = Append(@, id)]
      OBVIOUS
  <2>4. row.award = j.row.award
      BY <2>1, <2>3 DEF Row
  <2>5. PICK k : k = [j EXCEPT !.row = row]
      OBVIOUS
  <2>6. k.case = j.case /\ k.row = row
      BY <2>5 DEF Job
  <2>7. [j EXCEPT !.row.trail = Append(@, id)] = k
      BY <2>3, <2>5
  <2>8. PICK step \in InFlightSteps : Start(r, step, k)
      BY <1>2, <1>4, <2>2, <2>7 DEF RecordEvent, InFlightSteps
  <2>9. cases' = cases
      BY <1>4 DEF RecordEvent
  <2> QED BY <1>1, <1>2, <2>4, <2>6, <2>8, <2>9, GoesOnKeepsAward DEF Start
<1>5. CASE \E eligible \in BOOLEAN : CheckEligibility(r, eligible)
  <2>1. cases' = cases
      BY <1>5 DEF CheckEligibility
  <2>2. \/ pc' = [pc EXCEPT ![r] = "recordOrder"] /\ job' = job
        \/ End(r, "rejected")
      BY <1>5 DEF CheckEligibility
  <2> QED BY <1>1, <1>2, <1>3, <2>1, <2>2, GoesOnKeepsAward, EndKeepsAward
      DEF InFlightSteps, Ended
<1>6. CASE RecordOrder(r)
    BY <1>1, <1>2, <1>3, <1>6, GoesOnKeepsAward DEF RecordOrder, InFlightSteps
<1>7. CASE SaveOrder(r)
  <2>1. cases' = cases
      BY <1>7 DEF SaveOrder
  <2>2. CASE j.case = None
      BY <1>1, <1>2, <1>7, <2>1, <2>2, EndKeepsAward DEF SaveOrder, Ended
  <2>3. CASE j.case # None
    <3>1. j.row # None /\ j.row \in Row
        BY <1>1, <1>2, <1>7, <2>3
        DEF SaveOrder, IInv, RequestsFit, RequestFits, JobFits, Ordering
    <3>2. PICK row : row = [j.row EXCEPT !.status = "purchaseOrderGenerated", !.order = r]
        OBVIOUS
    <3>3. row.award = j.row.award
        BY <3>1, <3>2 DEF Row
    <3>4. PICK k : k = [j EXCEPT !.action = "purchaseOrderGenerated", !.row = row]
        OBVIOUS
    <3>5. k.case = j.case /\ k.row = row
        BY <3>4 DEF Job
    <3>6. [j EXCEPT !.action = "purchaseOrderGenerated",
                    !.row.status = "purchaseOrderGenerated", !.row.order = r] = k
        BY <3>1, <3>2, <3>4 DEF Row, Job
    <3>7. Start(r, "recordEvent", k)
        BY <1>2, <1>7, <2>3, <3>6 DEF SaveOrder
    <3> QED BY <1>1, <1>2, <2>1, <3>3, <3>5, <3>7, GoesOnKeepsAward DEF Start, InFlightSteps
  <2> QED BY <2>2, <2>3
<1>8. CASE SaveCase(r)
  <2> SUFFICES ASSUME limit = 1
               PROVE  AwardInv'
      BY <1>1 DEF AwardInv
  <2>1. j.case \in Requests /\ j.case # None
      BY <1>1, <1>2, <1>8, InFlightHasJob
      DEF SaveCase, IInv, RequestsFit, RequestFits, JobFits
  <2>2. /\ pc'[r] = "done" /\ \A q \in Requests \ {r} : pc'[q] = pc[q] /\ job'[q] = job[q]
      BY <1>8, EndIsTyped DEF SaveCase, IInv, Ended
  <2>3. \A q \in Requests : ~InFlight(q)'
      BY <1>1, <2>2, SerialAlone DEF InFlight, InFlightSteps
  <2>4. pc[j.case] # "idle"
      BY <1>1, <1>2, <2>1 DEF AwardInv, KeepsAward
  <2>5. cases' = [cases EXCEPT ![j.case] = j.row]
      BY <1>2, <1>8 DEF SaveCase
  <2>6. CasesHaveArrived'
      BY <2>1, <2>2, <2>4, <2>5 DEF IInv, TypeOK, AwardInv, CasesHaveArrived
  <2> QED BY <2>3, <2>6 DEF AwardInv, Alone
<1>9. CASE QueryFails(r)
    BY <1>1, <1>9, EndKeepsAward DEF QueryFails, Ended
<1> QED BY <1>4, <1>5, <1>6, <1>7, <1>8, <1>9 DEF Step

\* What AwardIsFinal says of one step.
LEMMA NextKeepsStoredAward ==
    ASSUME IInv, AwardInv, [Next]_vars, limit = 1,
           NEW c \in Requests, cases[c] # None, cases[c].award # None
    PROVE  cases'[c] # None /\ cases'[c].award = cases[c].award
<1>1. CASE cases' = cases
    BY <1>1
<1>2. ASSUME NEW r \in Requests, SaveCase(r)
      PROVE  cases'[c] # None /\ cases'[c].award = cases[c].award
  <2>1. InFlight(r)
      BY <1>2 DEF SaveCase, InFlight, InFlightSteps
  <2>2. PICK j \in Job : j = job[r]
      BY <2>1, InFlightHasJob DEF IInv
  <2>3. j.case \in Requests /\ j.case # None /\ j.row # None
      BY <1>2, <2>1, <2>2, InFlightHasJob
      DEF SaveCase, IInv, RequestsFit, RequestFits, JobFits
  <2>4. cases' = [cases EXCEPT ![j.case] = j.row]
      BY <1>2, <2>2 DEF SaveCase
  <2>5. j.case = c => j.row.award = cases[c].award
      BY <2>1, <2>2, <2>3 DEF AwardInv, KeepsAward
  <2> QED BY <2>3, <2>4, <2>5 DEF IInv, TypeOK
<1>3. Next \/ UNCHANGED vars => cases' = cases \/ \E r \in Requests : SaveCase(r)
    BY DEF Next, vars, Arrive, CreateRequisition, ApproveRequisition, IssueRfq,
           SubmitQuotation, AwardRfq, CreateOrder, Step, RecordEvent, CheckEligibility,
           RecordOrder, SaveOrder, QueryFails, Crash
<1> QED BY <1>1, <1>2, <1>3

\* One request at a time, an award, once stored, is never changed or removed,
\* whatever fails.
THEOREM AwardsAreFinal == Spec => AwardIsFinal
<1>1. Init => AwardInv
    BY DEF Init, AwardInv, Alone, CasesHaveArrived, InFlight, InFlightSteps
<1>2. IInv /\ AwardInv /\ [Next]_vars => AwardInv'
  <2> SUFFICES ASSUME IInv, AwardInv, [Next]_vars PROVE AwardInv'
      OBVIOUS
  <2>1. CASE UNCHANGED vars
      BY <2>1 DEF vars, AwardInv, Alone, CasesHaveArrived, KeepsAward, InFlight
  <2>2. CASE Crash
    <3>1. /\ \A r \in Requests : ~InFlight(r)'
          /\ \A r \in Requests : pc'[r] = "idle" => pc[r] = "idle"
        BY <2>2 DEF Crash, InFlight, InFlightSteps
    <3>2. cases' = cases /\ limit' = limit
        BY <2>2 DEF Crash
    <3> QED BY <3>1, <3>2 DEF AwardInv, Alone, CasesHaveArrived
  <2> QED BY <2>1, <2>2, ArrivalKeepsAward, StepKeepsAward DEF Next
<1> DEFINE NoneIsLost ==
      \A c \in Requests :
          limit = 1 /\ cases[c] # None /\ cases[c].award # None
              => cases'[c] # None /\ cases'[c].award = cases[c].award
<1>3. IInv /\ AwardInv /\ [Next]_vars => NoneIsLost
    BY NextKeepsStoredAward
<1>4. NoneIsLost => [NoneIsLost]_vars
    OBVIOUS
<1> QED BY <1>1, <1>2, <1>3, InvariantHolds, PTL DEF Spec, AwardIsFinal

=============================================================================
