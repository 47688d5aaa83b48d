-------------------------- MODULE FulfilmentProofs --------------------------
(***************************************************************************)
(* Proofs about Fulfilment: whatever acknowledgements, submissions,        *)
(* matches, approvals and closeouts overlap, fail or are cut off by a      *)
(* crash, the rows agree with each other and with the trail of events.     *)
(***************************************************************************)
EXTENDS Fulfilment, FiniteSetTheorems, TLAPS

Accepted(o) ==
    \E q \in Requests : event[q] # None /\ event[q].type = "purchaseOrderAccepted"
                                        /\ event[q].order = o

\* The events a row of an order lists: one chain, all of that order.
EventsFit(events, o) ==
    /\ events \in Seq(Requests) /\ events # <<>>
    /\ Chained(events)
    /\ \A k \in 1..Len(events) : event[events[k]].order = o

TypeOfOrder(status) ==
    [ created |-> "purchaseOrderCreated", accepted |-> "purchaseOrderAccepted",
      rejected |-> "purchaseOrderRejected" ][status]

TypeOfInvoice(status) ==
    [ submitted |-> "invoiceIssued", matchPassed |-> "invoiceMatchPassed",
      matchFailed |-> "invoiceMatchFailed",
      paymentApproved |-> "invoicePaymentApproved" ][status]

OrderFits(o, row) ==
    /\ row \in Order
    /\ EventsFit(row.events, o)
    /\ event[LastOf(row)].type = TypeOfOrder(row.status)

ApprovalsFollowMatches(events) ==
    \A k \in 2..Len(events) :
        event[events[k]].type = "invoicePaymentApproved"
            => event[events[k - 1]].type = "invoiceMatchPassed"

Backed(row) ==
    /\ row.match = "passed" =>
           /\ row.amount = Terms[row.order].amount
           /\ row.matched \in EvidenceOf(row.order)
           /\ row.evidence \in {None, row.matched}
    /\ (row.match = "passed") = (row.status \in {"matchPassed", "paymentApproved"})
    /\ (row.match = "notChecked") = (row.status = "submitted")

\* An invoice's row as a handler holds it before its next event is recorded.
DraftFits(row) ==
    /\ row \in Invoice
    /\ Accepted(row.order)
    /\ Backed(row)
    /\ EventsFit(row.events, row.order)
    /\ ApprovalsFollowMatches(row.events)

InvoiceFits(row) == DraftFits(row) /\ event[LastOf(row)].type = TypeOfInvoice(row.status)

\* The row a handler writes back is of the invoice it read.
RowIsOf(row, i) ==
    /\ i \in Requests /\ invoice[i] # None
    /\ row.order = invoice[i].order /\ row.hash = invoice[i].hash

NewInvoice ==
    [ order : Orders, evidence : Requests \union {None}, amount : DOMAIN Numeric,
      hash : Hashes \union Requests, status : {"submitted"}, match : {"notChecked"},
      matched : {None}, approvedBy : {None}, events : {<<>>} ]

Recorded(r, type, o, target, prev) ==
    event[r] = [ type |-> type, order |-> o, target |-> target, prev |-> prev ]

EvidenceCounted(j) ==
    /\ IsFiniteSet(j.evidence) /\ j.evidence # {}
    /\ Cardinality(j.evidence) <= Cardinality(EvidenceOf(j.order))

InvoicesCounted(j) ==
    /\ IsFiniteSet(j.invoices)
    /\ Cardinality(j.invoices) <= Cardinality(InvoicesOf(j.order))

MetricsFit(m, o) ==
    /\ m.evidence \in 1..Cardinality(EvidenceOf(o))
    /\ m.invoices <= Cardinality(InvoicesOf(o))
    /\ m.exceptions <= m.invoices
    /\ m.score <= 100


\* The local variables j of the handler of r while it awaits the query step,
\* and what it has written so far.
EventIsDue == {"idle", "recordAcknowledgement", "saveBaseEvidence", "listEvents", "recordEvidence",
               "readLinkedEvidence", "findInvoiceHash", "recordInvoice",
               "readMatchedOrder", "listMatchedEvidence", "recordMatch", "recordApproval"}

AcknowledgementOk(r, step, j) ==
    step \in {"recordAcknowledgement", "saveOrder"} =>
        /\ j.id \in Orders /\ j.status \in {"accepted", "rejected"}
        /\ OrderFits(j.id, j.row)
        /\ step = "saveOrder" =>
               Recorded(r, TypeOfOrder(j.status), j.id, j.id, LastOf(j.row))

EvidenceJob == [ order : Orders, prev : Requests ]

EvidenceOk(r, step, j) ==
    /\ step \in {"idle", "saveBaseEvidence"} => evidence[r] = None
    /\ step \in {"saveBaseEvidence", "listEvents", "recordEvidence", "anchorEvidence",
                 "saveFinalEvidence"} =>
           /\ j \in EvidenceJob
           /\ Accepted(j.order)
           /\ event[j.prev] # None /\ event[j.prev].order = j.order
    /\ step \in {"listEvents", "recordEvidence", "anchorEvidence", "saveFinalEvidence"} =>
           evidence[r] # None /\ evidence[r].order = j.order
    /\ step \in {"anchorEvidence", "saveFinalEvidence"} => event[r] # None

SubmissionOk(r, step, j) ==
    /\ step = "idle" => invoice[r] = None
    /\ step \in {"readLinkedEvidence", "findInvoiceHash", "recordInvoice", "insertInvoice"} =>
           /\ j \in NewInvoice /\ Accepted(j.order) /\ invoice[r] = None
    /\ step = "insertInvoice" => Recorded(r, "invoiceIssued", j.order, r, None)

MatchJob == [ id : Requests, row : Invoice, accepted : BOOLEAN ]

MatchOk(r, step, j) ==
    /\ step \in {"readMatchedOrder", "listMatchedEvidence"} =>
           j \in MatchJob /\ RowIsOf(j.row, j.id) /\ InvoiceFits(j.row)
    /\ step \in {"recordMatch", "recordApproval", "saveInvoice"} =>
           /\ RowIsOf(j.row, j.id) /\ DraftFits(j.row)
           /\ j.row.status \in {"matchPassed", "matchFailed", "paymentApproved"}
           /\ j.row.status = "paymentApproved" => event[LastOf(j.row)].type = "invoiceMatchPassed"
    /\ step = "recordMatch" => j.row.status # "paymentApproved"
    /\ step = "recordApproval" => j.row.status = "paymentApproved"
    /\ step = "saveInvoice" =>
           Recorded(r, TypeOfInvoice(j.row.status), j.row.order, j.id, LastOf(j.row))

EvidenceRead == [ id : Requests, proof : BOOLEAN ]
InvoiceRead == [ id : Requests, exception : BOOLEAN ]
CloseoutJob == [ case : Cases, order : Orders, evidence : SUBSET EvidenceRead,
                 invoices : SUBSET InvoiceRead ]

CloseoutOk(step, j) ==
    /\ step \in {"listEvidence", "listInvoices", "listCloseouts"} =>
           j \in CloseoutJob /\ Accepted(j.order)
    /\ step \in {"listInvoices", "listCloseouts"} => EvidenceCounted(j)
    /\ step = "listCloseouts" => InvoicesCounted(j)
    /\ step = "insertCloseout" =>
           /\ j \in Closeout /\ Accepted(j.order) /\ EvidenceOf(j.order) # {}
           /\ MetricsFit(j.metrics, j.order)

JobOk(r, step, j) ==
    /\ step \in EventIsDue => event[r] = None
    /\ AcknowledgementOk(r, step, j)
    /\ EvidenceOk(r, step, j)
    /\ SubmissionOk(r, step, j)
    /\ MatchOk(r, step, j)
    /\ CloseoutOk(step, j)

RowsAreTyped ==
    /\ order \in [Orders -> Order]
    /\ evidence \in [Requests -> Evidence \union {None}]
    /\ invoice \in [Requests -> Invoice \union {None}]
    /\ closeout \in [Requests -> Closeout \union {None}]
    /\ event \in [Requests -> Event \union {None}]

EventsContinue ==
    \A q \in Requests : event[q] # None /\ event[q].prev # None =>
        event[event[q].prev] # None /\ event[event[q].prev].order = event[q].order

RowsFit ==
    /\ \A o \in Orders : OrderFits(o, order[o])
    /\ \A i \in Requests : invoice[i] # None => InvoiceFits(invoice[i])
    /\ \A e \in Requests : evidence[e] # None => Accepted(evidence[e].order)
    /\ \A c \in Requests : closeout[c] # None =>
           /\ Accepted(closeout[c].order)
           /\ EvidenceOf(closeout[c].order) # {}
           /\ MetricsFit(closeout[c].metrics, closeout[c].order)

EntriesAreUnique ==
    /\ \A i, j \in Requests : i # j /\ invoice[i] # None /\ invoice[j] # None
           => invoice[i].hash # invoice[j].hash
    /\ \A c, d \in Requests : c # d /\ closeout[c] # None /\ closeout[d] # None
           => closeout[c].case # closeout[d].case

IInv ==
    /\ pc = [r \in Requests |-> pc[r]]
    /\ job = [r \in Requests |-> job[r]]
    /\ RowsAreTyped
    /\ EventsContinue
    /\ RowsFit
    /\ EntriesAreUnique
    /\ \A r \in Requests : JobOk(r, pc[r], job[r])

-----------------------------------------------------------------------------
(* What the operators return.                                              *)

LEMMA LastInSequence ==
    ASSUME NEW s \in Seq(Requests), s # <<>>
    PROVE  /\ Len(s) \in Nat \ {0} /\ s[Len(s)] \in Requests
           /\ \A k \in 1..Len(s) : s[k] \in Requests
OBVIOUS

LEMMA NoneIsNoRow ==
    /\ \A e \in Event : e # None
    /\ \A e \in Evidence : e # None
    /\ \A i \in Invoice : i # None
    /\ \A c \in Closeout : c # None
    /\ \A q \in Requests : q # None
BY RowAssumption, FulfilmentAssumption

LEMMA RequestsAreFinite ==
    /\ IsFiniteSet(Requests) /\ Requests \subseteq Nat
    /\ \A S \in SUBSET Requests : IsFiniteSet(S) /\ Cardinality(S) \in Nat
<1>1. IsFiniteSet(Requests) /\ Requests \subseteq Nat
    BY HandlingAssumption, FS_Interval DEF Requests
<1> QED BY <1>1, FS_Subset, FS_CardinalityType

LEMMA LeastExists ==
    ASSUME NEW S \in SUBSET Nat, S # {}
    PROVE  \E x \in S : \A y \in S : x <= y
<1> DEFINE R == OpToRel(<, Nat)
<1>1. PICK x \in S : \A y \in S : ~(<<y, x>> \in R)
    BY NatLessThanWellFounded, WFMin
<1>2. \A y \in S : x <= y
  <2> TAKE y \in S
  <2>1. ~(y < x)
      BY <1>1 DEF OpToRel
  <2> QED BY <2>1
<1> QED BY <1>2

LEMMA MinIsMember ==
    ASSUME NEW S \in SUBSET Nat, S # {}
    PROVE  Min(S) \in S
BY LeastExists DEF Min

LEMMA MaxIsMember ==
    ASSUME NEW S \in SUBSET Requests, S # {}
    PROVE  Max(S) \in S
<1> DEFINE T == {n \in Nat : RequestBound - n \in S}
<1>1. RequestBound \in Nat /\ S \subseteq 1..RequestBound
    BY HandlingAssumption DEF Requests
<1>2. T # {}
  <2>1. PICK x \in S : TRUE
      OBVIOUS
  <2>2. RequestBound - x \in T
      BY <1>1, <2>1
  <2> QED BY <2>2
<1>3. PICK m \in T : \A y \in T : m <= y
    BY <1>2, LeastExists
<1>4. \A y \in S : RequestBound - m >= y
  <2> TAKE y \in S
  <2>1. RequestBound - y \in T
      BY <1>1
  <2> QED BY <1>1, <1>3, <2>1
<1>5. RequestBound - m \in S
    BY <1>3
<1> QED BY <1>4, <1>5 DEF Max

LEMMA QuotientOfNaturals ==
    ASSUME NEW n \in Nat, NEW d \in Nat \ {0}
    PROVE  /\ Rounded(n, d) \in Nat
           /\ Rounded(n, d) * (2 * d) <= 2 * n + d
<1> DEFINE x == 2 * n + d
           y == 2 * d
<1>1. x \in Nat /\ y \in Nat \ {0}
    OBVIOUS
<1> HIDE DEF x, y
<1>2. x \div y \in Nat /\ y * (x \div y) <= x
    BY <1>1, Z3
<1>3. (x \div y) * y = y * (x \div y)
    BY <1>1, <1>2
<1> QED BY <1>2, <1>3 DEF Rounded, x, y

LEMMA CoverageIsPercentage ==
    ASSUME NEW n \in Nat, NEW p \in Nat, p <= n, n # 0
    PROVE  Rounded(100 * p, n) \in 0..100
<1> DEFINE c == Rounded(100 * p, n)
<1>1. c \in Nat /\ c * (2 * n) <= 2 * (100 * p) + n
    BY QuotientOfNaturals
<1> HIDE DEF c
<1> DEFINE y == c * (2 * n)
<1>2. y <= 201 * n
  <2>1. y \in Nat /\ y <= 2 * (100 * p) + n
      BY <1>1
  <2> HIDE DEF y
  <2> QED BY <2>1
<1>3. SUFFICES ASSUME c >= 101 PROVE FALSE
    BY <1>1 DEF c
<1>4. y >= 101 * (2 * n)
  <2>1. c = 101 + (c - 101) /\ c - 101 \in Nat
      BY <1>1, <1>3
  <2>2. (c - 101) * (2 * n) >= 0
      BY <2>1
  <2> QED BY <1>1, <2>1, <2>2
<1>5. y \in Nat
    BY <1>1
<1> HIDE DEF y
<1> QED BY <1>2, <1>4, <1>5

LEMMA ScoreOnScale ==
    ASSUME NEW e \in Nat, NEW x \in Nat, NEW coverage \in 0..100, NEW c \in Nat
    PROVE  Score(e, x, coverage, c) \in 0..100
<1> DEFINE gained == 70 + Least(15, 15 * e) + Rounded(coverage, 10)
                        + (IF c > 0 THEN 5 ELSE 0)
<1>1. Rounded(coverage, 10) \in Nat
  <2>1. coverage \in Nat /\ 10 \in Nat \ {0}
      OBVIOUS
  <2> QED BY <2>1, QuotientOfNaturals
<1>2. gained \in Nat
    BY <1>1 DEF Least
<1> HIDE DEF gained
<1>3. Score(e, x, coverage, c) =
          IF gained <= 10 * x THEN 0 ELSE Least(100, gained - 10 * x)
    BY DEF Score, gained
<1> QED BY <1>2, <1>3 DEF Least

-----------------------------------------------------------------------------
(* What is in the database stays, but for the state of a row.              *)

\* An event is written once; a row keeps what others rely on.
Grows ==
    /\ \A q \in Requests : event[q] # None => event'[q] = event[q]
    /\ \A q \in Requests : evidence[q] # None =>
           evidence'[q] # None /\ evidence'[q].order = evidence[q].order
    /\ \A q \in Requests : invoice[q] # None =>
           /\ invoice'[q] # None
           /\ invoice'[q].order = invoice[q].order /\ invoice'[q].hash = invoice[q].hash

\* Only the handler of q writes the event and the new rows of q.
OwnKept(q) ==
    /\ event'[q] = event[q]
    /\ evidence[q] = None => evidence'[q] = None
    /\ invoice[q] = None => invoice'[q] = None

LEMMA AcceptedStays ==
    ASSUME Grows, NEW o, Accepted(o)
    PROVE  Accepted(o)'
BY DEF Grows, Accepted

LEMMA EvidenceOfGrows ==
    ASSUME Grows, NEW o
    PROVE  /\ EvidenceOf(o) \subseteq EvidenceOf(o)'
           /\ Cardinality(EvidenceOf(o)) \in Nat /\ Cardinality(EvidenceOf(o)') \in Nat
           /\ Cardinality(EvidenceOf(o)) <= Cardinality(EvidenceOf(o)')
<1>1. EvidenceOf(o) \subseteq EvidenceOf(o)'
    BY DEF Grows, EvidenceOf
<1>2. EvidenceOf(o) \subseteq Requests /\ EvidenceOf(o)' \subseteq Requests
    BY DEF EvidenceOf
<1> QED BY <1>1, <1>2, RequestsAreFinite, FS_Subset

LEMMA InvoicesOfGrows ==
    ASSUME Grows, NEW o
    PROVE  /\ InvoicesOf(o) \subseteq InvoicesOf(o)'
           /\ Cardinality(InvoicesOf(o)) \in Nat /\ Cardinality(InvoicesOf(o)') \in Nat
           /\ Cardinality(InvoicesOf(o)) <= Cardinality(InvoicesOf(o)')
<1>1. InvoicesOf(o) \subseteq InvoicesOf(o)'
    BY DEF Grows, InvoicesOf
<1>2. InvoicesOf(o) \subseteq Requests /\ InvoicesOf(o)' \subseteq Requests
    BY DEF InvoicesOf
<1> QED BY <1>1, <1>2, RequestsAreFinite, FS_Subset

LEMMA EventsFitStays ==
    ASSUME Grows, NEW s, NEW o, EventsFit(s, o)
    PROVE  EventsFit(s, o)' /\ \A k \in 1..Len(s) : event'[s[k]] = event[s[k]]
<1>1. /\ Len(s) \in Nat \ {0}
      /\ \A k \in 1..Len(s) : s[k] \in Requests
    BY LastInSequence DEF EventsFit
<1>2. \A k \in 1..Len(s) : event[s[k]] # None
    BY <1>1 DEF EventsFit, Chained
<1>3. \A k \in 1..Len(s) : event'[s[k]] = event[s[k]]
    BY <1>1, <1>2 DEF Grows
<1>4. 1 \in 1..Len(s) /\ \A k \in 2..Len(s) : k \in 1..Len(s)
    BY <1>1
<1>5. Chained(s)'
    BY <1>3, <1>4 DEF EventsFit, Chained
<1> QED BY <1>3, <1>5 DEF EventsFit

LEMMA LastFits ==
    ASSUME NEW s, NEW o, EventsFit(s, o)
    PROVE  /\ Len(s) \in Nat \ {0} /\ s[Len(s)] \in Requests
           /\ event[s[Len(s)]] # None /\ event[s[Len(s)]].order = o
<1>1. Len(s) \in Nat \ {0} /\ s[Len(s)] \in Requests
    BY LastInSequence DEF EventsFit
<1> QED BY <1>1 DEF EventsFit, Chained

LEMMA OrderFitsStays ==
    ASSUME Grows, NEW o, NEW row, OrderFits(o, row)
    PROVE  OrderFits(o, row)' /\ event'[LastOf(row)] = event[LastOf(row)]
<1>1. EventsFit(row.events, o)' /\ event'[LastOf(row)] = event[LastOf(row)]
  <2>1. Len(row.events) \in 1..Len(row.events)
      BY LastFits DEF OrderFits
  <2> QED BY <2>1, EventsFitStays DEF OrderFits, LastOf
<1> QED BY <1>1 DEF OrderFits, LastOf, Order

LEMMA DraftFitsStays ==
    ASSUME Grows, NEW row, DraftFits(row)
    PROVE  DraftFits(row)' /\ event'[LastOf(row)] = event[LastOf(row)]
<1>1. /\ EventsFit(row.events, row.order)'
      /\ \A k \in 1..Len(row.events) : event'[row.events[k]] = event[row.events[k]]
    BY EventsFitStays DEF DraftFits
<1>2. Len(row.events) \in Nat \ {0}
    BY LastFits DEF DraftFits
<1>3. event'[LastOf(row)] = event[LastOf(row)]
    BY <1>1, <1>2 DEF LastOf
<1>4. ApprovalsFollowMatches(row.events)'
  <2>1. \A k \in 2..Len(row.events) : k \in 1..Len(row.events) /\ k - 1 \in 1..Len(row.events)
      BY <1>2
  <2> QED BY <1>1, <2>1 DEF DraftFits, ApprovalsFollowMatches
<1>5. Accepted(row.order)'
    BY AcceptedStays DEF DraftFits
<1>6. Backed(row)'
    BY EvidenceOfGrows DEF DraftFits, Backed
<1> QED BY <1>1, <1>3, <1>4, <1>5, <1>6 DEF DraftFits

LEMMA InvoiceFitsStays ==
    ASSUME Grows, NEW row, InvoiceFits(row)
    PROVE  InvoiceFits(row)'
BY DraftFitsStays DEF InvoiceFits, LastOf

LEMMA MetricsFitStays ==
    ASSUME Grows, NEW m \in Metrics, NEW o, MetricsFit(m, o)
    PROVE  MetricsFit(m, o)'
<1>1. m.evidence \in Nat /\ m.invoices \in Nat
    BY DEF Metrics
<1> QED BY <1>1, EvidenceOfGrows, InvoicesOfGrows DEF MetricsFit

LEMMA RowIsOfStays ==
    ASSUME Grows, NEW row, NEW i, RowIsOf(row, i)
    PROVE  RowIsOf(row, i)'
BY DEF Grows, RowIsOf

LEMMA JobOkStays ==
    ASSUME Grows, NEW r \in Requests, NEW step, NEW j, OwnKept(r), JobOk(r, step, j)
    PROVE  JobOk(r, step, j)'
<1>1. step \in EventIsDue => event'[r] = None
    BY DEF JobOk, OwnKept
<1>2. AcknowledgementOk(r, step, j)'
  <2>1. SUFFICES ASSUME step \in {"recordAcknowledgement", "saveOrder"}
                 PROVE  AcknowledgementOk(r, step, j)'
      BY DEF AcknowledgementOk
  <2>2. OrderFits(j.id, j.row)'
      BY <2>1, OrderFitsStays DEF JobOk, AcknowledgementOk
  <2> QED BY <2>1, <2>2 DEF JobOk, AcknowledgementOk, OwnKept, Recorded, LastOf, TypeOfOrder
<1>3. EvidenceOk(r, step, j)'
  <2>1. step \in {"idle", "saveBaseEvidence"} => evidence'[r] = None
      BY DEF JobOk, EvidenceOk, OwnKept
  <2>2. j \in EvidenceJob /\ event[j.prev] # None /\ event[j.prev].order = j.order =>
            event'[j.prev] # None /\ event'[j.prev].order = j.order
      BY DEF EvidenceJob, Grows
  <2>3. evidence[r] # None => evidence'[r] # None /\ evidence'[r].order = evidence[r].order
      BY DEF Grows
  <2> QED BY <2>1, <2>2, <2>3, AcceptedStays DEF JobOk, EvidenceOk, OwnKept, EvidenceJob
<1>4. SubmissionOk(r, step, j)'
    BY AcceptedStays DEF JobOk, SubmissionOk, OwnKept, Recorded, NewInvoice
<1>5. MatchOk(r, step, j)'
  <2>1. CASE step \in {"readMatchedOrder", "listMatchedEvidence"}
      BY <2>1, RowIsOfStays, InvoiceFitsStays DEF JobOk, MatchOk, MatchJob
  <2>2. CASE step \in {"recordMatch", "recordApproval", "saveInvoice"}
    <3>1. RowIsOf(j.row, j.id)' /\ DraftFits(j.row)' /\ event'[LastOf(j.row)] = event[LastOf(j.row)]
        BY <2>2, RowIsOfStays, DraftFitsStays DEF JobOk, MatchOk
    <3>2. step = "saveInvoice" =>
              Recorded(r, TypeOfInvoice(j.row.status), j.row.order, j.id, LastOf(j.row))'
        BY DEF JobOk, MatchOk, OwnKept, Recorded, TypeOfInvoice, LastOf
    <3> QED BY <2>2, <3>1, <3>2 DEF JobOk, MatchOk, LastOf
  <2> QED BY <2>1, <2>2 DEF MatchOk
<1>6. CloseoutOk(step, j)'
  <2>1. CASE step \in {"listEvidence", "listInvoices", "listCloseouts"}
    <3>1. EvidenceCounted(j) => EvidenceCounted(j)'
        BY EvidenceOfGrows, FS_CardinalityType DEF EvidenceCounted
    <3>2. InvoicesCounted(j) => InvoicesCounted(j)'
        BY InvoicesOfGrows, FS_CardinalityType DEF InvoicesCounted
    <3>3. j \in CloseoutJob' /\ Accepted(j.order)'
        BY <2>1, AcceptedStays DEF JobOk, CloseoutOk, CloseoutJob, EvidenceRead, InvoiceRead
    <3> QED BY <2>1, <3>1, <3>2, <3>3 DEF JobOk, CloseoutOk
  <2>2. CASE step = "insertCloseout"
    <3>1. j \in Closeout /\ j.metrics \in Metrics
        BY <2>2 DEF JobOk, CloseoutOk, Closeout
    <3>2. EvidenceOf(j.order)' # {}
        BY <2>2, EvidenceOfGrows DEF JobOk, CloseoutOk
    <3> QED BY <2>2, <3>1, <3>2, AcceptedStays, MetricsFitStays DEF JobOk, CloseoutOk
  <2> QED BY <2>1, <2>2 DEF CloseoutOk
<1> QED BY <1>1, <1>2, <1>3, <1>4, <1>5, <1>6 DEF JobOk

-----------------------------------------------------------------------------
(* How a step is shown to keep the invariant.                              *)

LEMMA EndOk ==
    ASSUME NEW r, NEW step \in {"done", "failed"}, NEW j
    PROVE  JobOk(r, step, j) /\ JobOk(r, step, j)'
BY DEF JobOk, EventIsDue, AcknowledgementOk, EvidenceOk, SubmissionOk, MatchOk, CloseoutOk

\* A row the step does not write fits as before.
LEMMA RowsFitStay ==
    ASSUME IInv, Grows,
           \A o \in Orders : order'[o] = order[o] \/ OrderFits(o, order[o])',
           \A i \in Requests : invoice'[i] # None =>
               invoice'[i] = invoice[i] \/ InvoiceFits(invoice[i])',
           \A e \in Requests : evidence'[e] # None =>
               evidence[e] # None \/ Accepted(evidence[e].order)',
           \A c \in Requests : closeout'[c] # None =>
               \/ closeout'[c] = closeout[c]
               \/ /\ Accepted(closeout[c].order)' /\ EvidenceOf(closeout[c].order)' # {}
                  /\ MetricsFit(closeout[c].metrics, closeout[c].order)'
    PROVE  RowsFit'
<1>1. ASSUME NEW o \in Orders PROVE OrderFits(o, order[o])'
    BY OrderFitsStays DEF IInv, RowsFit
<1>2. ASSUME NEW i \in Requests, invoice'[i] # None PROVE InvoiceFits(invoice[i])'
    BY <1>2, InvoiceFitsStays DEF IInv, RowsFit
<1>3. ASSUME NEW e \in Requests, evidence'[e] # None PROVE Accepted(evidence[e].order)'
  <2>1. CASE evidence[e] # None
    <3>1. evidence'[e].order = evidence[e].order
        BY <2>1 DEF Grows
    <3> QED BY <2>1, <3>1, AcceptedStays DEF IInv, RowsFit
  <2> QED BY <1>3, <2>1
<1>4. ASSUME NEW c \in Requests, closeout'[c] # None
      PROVE  /\ Accepted(closeout[c].order)' /\ EvidenceOf(closeout[c].order)' # {}
             /\ MetricsFit(closeout[c].metrics, closeout[c].order)'
  <2>1. CASE closeout'[c] = closeout[c]
    <3>1. /\ Accepted(closeout[c].order) /\ EvidenceOf(closeout[c].order) # {}
          /\ MetricsFit(closeout[c].metrics, closeout[c].order)
          /\ closeout[c].metrics \in Metrics
        BY <1>4, <2>1 DEF IInv, RowsFit, RowsAreTyped, Closeout
    <3>2. \A o : Accepted(o) => Accepted(o)'
        BY AcceptedStays
    <3>3. \A o : EvidenceOf(o) # {} => EvidenceOf(o)' # {}
        BY EvidenceOfGrows
    <3>4. \A m \in Metrics : \A o : MetricsFit(m, o) => MetricsFit(m, o)'
        BY MetricsFitStays
    <3> QED BY <2>1, <3>1, <3>2, <3>3, <3>4
  <2> QED BY <1>4, <2>1
<1> QED BY <1>1, <1>2, <1>3, <1>4 DEF RowsFit

LEMMA StepKeeps ==
    ASSUME IInv, NEW r \in Requests, NEW step, NEW j,
           pc' = [pc EXCEPT ![r] = step], job' = [job EXCEPT ![r] = j],
           Grows, \A q \in Requests \ {r} : OwnKept(q), JobOk(r, step, j)',
           RowsAreTyped', EventsContinue', RowsFit', EntriesAreUnique'
    PROVE  IInv'
<1>1. ASSUME NEW q \in Requests PROVE JobOk(q, pc[q], job[q])'
  <2>1. CASE q = r
    <3>1. pc'[q] = step /\ job'[q] = j
        BY <2>1 DEF IInv
    <3> QED BY <2>1, <3>1
  <2>2. CASE q # r
    <3>1. pc'[q] = pc[q] /\ job'[q] = job[q]
        BY <2>2 DEF IInv
    <3> QED BY <2>2, <3>1, JobOkStays DEF IInv
  <2> QED BY <2>1, <2>2
<1> QED BY <1>1 DEF IInv

LEMMA NothingWritten ==
    ASSUME IInv, UNCHANGED fulfilmentVars
    PROVE  /\ Grows /\ \A q : OwnKept(q)
           /\ RowsAreTyped' /\ EventsContinue' /\ RowsFit' /\ EntriesAreUnique'
<1>1. Grows /\ \A q : OwnKept(q)
    BY DEF Grows, OwnKept, fulfilmentVars
<1>2. RowsFit'
    BY <1>1, RowsFitStay DEF fulfilmentVars
<1> QED BY <1>1, <1>2 DEF IInv, RowsAreTyped, EventsContinue, EntriesAreUnique, fulfilmentVars

\* A step that only reads.
LEMMA ReadKeeps ==
    ASSUME IInv, NEW r \in Requests, NEW step, NEW j,
           pc' = [pc EXCEPT ![r] = step], job' = [job EXCEPT ![r] = j],
           UNCHANGED fulfilmentVars, JobOk(r, step, j)
    PROVE  IInv'
BY NothingWritten, JobOkStays, StepKeeps

LEMMA EndKeeps ==
    ASSUME IInv, NEW r \in Requests, NEW how \in {"done", "failed"}, Answer(r, how),
           UNCHANGED fulfilmentVars
    PROVE  IInv'
BY EndOk, ReadKeeps DEF Answer

\* The event of r is recorded: nothing else changes.
LEMMA EventKeeps ==
    ASSUME IInv, NEW r \in Requests, event[r] = None,
           NEW type \in EventTypes, NEW o \in Orders, NEW target \in Requests,
           NEW prev \in Requests \union {None},
           prev # None => event[prev] # None /\ event[prev].order = o,
           event' = [event EXCEPT ![r] =
               [ type |-> type, order |-> o, target |-> target, prev |-> prev ]],
           UNCHANGED <<order, evidence, invoice, closeout>>
    PROVE  /\ Grows /\ \A q \in Requests \ {r} : OwnKept(q)
           /\ Recorded(r, type, o, target, prev)' /\ event'[r] # None
           /\ RowsAreTyped' /\ EventsContinue' /\ RowsFit' /\ EntriesAreUnique'
<1> DEFINE e == [ type |-> type, order |-> o, target |-> target, prev |-> prev ]
<1>1. e \in Event /\ e # None /\ e.order = o /\ e.prev = prev
    BY NoneIsNoRow DEF Event
<1>2. event'[r] = e /\ \A q \in Requests \ {r} : event'[q] = event[q]
    BY DEF IInv, RowsAreTyped
<1>3. Recorded(r, type, o, target, prev)'
    BY <1>2 DEF Recorded
<1> HIDE DEF e
<1>4. Grows /\ \A q \in Requests \ {r} : OwnKept(q)
    BY <1>2 DEF Grows, OwnKept
<1>5. RowsAreTyped'
    BY <1>1 DEF IInv, RowsAreTyped, e
<1>6. EventsContinue'
  <2>1. SUFFICES ASSUME NEW q \in Requests, event'[q] # None, event'[q].prev # None
                 PROVE  event'[event'[q].prev] # None
                        /\ event'[event'[q].prev].order = event'[q].order
      BY DEF EventsContinue
  <2>2. \A p \in Requests : event[p] # None => event'[p] = event[p]
      BY <1>4 DEF Grows
  <2>3. CASE q = r
      BY <1>1, <1>2, <2>1, <2>2, <2>3
  <2>4. CASE q # r
    <3>1. event[q] # None /\ event[q] \in Event /\ event[q].prev # None /\ event'[q] = event[q]
        BY <1>2, <2>1, <2>4 DEF IInv, RowsAreTyped
    <3>2. event[q].prev \in Requests
        BY <3>1 DEF Event
    <3> QED BY <2>2, <3>1, <3>2 DEF IInv, EventsContinue
  <2> QED BY <2>3, <2>4
<1>7. RowsFit'
    BY <1>4, RowsFitStay
<1>8. EntriesAreUnique'
    BY DEF IInv, EntriesAreUnique
<1> QED BY <1>1, <1>2, <1>3, <1>4, <1>5, <1>6, <1>7, <1>8

LEMMA AppendFits ==
    ASSUME NEW s, NEW o, EventsFit(s, o), NEW r \in Requests,
           event[r] # None, event[r].order = o, event[r].prev = s[Len(s)]
    PROVE  /\ EventsFit(Append(s, r), o)
           /\ Len(Append(s, r)) = Len(s) + 1 /\ Append(s, r)[Len(s) + 1] = r
           /\ \A k \in 1..Len(s) : Append(s, r)[k] = s[k]
<1> DEFINE t == Append(s, r)
<1>1. s \in Seq(Requests) /\ Len(s) \in Nat \ {0}
    BY LastInSequence DEF EventsFit
<1>2. /\ t \in Seq(Requests) /\ t # <<>> /\ Len(t) = Len(s) + 1 /\ t[Len(s) + 1] = r
      /\ \A k \in 1..Len(s) : t[k] = s[k]
    BY <1>1
<1> HIDE DEF t
<1>3. \A k \in 1..Len(t) : event[t[k]] # None /\ event[t[k]].order = o
  <2> TAKE k \in 1..Len(t)
  <2>1. k \in 1..Len(s) => event[s[k]] # None
      BY <1>1 DEF EventsFit, Chained
  <2>2. k \in 1..Len(s) \/ k = Len(s) + 1
      BY <1>1, <1>2
  <2> QED BY <1>2, <2>1, <2>2 DEF EventsFit
<1>4. event[t[1]].prev = None
    BY <1>1, <1>2 DEF EventsFit, Chained
<1>5. \A k \in 2..Len(t) : event[t[k]].prev = t[k - 1]
  <2> TAKE k \in 2..Len(t)
  <2>1. k - 1 \in 1..Len(s) /\ (k \in 2..Len(s) \/ k = Len(s) + 1)
      BY <1>1, <1>2
  <2>2. k \in 2..Len(s) => k \in 1..Len(s)
      BY <1>1
  <2> QED BY <1>2, <2>1, <2>2 DEF EventsFit, Chained
<1>6. Chained(t)
  <2>1. 1 \in 1..Len(t) /\ \A k \in 2..Len(t) : k \in 1..Len(t)
      BY <1>1, <1>2
  <2> QED BY <1>3, <1>4, <1>5, <2>1 DEF Chained
<1> QED BY <1>2, <1>3, <1>6 DEF EventsFit, t

-----------------------------------------------------------------------------
(* POST /orders/:orderId/acknowledgement                                   *)

LEMMA ArrivalOk ==
    ASSUME IInv, NEW r \in Requests, NextToArrive(r)
    PROVE  event[r] = None /\ evidence[r] = None /\ invoice[r] = None
BY DEF IInv, NextToArrive, JobOk, EventIsDue, EvidenceOk, SubmissionOk

LEMMA AcknowledgeKeeps ==
    ASSUME IInv, NEW r \in Requests, NEW o \in Orders, NEW d \in {"accepted", "rejected"},
           Acknowledge(r, o, d)
    PROVE  IInv'
<1> DEFINE j == [ id |-> o, status |-> d, row |-> order[o] ]
<1>1. OrderFits(o, order[o]) /\ event[r] = None
    BY ArrivalOk DEF IInv, RowsFit, Acknowledge
<1>2. JobOk(r, "recordAcknowledgement", j)
    BY <1>1 DEF JobOk, AcknowledgementOk, EvidenceOk, SubmissionOk, MatchOk, CloseoutOk
<1> QED BY <1>2, ReadKeeps DEF Acknowledge, Await

LEMMA RecordAcknowledgementKeeps ==
    ASSUME IInv, NEW r \in Requests, RecordAcknowledgement(r)
    PROVE  IInv'
<1> PICK j : j = job[r]
    OBVIOUS
<1> DEFINE type == IF j.status = "accepted" THEN "purchaseOrderAccepted"
                                            ELSE "purchaseOrderRejected"
           prev == LastOf(j.row)
<1>1. /\ pc[r] = "recordAcknowledgement"
      /\ event' = [event EXCEPT ![r] =
             [ type |-> type, order |-> j.id, target |-> j.id, prev |-> prev ]]
      /\ pc' = [pc EXCEPT ![r] = "saveOrder"] /\ job' = [job EXCEPT ![r] = j]
      /\ UNCHANGED <<order, evidence, invoice, closeout>>
    BY DEF RecordAcknowledgement, RecordEvent, Await
<1>2. /\ event[r] = None /\ j.id \in Orders /\ j.status \in {"accepted", "rejected"}
      /\ OrderFits(j.id, j.row)
    BY <1>1 DEF IInv, JobOk, EventIsDue, AcknowledgementOk
<1>3. prev \in Requests /\ event[prev] # None /\ event[prev].order = j.id
    BY <1>2, LastFits DEF OrderFits, LastOf
<1>4. type \in EventTypes /\ type = TypeOfOrder(j.status)
    BY <1>2 DEF EventTypes, OrderEvents, Acknowledgements, TypeOfOrder
<1>5. j.id \in Requests
    BY <1>2, HandlingAssumption DEF Orders, Requests
<1> HIDE DEF type, prev
<1>6. /\ Grows /\ \A q \in Requests \ {r} : OwnKept(q)
      /\ Recorded(r, type, j.id, j.id, prev)'
      /\ RowsAreTyped' /\ EventsContinue' /\ RowsFit' /\ EntriesAreUnique'
    BY <1>1, <1>2, <1>3, <1>4, <1>5, EventKeeps
<1>7. JobOk(r, "saveOrder", j)'
  <2>1. OrderFits(j.id, j.row)'
      BY <1>2, <1>6, OrderFitsStays
  <2>2. Recorded(r, TypeOfOrder(j.status), j.id, j.id, LastOf(j.row))'
      BY <1>4, <1>6 DEF prev, TypeOfOrder, LastOf
  <2> QED BY <1>2, <2>1, <2>2 DEF JobOk, EventIsDue, AcknowledgementOk, EvidenceOk,
          SubmissionOk, MatchOk, CloseoutOk
<1> QED BY <1>1, <1>6, <1>7, StepKeeps

LEMMA SaveOrderKeeps ==
    ASSUME IInv, NEW r \in Requests, SaveOrder(r)
    PROVE  IInv'
<1> PICK j : j = job[r]
    OBVIOUS
<1> DEFINE row == [ status |-> j.status, events |-> Append(j.row.events, r) ]
<1>1. /\ pc[r] = "saveOrder"
      /\ order' = [order EXCEPT ![j.id] = row]
      /\ pc' = [pc EXCEPT ![r] = "done"] /\ job' = [job EXCEPT ![r] = None]
      /\ UNCHANGED <<evidence, invoice, closeout, event>>
    BY DEF SaveOrder, Answer
<1>2. /\ j.id \in Orders /\ j.status \in {"accepted", "rejected"}
      /\ OrderFits(j.id, j.row)
      /\ Recorded(r, TypeOfOrder(j.status), j.id, j.id, LastOf(j.row))
    BY <1>1 DEF IInv, JobOk, AcknowledgementOk
<1>3. event[r] # None /\ event[r].order = j.id /\ event[r].prev = LastOf(j.row)
      /\ event[r].type = TypeOfOrder(j.status)
  <2>1. j.id \in Requests /\ LastOf(j.row) \in Requests
      BY <1>2, LastFits, HandlingAssumption DEF Orders, Requests, OrderFits, LastOf
  <2>2. TypeOfOrder(j.status) \in EventTypes
      BY <1>2 DEF TypeOfOrder, EventTypes, OrderEvents, Acknowledgements
  <2> QED BY <1>2, <2>1, <2>2, NoneIsNoRow DEF Recorded, Event
<1>4. OrderFits(j.id, row)
  <2>1. /\ EventsFit(row.events, j.id)
        /\ Len(row.events) = Len(j.row.events) + 1
        /\ row.events[Len(j.row.events) + 1] = r
      BY <1>2, <1>3, AppendFits DEF OrderFits, LastOf
  <2>2. row.status = j.status /\ row \in Order
      BY <1>2, <2>1 DEF Order, EventsFit
  <2> HIDE DEF row
  <2> QED BY <1>3, <2>1, <2>2 DEF OrderFits, LastOf
<1>5. row \in Order
    BY <1>4 DEF OrderFits
<1> HIDE DEF row
<1>6. Grows /\ \A q \in Requests \ {r} : OwnKept(q)
    BY <1>1 DEF Grows, OwnKept
<1>7. RowsAreTyped' /\ EventsContinue' /\ EntriesAreUnique'
    BY <1>1, <1>5 DEF IInv, RowsAreTyped, EventsContinue, EntriesAreUnique
<1>8. OrderFits(j.id, row)'
    BY <1>4, <1>6, OrderFitsStays
<1>9. RowsFit'
  <2>1. ASSUME NEW o \in Orders PROVE order'[o] = order[o] \/ OrderFits(o, order[o])'
    <3>1. CASE o = j.id
      <4>1. order'[o] = row
          BY <1>1, <3>1 DEF IInv, RowsAreTyped
      <4> QED BY <1>8, <3>1, <4>1
    <3> QED BY <1>1, <3>1 DEF IInv, RowsAreTyped
  <2> QED BY <1>1, <1>6, <2>1, RowsFitStay
<1> QED BY <1>1, <1>6, <1>7, <1>9, EndOk, StepKeeps

-----------------------------------------------------------------------------
(* POST /orders/:orderId/delivery-evidence                                 *)

LEMMA AcceptedOrder ==
    ASSUME IInv, NEW o \in Orders, order[o].status = "accepted"
    PROVE  /\ Accepted(o)
           /\ LastOf(order[o]) \in Requests /\ event[LastOf(order[o])] # None
           /\ event[LastOf(order[o])].order = o
<1>1. OrderFits(o, order[o])
    BY DEF IInv, RowsFit
<1>2. /\ LastOf(order[o]) \in Requests /\ event[LastOf(order[o])] # None
      /\ event[LastOf(order[o])].order = o
    BY <1>1, LastFits DEF OrderFits, LastOf
<1> QED BY <1>1, <1>2 DEF OrderFits, TypeOfOrder, Accepted

LEMMA SubmitEvidenceKeeps ==
    ASSUME IInv, NEW r \in Requests, NEW o \in Orders, SubmitEvidence(r, o)
    PROVE  IInv'
<1> DEFINE j == [ order |-> o, prev |-> LastOf(order[o]) ]
<1>1. JobOk(r, "saveBaseEvidence", j)
    BY ArrivalOk, AcceptedOrder DEF SubmitEvidence, JobOk, EventIsDue, AcknowledgementOk,
       EvidenceOk, EvidenceJob, SubmissionOk, MatchOk, CloseoutOk
<1> QED BY <1>1, ReadKeeps DEF SubmitEvidence, Await

\* A row of evidence of an order whose acceptance was recorded is inserted or
\* gets its event.
LEMMA EvidenceKeeps ==
    ASSUME IInv, NEW r \in Requests, NEW e \in Evidence, Accepted(e.order),
           evidence[r] # None => evidence[r].order = e.order,
           evidence' = [evidence EXCEPT ![r] = e],
           UNCHANGED <<order, invoice, closeout, event>>
    PROVE  /\ Grows /\ \A q \in Requests \ {r} : OwnKept(q)
           /\ evidence'[r] = e /\ e # None
           /\ RowsAreTyped' /\ EventsContinue' /\ RowsFit' /\ EntriesAreUnique'
<1>1. /\ e # None /\ evidence'[r] = e
      /\ \A q \in Requests \ {r} : evidence'[q] = evidence[q]
    BY NoneIsNoRow DEF IInv, RowsAreTyped
<1>2. Grows /\ \A q \in Requests \ {r} : OwnKept(q)
    BY <1>1 DEF Grows, OwnKept
<1>3. RowsAreTyped' /\ EventsContinue' /\ EntriesAreUnique'
    BY DEF IInv, RowsAreTyped, EventsContinue, EntriesAreUnique
<1>4. Accepted(e.order)'
    BY <1>2, AcceptedStays
<1>5. ASSUME NEW q \in Requests, evidence'[q] # None
      PROVE  evidence[q] # None \/ Accepted(evidence[q].order)'
    BY <1>1, <1>4, <1>5
<1> QED BY <1>1, <1>2, <1>3, <1>5, RowsFitStay

LEMMA SaveBaseEvidenceKeeps ==
    ASSUME IInv, NEW r \in Requests, SaveBaseEvidence(r)
    PROVE  IInv'
<1> PICK j : j = job[r]
    OBVIOUS
<1> DEFINE e == [ order |-> j.order, event |-> None ]
<1>1. /\ pc[r] = "saveBaseEvidence"
      /\ evidence' = [evidence EXCEPT ![r] = e]
      /\ pc' = [pc EXCEPT ![r] = "listEvents"] /\ job' = [job EXCEPT ![r] = j]
      /\ UNCHANGED <<order, invoice, closeout, event>>
    BY DEF SaveBaseEvidence, Await
<1>2. /\ event[r] = None /\ evidence[r] = None /\ j \in EvidenceJob /\ Accepted(j.order)
      /\ event[j.prev] # None /\ event[j.prev].order = j.order
    BY <1>1 DEF IInv, JobOk, EventIsDue, EvidenceOk
<1>3. e \in Evidence /\ e.order = j.order
    BY <1>2 DEF Evidence, EvidenceJob
<1> HIDE DEF e
<1>4. /\ Grows /\ \A q \in Requests \ {r} : OwnKept(q)
      /\ evidence'[r] = e /\ e # None
      /\ RowsAreTyped' /\ EventsContinue' /\ RowsFit' /\ EntriesAreUnique'
    BY <1>1, <1>2, <1>3, EvidenceKeeps
<1>5. JobOk(r, "listEvents", j)'
    BY <1>1, <1>2, <1>3, <1>4, AcceptedStays DEF JobOk, EventIsDue, AcknowledgementOk,
       EvidenceOk, EvidenceJob, SubmissionOk, MatchOk, CloseoutOk
<1> QED BY <1>1, <1>4, <1>5, StepKeeps

LEMMA ListEventsKeeps ==
    ASSUME IInv, NEW r \in Requests, ListEvents(r)
    PROVE  IInv'
<1>1. JobOk(r, "listEvents", job[r]) /\ job[r] \in EvidenceJob /\ event[job[r].prev] # None
    BY DEF ListEvents, IInv, JobOk, EvidenceOk
<1>2. [job[r] EXCEPT !.prev = IF event[job[r].prev] # None THEN job[r].prev ELSE None] = job[r]
    BY <1>1 DEF EvidenceJob
<1>3. /\ pc' = [pc EXCEPT ![r] = "recordEvidence"] /\ job' = [job EXCEPT ![r] = job[r]]
      /\ UNCHANGED fulfilmentVars
    BY <1>2 DEF ListEvents, Await
<1>4. JobOk(r, "recordEvidence", job[r])
    BY <1>1 DEF JobOk, EventIsDue, AcknowledgementOk, EvidenceOk, SubmissionOk, MatchOk, CloseoutOk
<1> QED BY <1>3, <1>4, ReadKeeps

LEMMA RecordEvidenceKeeps ==
    ASSUME IInv, NEW r \in Requests, RecordEvidence(r)
    PROVE  IInv'
<1> PICK j : j = job[r]
    OBVIOUS
<1>1. /\ pc[r] = "recordEvidence"
      /\ event' = [event EXCEPT ![r] = [ type |-> "deliveryEvidenceSubmitted",
             order |-> j.order, target |-> r, prev |-> j.prev ]]
      /\ pc' = [pc EXCEPT ![r] = "anchorEvidence"] /\ job' = [job EXCEPT ![r] = j]
      /\ UNCHANGED <<order, evidence, invoice, closeout>>
    BY DEF RecordEvidence, RecordEvent, Await
<1>2. /\ event[r] = None /\ j \in EvidenceJob /\ Accepted(j.order)
      /\ event[j.prev] # None /\ event[j.prev].order = j.order
      /\ evidence[r] # None /\ evidence[r].order = j.order
    BY <1>1 DEF IInv, JobOk, EventIsDue, EvidenceOk
<1>3. j.order \in Orders /\ j.prev \in Requests /\ "deliveryEvidenceSubmitted" \in EventTypes
    BY <1>2 DEF EvidenceJob, EventTypes
<1>4. /\ Grows /\ \A q \in Requests \ {r} : OwnKept(q)
      /\ event'[r] # None
      /\ RowsAreTyped' /\ EventsContinue' /\ RowsFit' /\ EntriesAreUnique'
    BY <1>1, <1>2, <1>3, EventKeeps
<1>5. event'[j.prev] # None /\ event'[j.prev].order = j.order
    BY <1>2, <1>3, <1>4 DEF Grows
<1>6. JobOk(r, "anchorEvidence", j)'
    BY <1>1, <1>2, <1>4, <1>5, AcceptedStays DEF JobOk, EventIsDue, AcknowledgementOk,
       EvidenceOk, EvidenceJob, SubmissionOk, MatchOk, CloseoutOk
<1> QED BY <1>1, <1>4, <1>6, StepKeeps

LEMMA AnchorEvidenceKeeps ==
    ASSUME IInv, NEW r \in Requests, AnchorEvidence(r)
    PROVE  IInv'
<1>1. JobOk(r, "anchorEvidence", job[r])
    BY DEF AnchorEvidence, IInv
<1>2. JobOk(r, "saveFinalEvidence", job[r])
    BY <1>1 DEF JobOk, EventIsDue, AcknowledgementOk, EvidenceOk, SubmissionOk, MatchOk, CloseoutOk
<1> QED BY <1>2, ReadKeeps DEF AnchorEvidence, Await

LEMMA SaveFinalEvidenceKeeps ==
    ASSUME IInv, NEW r \in Requests, SaveFinalEvidence(r)
    PROVE  IInv'
<1> PICK j : j = job[r]
    OBVIOUS
<1> DEFINE e == [ order |-> j.order, event |-> r ]
<1>1. /\ pc[r] = "saveFinalEvidence"
      /\ evidence' = [evidence EXCEPT ![r] = e]
      /\ pc' = [pc EXCEPT ![r] = "done"] /\ job' = [job EXCEPT ![r] = None]
      /\ UNCHANGED <<order, invoice, closeout, event>>
    BY DEF SaveFinalEvidence, Answer
<1>2. j \in EvidenceJob /\ Accepted(j.order) /\ evidence[r].order = j.order
    BY <1>1 DEF IInv, JobOk, EvidenceOk
<1>3. e \in Evidence /\ e.order = j.order
    BY <1>2 DEF Evidence, EvidenceJob
<1> HIDE DEF e
<1>4. /\ Grows /\ \A q \in Requests \ {r} : OwnKept(q)
      /\ RowsAreTyped' /\ EventsContinue' /\ RowsFit' /\ EntriesAreUnique'
    BY <1>1, <1>2, <1>3, EvidenceKeeps
<1> QED BY <1>1, <1>4, EndOk, StepKeeps

-----------------------------------------------------------------------------
(* POST /invoices                                                          *)

LEMMA SubmitInvoiceKeeps ==
    ASSUME IInv, NEW r \in Requests, NEW o \in Orders,
           NEW e \in {q \in Requests : evidence[q] # None} \union {None},
           NEW amount \in Amounts, NEW hash \in Hashes \union {r},
           SubmitInvoice(r, o, e, amount, hash)
    PROVE  IInv'
<1> DEFINE j == [ order |-> o, evidence |-> e, amount |-> amount, hash |-> hash,
                  status |-> "submitted", match |-> "notChecked", matched |-> None,
                  approvedBy |-> None, events |-> <<>> ]
<1>1. j \in NewInvoice /\ j.order = o
    BY FulfilmentAssumption DEF NewInvoice
<1>2. /\ event[r] = None /\ invoice[r] = None /\ Accepted(o)
      /\ job' = [job EXCEPT ![r] = j] /\ UNCHANGED fulfilmentVars
    BY ArrivalOk, AcceptedOrder DEF SubmitInvoice, Await
<1> HIDE DEF j
<1>3. ASSUME NEW step \in {"findInvoiceHash", "readLinkedEvidence"}
      PROVE  JobOk(r, step, j)
    BY <1>1, <1>2 DEF JobOk, EventIsDue, AcknowledgementOk, EvidenceOk,
       SubmissionOk, MatchOk, CloseoutOk
<1>4. \E step \in {"findInvoiceHash", "readLinkedEvidence"} : pc' = [pc EXCEPT ![r] = step]
    BY DEF SubmitInvoice, Await
<1> QED BY <1>2, <1>3, <1>4, ReadKeeps

LEMMA SubmissionReadKeeps ==
    ASSUME IInv, NEW r \in Requests, ReadLinkedEvidence(r) \/ FindInvoiceHash(r)
    PROVE  IInv'
<1>1. /\ pc[r] \in {"readLinkedEvidence", "findInvoiceHash"} /\ UNCHANGED fulfilmentVars
      /\ \/ Answer(r, "done")
         \/ Await(r, "findInvoiceHash", job[r]) \/ Await(r, "recordInvoice", job[r])
    BY DEF ReadLinkedEvidence, FindInvoiceHash
<1>2. ASSUME NEW step \in {"findInvoiceHash", "recordInvoice"}
      PROVE  JobOk(r, step, job[r])
  <2>1. JobOk(r, pc[r], job[r])
      BY DEF IInv
  <2> QED BY <1>1, <2>1 DEF JobOk, EventIsDue, AcknowledgementOk, EvidenceOk,
          SubmissionOk, MatchOk, CloseoutOk
<1> QED BY <1>1, <1>2, EndKeeps, ReadKeeps DEF Await

LEMMA RecordInvoiceKeeps ==
    ASSUME IInv, NEW r \in Requests, RecordInvoice(r)
    PROVE  IInv'
<1> PICK j : j = job[r]
    OBVIOUS
<1>1. /\ pc[r] = "recordInvoice"
      /\ event' = [event EXCEPT ![r] =
             [ type |-> "invoiceIssued", order |-> j.order, target |-> r, prev |-> None ]]
      /\ pc' = [pc EXCEPT ![r] = "insertInvoice"] /\ job' = [job EXCEPT ![r] = j]
      /\ UNCHANGED <<order, evidence, invoice, closeout>>
    BY DEF RecordInvoice, RecordEvent, Await
<1>2. event[r] = None /\ j \in NewInvoice /\ Accepted(j.order) /\ invoice[r] = None
    BY <1>1 DEF IInv, JobOk, EventIsDue, SubmissionOk
<1>3. j.order \in Orders /\ "invoiceIssued" \in EventTypes
    BY <1>2 DEF NewInvoice, EventTypes, InvoiceEvents
<1>4. /\ Grows /\ \A q \in Requests \ {r} : OwnKept(q)
      /\ Recorded(r, "invoiceIssued", j.order, r, None)'
      /\ RowsAreTyped' /\ EventsContinue' /\ RowsFit' /\ EntriesAreUnique'
    BY <1>1, <1>2, <1>3, EventKeeps
<1>5. JobOk(r, "insertInvoice", j)'
    BY <1>1, <1>2, <1>4, AcceptedStays DEF JobOk, EventIsDue, AcknowledgementOk,
       EvidenceOk, NewInvoice, SubmissionOk, MatchOk, CloseoutOk
<1> QED BY <1>1, <1>4, <1>5, StepKeeps

\* An invoice is inserted, or a row of it that fits is written over it.
LEMMA InvoiceKeeps ==
    ASSUME IInv, NEW r \in Requests, NEW i \in Requests, NEW row, InvoiceFits(row),
           \/ invoice[i] = None /\ i = r /\ ~HashTaken(row.hash)
           \/ RowIsOf(row, i),
           invoice' = [invoice EXCEPT ![i] = row],
           UNCHANGED <<order, evidence, closeout, event>>
    PROVE  /\ Grows /\ \A q \in Requests \ {r} : OwnKept(q)
           /\ RowsAreTyped' /\ EventsContinue' /\ RowsFit' /\ EntriesAreUnique'
<1>1. /\ row \in Invoice /\ row # None /\ invoice'[i] = row
      /\ \A q \in Requests \ {i} : invoice'[q] = invoice[q]
    BY NoneIsNoRow DEF IInv, RowsAreTyped, InvoiceFits, DraftFits
<1>2. invoice[i] # None => row.order = invoice[i].order /\ row.hash = invoice[i].hash
    BY DEF RowIsOf
<1>3. Grows /\ \A q \in Requests \ {r} : OwnKept(q)
    BY <1>1, <1>2 DEF Grows, OwnKept, RowIsOf
<1>4. RowsAreTyped' /\ EventsContinue'
    BY <1>1 DEF IInv, RowsAreTyped, EventsContinue
<1>5. InvoiceFits(row)'
    BY <1>3, InvoiceFitsStays
<1>6. ASSUME NEW q \in Requests
      PROVE  invoice'[q] = invoice[q] \/ InvoiceFits(invoice[q])'
    BY <1>1, <1>5
<1>7. RowsFit'
    BY <1>3, <1>6, RowsFitStay
<1>8. \A q \in Requests \ {i} : invoice[q] # None => invoice[q].hash # row.hash
    BY DEF HashTaken, RowIsOf, IInv, EntriesAreUnique
<1>9. EntriesAreUnique'
    BY <1>1, <1>8 DEF IInv, EntriesAreUnique
<1> QED BY <1>3, <1>4, <1>7, <1>9

LEMMA FirstEventFits ==
    ASSUME IInv, NEW r \in Requests, NEW o \in Orders,
           Recorded(r, "invoiceIssued", o, r, None)
    PROVE  /\ EventsFit(<<r>>, o) /\ ApprovalsFollowMatches(<<r>>)
           /\ event[r].type = "invoiceIssued" /\ <<r>>[Len(<<r>>)] = r
<1>1. [ type |-> "invoiceIssued", order |-> o, target |-> r, prev |-> None ] \in Event
    BY DEF Event, EventTypes, InvoiceEvents
<1>2. event[r] # None /\ event[r].order = o /\ event[r].prev = None
      /\ event[r].type = "invoiceIssued"
    BY <1>1, NoneIsNoRow DEF Recorded
<1>3. /\ <<r>> \in Seq(Requests) /\ <<r>> # <<>> /\ Len(<<r>>) = 1 /\ <<r>>[1] = r
      /\ 2..1 = {} /\ 1..1 = {1}
    OBVIOUS
<1> QED BY <1>2, <1>3 DEF EventsFit, Chained, ApprovalsFollowMatches

LEMMA InsertInvoiceKeeps ==
    ASSUME IInv, NEW r \in Requests, InsertInvoice(r)
    PROVE  IInv'
<1> PICK j : j = job[r]
    OBVIOUS
<1> DEFINE row == [j EXCEPT !.amount = Numeric[j.amount], !.events = <<r>>]
<1>1. CASE HashConstraintAdmits(j.hash)
  <2>1. /\ pc[r] = "insertInvoice" /\ ~HashTaken(j.hash)
        /\ invoice' = [invoice EXCEPT ![r] = row]
        /\ pc' = [pc EXCEPT ![r] = "done"] /\ job' = [job EXCEPT ![r] = None]
        /\ UNCHANGED <<order, evidence, closeout, event>>
      BY <1>1 DEF InsertInvoice, Answer, HashConstraintAdmits
  <2>2. /\ j \in NewInvoice /\ Accepted(j.order) /\ invoice[r] = None
        /\ Recorded(r, "invoiceIssued", j.order, r, None)
      BY <2>1 DEF IInv, JobOk, SubmissionOk
  <2>3. /\ row \in Invoice /\ row.order = j.order /\ row.hash = j.hash
        /\ row.events = <<r>> /\ row.status = "submitted" /\ row.match = "notChecked"
    <3>1. Numeric[j.amount] \in DOMAIN Numeric
        BY <2>2, FulfilmentAssumption DEF NewInvoice
    <3>2. <<r>> \in Seq(Requests)
        OBVIOUS
    <3> QED BY <2>2, <3>1, <3>2 DEF NewInvoice, Invoice
  <2> HIDE DEF row
  <2>4. InvoiceFits(row)
    <3>1. j.order \in Orders
        BY <2>2 DEF NewInvoice
    <3> QED BY <2>2, <2>3, <3>1, FirstEventFits
            DEF InvoiceFits, DraftFits, Backed, LastOf, TypeOfInvoice
  <2>5. /\ Grows /\ \A q \in Requests \ {r} : OwnKept(q)
        /\ RowsAreTyped' /\ EventsContinue' /\ RowsFit' /\ EntriesAreUnique'
      BY <2>1, <2>2, <2>3, <2>4, InvoiceKeeps
  <2> QED BY <2>1, <2>5, EndOk, StepKeeps
<1>2. CASE ~HashConstraintAdmits(j.hash)
    BY <1>2, EndKeeps DEF InsertInvoice, fulfilmentVars
<1> QED BY <1>1, <1>2

-----------------------------------------------------------------------------
(* POST /invoices/:id/verify-match and /approve-payment                    *)

LEMMA VerifyMatchKeeps ==
    ASSUME IInv, NEW r \in Requests, NEW i \in Requests, VerifyMatch(r, i)
    PROVE  IInv'
<1> DEFINE j == [ id |-> i, row |-> invoice[i], accepted |-> FALSE ]
<1>1. /\ invoice[i] # None /\ InvoiceFits(invoice[i]) /\ invoice[i] \in Invoice
      /\ event[r] = None
    BY ArrivalOk DEF VerifyMatch, IInv, RowsFit, RowsAreTyped
<1>2. j \in MatchJob /\ j.row = invoice[i] /\ j.id = i
    BY <1>1 DEF MatchJob
<1> HIDE DEF j
<1>3. JobOk(r, "readMatchedOrder", j)
    BY <1>1, <1>2 DEF RowIsOf, JobOk, EventIsDue, AcknowledgementOk, EvidenceOk,
       SubmissionOk, MatchOk, CloseoutOk
<1> QED BY <1>3, ReadKeeps DEF VerifyMatch, Await, j

LEMMA ReadMatchedOrderKeeps ==
    ASSUME IInv, NEW r \in Requests, ReadMatchedOrder(r)
    PROVE  IInv'
<1> DEFINE j == [job[r] EXCEPT !.accepted = order[job[r].row.order].status = "accepted"]
<1>1. /\ event[r] = None /\ job[r] \in MatchJob /\ RowIsOf(job[r].row, job[r].id)
      /\ InvoiceFits(job[r].row)
    BY DEF ReadMatchedOrder, IInv, JobOk, EventIsDue, MatchOk
<1>2. j \in MatchJob /\ j.row = job[r].row /\ j.id = job[r].id
    BY <1>1 DEF MatchJob
<1> HIDE DEF j
<1>3. JobOk(r, "listMatchedEvidence", j)
    BY <1>1, <1>2 DEF JobOk, EventIsDue, AcknowledgementOk, EvidenceOk,
       SubmissionOk, MatchOk, CloseoutOk
<1> QED BY <1>3, ReadKeeps DEF ReadMatchedOrder, Await, j

LEMMA MatchedEvidenceIsStored ==
    ASSUME NEW row
    PROVE  \/ MatchedEvidence(row) = None
           \/ /\ MatchedEvidence(row) \in EvidenceOf(row.order)
              /\ row.evidence \in {None, MatchedEvidence(row)}
<1> DEFINE records == EvidenceOf(row.order)
<1>1. records \subseteq Requests /\ Requests \subseteq Nat
    BY RequestsAreFinite DEF EvidenceOf
<1>2. records # {} => Min(records) \in records
    BY <1>1, MinIsMember
<1> QED BY <1>2 DEF MatchedEvidence

LEMMA ListMatchedEvidenceKeeps ==
    ASSUME IInv, NEW r \in Requests, ListMatchedEvidence(r)
    PROVE  IInv'
<1> DEFINE old == job[r].row
           passed == Matches(old, job[r].accepted)
           row == [old EXCEPT !.status = IF passed THEN "matchPassed" ELSE "matchFailed",
                              !.match = IF passed THEN "passed" ELSE "failed",
                              !.matched = MatchedEvidence(old)]
           j == [ id |-> job[r].id, row |-> row ]
<1>1. /\ event[r] = None /\ RowIsOf(old, job[r].id) /\ InvoiceFits(old)
    BY DEF ListMatchedEvidence, IInv, JobOk, EventIsDue, MatchOk
<1>2. MatchedEvidence(old) \in Requests \union {None}
    BY MatchedEvidenceIsStored DEF EvidenceOf
<1>3. /\ row \in Invoice
      /\ row.order = old.order /\ row.hash = old.hash /\ row.events = old.events
      /\ row.amount = old.amount /\ row.evidence = old.evidence
      /\ row.matched = MatchedEvidence(old)
      /\ row.status = (IF passed THEN "matchPassed" ELSE "matchFailed")
      /\ row.match = (IF passed THEN "passed" ELSE "failed")
    BY <1>1, <1>2 DEF InvoiceFits, DraftFits, Invoice
<1>4. /\ pc' = [pc EXCEPT ![r] = "recordMatch"] /\ job' = [job EXCEPT ![r] = j]
      /\ UNCHANGED fulfilmentVars
    BY DEF ListMatchedEvidence, Await
<1> HIDE DEF row
<1>5. Backed(row)
    BY <1>3, MatchedEvidenceIsStored DEF Backed, Matches
<1>6. DraftFits(row)
    BY <1>1, <1>3, <1>5 DEF InvoiceFits, DraftFits
<1>7. RowIsOf(row, job[r].id)
    BY <1>1, <1>3 DEF RowIsOf
<1>8. j.row = row /\ j.id = job[r].id
    OBVIOUS
<1> HIDE DEF j
<1>9. JobOk(r, "recordMatch", j)
    BY <1>1, <1>3, <1>6, <1>7, <1>8 DEF JobOk, EventIsDue, AcknowledgementOk, EvidenceOk,
       SubmissionOk, MatchOk, CloseoutOk
<1> QED BY <1>4, <1>9, ReadKeeps

LEMMA ApprovePaymentKeeps ==
    ASSUME IInv, NEW r \in Requests, NEW i \in Requests, ApprovePayment(r, i)
    PROVE  IInv'
<1> DEFINE row == [invoice[i] EXCEPT !.status = "paymentApproved", !.approvedBy = r]
           j == [ id |-> i, row |-> row ]
<1>1. /\ invoice[i] # None /\ invoice[i].status = "matchPassed" /\ event[r] = None
      /\ InvoiceFits(invoice[i])
      /\ pc' = [pc EXCEPT ![r] = "recordApproval"] /\ job' = [job EXCEPT ![r] = j]
      /\ UNCHANGED fulfilmentVars
    BY ArrivalOk DEF ApprovePayment, Await, IInv, RowsFit
<1>2. /\ row \in Invoice
      /\ row.order = invoice[i].order /\ row.hash = invoice[i].hash
      /\ row.events = invoice[i].events /\ row.amount = invoice[i].amount
      /\ row.evidence = invoice[i].evidence /\ row.matched = invoice[i].matched
      /\ row.match = invoice[i].match /\ row.status = "paymentApproved"
    BY <1>1 DEF InvoiceFits, DraftFits, Invoice
<1> HIDE DEF row
<1>3. DraftFits(row) /\ RowIsOf(row, i)
    BY <1>1, <1>2 DEF InvoiceFits, DraftFits, Backed, RowIsOf
<1>4. event[LastOf(row)].type = "invoiceMatchPassed"
    BY <1>1, <1>2 DEF InvoiceFits, LastOf, TypeOfInvoice
<1>5. j.row = row /\ j.id = i
    OBVIOUS
<1> HIDE DEF j
<1>6. JobOk(r, "recordApproval", j)
    BY <1>1, <1>2, <1>3, <1>4, <1>5 DEF JobOk, EventIsDue, AcknowledgementOk, EvidenceOk,
       SubmissionOk, MatchOk, CloseoutOk
<1> QED BY <1>1, <1>6, ReadKeeps

LEMMA RecordDecisionKeeps ==
    ASSUME IInv, NEW r \in Requests, RecordMatch(r) \/ RecordApproval(r)
    PROVE  IInv'
<1> PICK j : j = job[r]
    OBVIOUS
<1> DEFINE type == TypeOfInvoice(j.row.status)
           prev == LastOf(j.row)
<1>1. pc[r] \in {"recordMatch", "recordApproval"}
    BY DEF RecordMatch, RecordApproval, RecordEvent
<1>2. /\ event[r] = None /\ RowIsOf(j.row, j.id) /\ DraftFits(j.row)
      /\ j.row.status \in {"matchPassed", "matchFailed", "paymentApproved"}
      /\ j.row.status = "paymentApproved" => event[prev].type = "invoiceMatchPassed"
      /\ pc[r] = "recordMatch" => j.row.status # "paymentApproved"
      /\ pc[r] = "recordApproval" => j.row.status = "paymentApproved"
    BY <1>1 DEF IInv, JobOk, EventIsDue, MatchOk
<1>3. j.row.match = "passed" <=> j.row.status \in {"matchPassed", "paymentApproved"}
    BY <1>2 DEF DraftFits, Backed
<1>4. /\ event' = [event EXCEPT ![r] =
             [ type |-> type, order |-> j.row.order, target |-> j.id, prev |-> prev ]]
      /\ pc' = [pc EXCEPT ![r] = "saveInvoice"] /\ job' = [job EXCEPT ![r] = j]
      /\ UNCHANGED <<order, evidence, invoice, closeout>>
    BY <1>2, <1>3 DEF RecordMatch, RecordApproval, RecordEvent, Await, TypeOfInvoice
<1>5. prev \in Requests /\ event[prev] # None /\ event[prev].order = j.row.order
    BY <1>2, LastFits DEF DraftFits, LastOf
<1>6. /\ type \in EventTypes /\ j.row.order \in Orders /\ j.id \in Requests
    BY <1>2 DEF EventTypes, InvoiceEvents, TypeOfInvoice, DraftFits, Invoice, RowIsOf
<1> HIDE DEF type, prev
<1>7. /\ Grows /\ \A q \in Requests \ {r} : OwnKept(q)
      /\ Recorded(r, type, j.row.order, j.id, prev)'
      /\ RowsAreTyped' /\ EventsContinue' /\ RowsFit' /\ EntriesAreUnique'
    BY <1>2, <1>4, <1>5, <1>6, EventKeeps
<1>8. JobOk(r, "saveInvoice", j)'
  <2>1. DraftFits(j.row)' /\ RowIsOf(j.row, j.id)' /\ event'[LastOf(j.row)] = event[LastOf(j.row)]
      BY <1>2, <1>7, DraftFitsStays, RowIsOfStays
  <2>2. Recorded(r, TypeOfInvoice(j.row.status), j.row.order, j.id, LastOf(j.row))'
      BY <1>7 DEF type, prev, TypeOfInvoice, LastOf
  <2>3. j.row.status = "paymentApproved" => event'[LastOf(j.row)].type = "invoiceMatchPassed"
      BY <1>2, <2>1 DEF prev
  <2> QED BY <1>2, <2>1, <2>2, <2>3 DEF JobOk, EventIsDue, AcknowledgementOk, EvidenceOk,
          SubmissionOk, MatchOk, CloseoutOk, LastOf
<1> QED BY <1>4, <1>7, <1>8, StepKeeps

LEMMA SaveInvoiceKeeps ==
    ASSUME IInv, NEW r \in Requests, SaveInvoice(r)
    PROVE  IInv'
<1> PICK j : j = job[r]
    OBVIOUS
<1> DEFINE old == j.row
           row == [old EXCEPT !.events = Append(old.events, r)]
           type == TypeOfInvoice(old.status)
<1>1. /\ pc[r] = "saveInvoice" /\ invoice' = [invoice EXCEPT ![j.id] = row]
      /\ pc' = [pc EXCEPT ![r] = "done"] /\ job' = [job EXCEPT ![r] = None]
      /\ UNCHANGED <<order, evidence, closeout, event>>
    BY DEF SaveInvoice, Answer
<1>2. /\ RowIsOf(old, j.id) /\ DraftFits(old)
      /\ old.status \in {"matchPassed", "matchFailed", "paymentApproved"}
      /\ old.status = "paymentApproved" => event[LastOf(old)].type = "invoiceMatchPassed"
      /\ Recorded(r, type, old.order, j.id, LastOf(old))
    BY <1>1 DEF IInv, JobOk, MatchOk
<1>3. /\ event[r] # None /\ event[r].order = old.order /\ event[r].prev = LastOf(old)
      /\ event[r].type = type
  <2>1. LastOf(old) \in Requests /\ old.order \in Orders /\ j.id \in Requests
      BY <1>2, LastFits DEF DraftFits, LastOf, Invoice, RowIsOf
  <2>2. type \in EventTypes
      BY <1>2 DEF TypeOfInvoice, EventTypes, InvoiceEvents
  <2> HIDE DEF type
  <2> QED BY <1>2, <2>1, <2>2, NoneIsNoRow DEF Recorded, Event
<1>4. /\ EventsFit(Append(old.events, r), old.order)
      /\ Len(Append(old.events, r)) = Len(old.events) + 1
      /\ Append(old.events, r)[Len(old.events) + 1] = r
      /\ \A k \in 1..Len(old.events) : Append(old.events, r)[k] = old.events[k]
    BY <1>2, <1>3, AppendFits DEF DraftFits, LastOf
<1>5. /\ row \in Invoice /\ row.events = Append(old.events, r)
      /\ row.order = old.order /\ row.hash = old.hash /\ row.amount = old.amount
      /\ row.evidence = old.evidence /\ row.matched = old.matched
      /\ row.match = old.match /\ row.status = old.status
    BY <1>2, <1>4 DEF DraftFits, Invoice, EventsFit
<1> HIDE DEF row
<1>6. ApprovalsFollowMatches(row.events)
  <2>1. Len(old.events) \in Nat \ {0}
      BY <1>2, LastFits DEF DraftFits
  <2>2. SUFFICES ASSUME NEW k \in 2..Len(row.events),
                        event[row.events[k]].type = "invoicePaymentApproved"
                 PROVE  event[row.events[k - 1]].type = "invoiceMatchPassed"
      BY DEF ApprovalsFollowMatches
  <2>3. k - 1 \in 1..Len(old.events) /\ (k \in 2..Len(old.events) \/ k = Len(old.events) + 1)
      BY <1>4, <1>5, <2>1
  <2>4. CASE k \in 2..Len(old.events)
    <3>1. k \in 1..Len(old.events)
        BY <2>1, <2>4
    <3>2. row.events[k] = old.events[k] /\ row.events[k - 1] = old.events[k - 1]
        BY <1>4, <1>5, <2>3, <3>1
    <3> QED BY <1>2, <2>2, <2>4, <3>2 DEF DraftFits, ApprovalsFollowMatches
  <2>5. CASE k = Len(old.events) + 1
    <3>1. row.events[k] = r /\ row.events[k - 1] = old.events[Len(old.events)]
        BY <1>4, <1>5, <2>1, <2>3, <2>5
    <3>2. old.status = "paymentApproved"
        BY <1>2, <1>3, <2>2, <3>1 DEF TypeOfInvoice
    <3> QED BY <1>2, <3>1, <3>2 DEF LastOf
  <2> QED BY <2>3, <2>4, <2>5
<1>7. InvoiceFits(row)
  <2>1. Accepted(row.order) /\ EventsFit(row.events, row.order)
      BY <1>2, <1>4, <1>5 DEF DraftFits
  <2>2. Backed(row)
      BY <1>2, <1>5 DEF DraftFits, Backed
  <2>3. event[LastOf(row)].type = TypeOfInvoice(row.status)
      BY <1>3, <1>4, <1>5 DEF LastOf
  <2> QED BY <1>5, <1>6, <2>1, <2>2, <2>3 DEF InvoiceFits, DraftFits
<1>8. RowIsOf(row, j.id) /\ j.id \in Requests
    BY <1>2, <1>5 DEF RowIsOf
<1>9. /\ Grows /\ \A q \in Requests \ {r} : OwnKept(q)
      /\ RowsAreTyped' /\ EventsContinue' /\ RowsFit' /\ EntriesAreUnique'
    BY <1>1, <1>7, <1>8, InvoiceKeeps
<1> QED BY <1>1, <1>9, EndOk, StepKeeps

-----------------------------------------------------------------------------
(* POST /procurement-cases/:caseId/closeout                                *)

LEMMA CloseCaseKeeps ==
    ASSUME IInv, NEW r \in Requests, NEW c \in Cases, NEW o, CloseCase(r, c, o)
    PROVE  IInv'
<1> DEFINE j == [ case |-> c, order |-> o, evidence |-> {}, invoices |-> {} ]
<1>1. o \in Orders /\ order[o].status = "accepted"
    BY DEF CloseCase, OrdersOf
<1>2. j \in CloseoutJob /\ j.order = o
    BY <1>1 DEF CloseoutJob
<1>3. Accepted(o)
    BY <1>1, AcceptedOrder
<1> HIDE DEF j
<1>4. JobOk(r, "listEvidence", j)
    BY <1>2, <1>3 DEF JobOk, EventIsDue, AcknowledgementOk, EvidenceOk,
       SubmissionOk, MatchOk, CloseoutOk
<1> QED BY <1>4, ReadKeeps DEF CloseCase, Await, j

\* A handler that lists rows counts no more of them than there are.
LEMMA ImageIsNoLarger ==
    ASSUME NEW S, IsFiniteSet(S), NEW f, DOMAIN f = S
    PROVE  LET T == {f[x] : x \in S} IN IsFiniteSet(T) /\ Cardinality(T) <= Cardinality(S)
<1> DEFINE T == {f[x] : x \in S}
           g == [x \in S |-> f[x]]
<1>1. g \in Surjection(S, T)
    BY DEF Surjection
<1> QED BY <1>1, FS_Surjection

LEMMA ListEvidenceKeeps ==
    ASSUME IInv, NEW r \in Requests, ListEvidence(r)
    PROVE  IInv'
<1> DEFINE records == EvidenceOf(job[r].order)
           f == [e \in records |-> [ id |-> e, proof |-> evidence[e].event # None ]]
           read == {[ id |-> e, proof |-> evidence[e].event # None ] : e \in records}
           j == [job[r] EXCEPT !.evidence = read]
<1>1. job[r] \in CloseoutJob /\ Accepted(job[r].order)
    BY DEF ListEvidence, IInv, JobOk, CloseoutOk
<1>2. CASE records = {}
    BY <1>2, EndKeeps DEF ListEvidence
<1>3. CASE records # {}
  <2>1. read \in SUBSET EvidenceRead /\ read # {}
    <3>1. ASSUME NEW e \in records
          PROVE  [ id |-> e, proof |-> evidence[e].event # None ] \in EvidenceRead
      <4> DEFINE p == evidence[e].event # None
      <4>1. e \in Requests /\ p \in BOOLEAN
          BY <3>1 DEF EvidenceOf
      <4> HIDE DEF p
      <4>2. [ id |-> e, proof |-> p ] \in EvidenceRead
          BY <4>1 DEF EvidenceRead
      <4> QED BY <4>2 DEF p
    <3> HIDE DEF records
    <3> QED BY <1>3, <3>1
  <2>2. IsFiniteSet(read) /\ Cardinality(read) <= Cardinality(records)
    <3>1. IsFiniteSet(records)
        BY RequestsAreFinite DEF EvidenceOf
    <3>2. DOMAIN f = records /\ read = {f[e] : e \in records}
        OBVIOUS
    <3> HIDE DEF f, read, records
    <3> QED BY <3>1, <3>2, ImageIsNoLarger
  <2>3. /\ pc' = [pc EXCEPT ![r] = "listInvoices"] /\ job' = [job EXCEPT ![r] = j]
        /\ UNCHANGED fulfilmentVars
      BY <1>3 DEF ListEvidence, Await
  <2> HIDE DEF read
  <2>4. j \in CloseoutJob /\ j.order = job[r].order /\ j.evidence = read
      BY <1>1, <2>1 DEF CloseoutJob
  <2> HIDE DEF j
  <2>5. JobOk(r, "listInvoices", j)
      BY <1>1, <2>1, <2>2, <2>4 DEF EvidenceCounted, JobOk, EventIsDue, AcknowledgementOk,
         EvidenceOk, SubmissionOk, MatchOk, CloseoutOk
  <2> QED BY <2>3, <2>5, ReadKeeps
<1> QED BY <1>2, <1>3

LEMMA ListInvoicesKeeps ==
    ASSUME IInv, NEW r \in Requests, ListInvoices(r)
    PROVE  IInv'
<1> DEFINE records == InvoicesOf(job[r].order)
           f == [i \in records |-> [ id |-> i, exception |-> invoice[i].match = "failed" ]]
           read == {[ id |-> i, exception |-> invoice[i].match = "failed" ] : i \in records}
           j == [job[r] EXCEPT !.invoices = read]
<1>1. job[r] \in CloseoutJob /\ Accepted(job[r].order) /\ EvidenceCounted(job[r])
    BY DEF ListInvoices, IInv, JobOk, CloseoutOk
<1>2. read \in SUBSET InvoiceRead
  <2>1. ASSUME NEW i \in records
        PROVE  [ id |-> i, exception |-> invoice[i].match = "failed" ] \in InvoiceRead
    <3> DEFINE p == invoice[i].match = "failed"
    <3>1. i \in Requests /\ p \in BOOLEAN
        BY <2>1 DEF InvoicesOf
    <3> HIDE DEF p
    <3>2. [ id |-> i, exception |-> p ] \in InvoiceRead
        BY <3>1 DEF InvoiceRead
    <3> QED BY <3>2 DEF p
  <2> HIDE DEF records
  <2> QED BY <2>1
<1>3. IsFiniteSet(read) /\ Cardinality(read) <= Cardinality(records)
  <2>1. IsFiniteSet(records)
      BY RequestsAreFinite DEF InvoicesOf
  <2>2. DOMAIN f = records /\ read = {f[i] : i \in records}
      OBVIOUS
  <2> HIDE DEF f, read, records
  <2> QED BY <2>1, <2>2, ImageIsNoLarger
<1>4. /\ pc' = [pc EXCEPT ![r] = "listCloseouts"] /\ job' = [job EXCEPT ![r] = j]
      /\ UNCHANGED fulfilmentVars
    BY DEF ListInvoices, Await
<1> HIDE DEF read
<1>5. /\ j \in CloseoutJob /\ j.order = job[r].order /\ j.invoices = read
      /\ j.evidence = job[r].evidence
    BY <1>1, <1>2 DEF CloseoutJob
<1> HIDE DEF j
<1>6. JobOk(r, "listCloseouts", j)
    BY <1>1, <1>3, <1>5 DEF EvidenceCounted, InvoicesCounted, JobOk, EventIsDue,
       AcknowledgementOk, EvidenceOk, SubmissionOk, MatchOk, CloseoutOk
<1> QED BY <1>4, <1>6, ReadKeeps

LEMMA MetricsOfFit ==
    ASSUME NEW j \in CloseoutJob, EvidenceCounted(j), InvoicesCounted(j), NEW n \in Nat
    PROVE  MetricsOf(j, n) \in Metrics /\ MetricsFit(MetricsOf(j, n), j.order)
<1> DEFINE read == Cardinality(j.evidence)
           proofs == Cardinality({e \in j.evidence : e.proof})
           listed == Cardinality(j.invoices)
           exceptions == Cardinality({i \in j.invoices : i.exception})
           coverage == Rounded(100 * proofs, read)
           score == Score(read, exceptions, coverage, n)
<1>1. /\ read \in Nat \ {0} /\ proofs \in Nat /\ proofs <= read
      /\ read <= Cardinality(EvidenceOf(j.order))
    BY FS_CardinalityType, FS_EmptySet, FS_Subset DEF EvidenceCounted
<1>2. /\ listed \in Nat /\ exceptions \in Nat /\ exceptions <= listed
      /\ listed <= Cardinality(InvoicesOf(j.order))
    BY FS_CardinalityType, FS_Subset DEF InvoicesCounted
<1>3. Cardinality(EvidenceOf(j.order)) \in Nat
    BY RequestsAreFinite DEF EvidenceOf
<1> HIDE DEF read, proofs, listed, exceptions
<1>4. coverage \in 0..100
    BY <1>1, CoverageIsPercentage
<1> HIDE DEF coverage
<1>5. score \in 0..100
    BY <1>1, <1>2, <1>4, ScoreOnScale
<1> HIDE DEF score
<1>6. MetricsOf(j, n) =
          [ evidence |-> read, invoices |-> listed, exceptions |-> exceptions,
            coverage |-> coverage, closeouts |-> n, score |-> score ]
    BY DEF MetricsOf, read, proofs, listed, exceptions, coverage, score
<1> QED BY <1>1, <1>2, <1>3, <1>4, <1>5, <1>6 DEF Metrics, MetricsFit

LEMMA ListCloseoutsKeeps ==
    ASSUME IInv, NEW r \in Requests, ListCloseouts(r)
    PROVE  IInv'
<1> DEFINE old == job[r]
           n == Cardinality(CloseoutsOf(Terms[old.order].supplier))
           j == [ case |-> old.case, order |-> old.order, metrics |-> MetricsOf(old, n) ]
<1>1. /\ old \in CloseoutJob /\ Accepted(old.order)
      /\ EvidenceCounted(old) /\ InvoicesCounted(old)
    BY DEF ListCloseouts, IInv, JobOk, CloseoutOk
<1>2. n \in Nat
    BY RequestsAreFinite DEF CloseoutsOf
<1>3. EvidenceOf(old.order) # {}
  <2>1. Cardinality(old.evidence) \in Nat \ {0}
      BY <1>1, FS_CardinalityType, FS_EmptySet DEF EvidenceCounted
  <2>2. Cardinality(old.evidence) <= Cardinality(EvidenceOf(old.order))
      BY <1>1 DEF EvidenceCounted
  <2> QED BY <2>1, <2>2, FS_EmptySet
<1>4. /\ pc' = [pc EXCEPT ![r] = "insertCloseout"] /\ job' = [job EXCEPT ![r] = j]
      /\ UNCHANGED fulfilmentVars
    BY DEF ListCloseouts, Await
<1> HIDE DEF n
<1>5. MetricsOf(old, n) \in Metrics /\ MetricsFit(MetricsOf(old, n), old.order)
    BY <1>1, <1>2, MetricsOfFit
<1>6. j \in Closeout /\ j.order = old.order /\ j.metrics = MetricsOf(old, n)
    BY <1>1, <1>5 DEF Closeout, CloseoutJob
<1> HIDE DEF j
<1>7. JobOk(r, "insertCloseout", j)
    BY <1>1, <1>3, <1>5, <1>6 DEF JobOk, EventIsDue, AcknowledgementOk, EvidenceOk,
       SubmissionOk, MatchOk, CloseoutOk
<1> QED BY <1>4, <1>7, ReadKeeps

LEMMA InsertCloseoutKeeps ==
    ASSUME IInv, NEW r \in Requests, InsertCloseout(r)
    PROVE  IInv'
<1> PICK j : j = job[r]
    OBVIOUS
<1>1. CASE CaseConstraintAdmits(j.case)
  <2>1. /\ pc[r] = "insertCloseout" /\ closeout' = [closeout EXCEPT ![r] = j]
        /\ pc' = [pc EXCEPT ![r] = "done"] /\ job' = [job EXCEPT ![r] = None]
        /\ UNCHANGED <<order, evidence, invoice, event>>
      BY <1>1 DEF InsertCloseout, Answer
  <2>2. /\ j \in Closeout /\ Accepted(j.order) /\ EvidenceOf(j.order) # {}
        /\ MetricsFit(j.metrics, j.order)
      BY <2>1 DEF IInv, JobOk, CloseoutOk
  <2>3. /\ closeout'[r] = j /\ \A q \in Requests \ {r} : closeout'[q] = closeout[q]
        /\ j.metrics \in Metrics
      BY <2>1, <2>2 DEF IInv, RowsAreTyped, Closeout
  <2>4. Grows /\ \A q \in Requests \ {r} : OwnKept(q)
      BY <2>1 DEF Grows, OwnKept
  <2>5. RowsAreTyped' /\ EventsContinue'
      BY <2>1, <2>2 DEF IInv, RowsAreTyped, EventsContinue
  <2>6. EntriesAreUnique'
      BY <1>1, <2>1, <2>3 DEF CaseConstraintAdmits, IInv, EntriesAreUnique
  <2>7. Accepted(j.order)' /\ EvidenceOf(j.order)' # {} /\ MetricsFit(j.metrics, j.order)'
      BY <2>2, <2>3, <2>4, AcceptedStays, EvidenceOfGrows, MetricsFitStays
  <2>8. ASSUME NEW c \in Requests, closeout'[c] # closeout[c]
        PROVE  /\ Accepted(closeout[c].order)' /\ EvidenceOf(closeout[c].order)' # {}
               /\ MetricsFit(closeout[c].metrics, closeout[c].order)'
    <3>1. closeout'[c] = j
        BY <2>3, <2>8
    <3> QED BY <2>7, <3>1
  <2>9. RowsFit'
      BY <2>1, <2>4, <2>8, RowsFitStay
  <2> QED BY <2>1, <2>4, <2>5, <2>6, <2>9, EndOk, StepKeeps
<1>2. CASE ~CaseConstraintAdmits(j.case)
    BY <1>2, EndKeeps DEF InsertCloseout, fulfilmentVars
<1> QED BY <1>1, <1>2

-----------------------------------------------------------------------------
(* Faults, the seeded rows, and the theorems.                              *)

LEMMA CrashKeeps ==
    ASSUME IInv, Crash, UNCHANGED fulfilmentVars
    PROVE  IInv'
<1>1. ASSUME NEW q \in Requests PROVE JobOk(q, pc[q], job[q])'
  <2>1. CASE InFlight(q)
    <3>1. pc'[q] = "failed"
        BY <2>1 DEF Crash
    <3> QED BY <3>1, EndOk
  <2>2. CASE ~InFlight(q)
    <3>1. pc'[q] = pc[q] /\ pc[q] \in {"idle", "done", "refused", "failed"}
        BY <2>2 DEF Crash, InFlight
    <3>2. JobOk(q, pc[q], job[q])
        BY DEF IInv
    <3>3. ASSUME NEW j PROVE JobOk(q, pc[q], j)
        BY <3>1, <3>2 DEF JobOk, EventIsDue, AcknowledgementOk, EvidenceOk, SubmissionOk,
           MatchOk, CloseoutOk
    <3> QED BY <3>1, <3>3, NothingWritten, JobOkStays
  <2> QED BY <2>1, <2>2
<1>2. pc' = [q \in Requests |-> pc'[q]] /\ job' = [q \in Requests |-> job'[q]]
    BY DEF Crash
<1> QED BY <1>1, <1>2, NothingWritten DEF IInv

LEMMA NextKeeps == IInv /\ [Next]_vars => IInv'
<1> SUFFICES ASSUME IInv, [Next]_vars PROVE IInv'
    OBVIOUS
<1>1. ASSUME NEW r \in Requests, FulfilmentStep(r) PROVE IInv'
  <2>1. ASSUME NEW o \in Orders, NEW d \in {"accepted", "rejected"}, Acknowledge(r, o, d)
        PROVE  IInv'
      BY <2>1, AcknowledgeKeeps
  <2>2. ASSUME NEW o \in Orders, SubmitEvidence(r, o) PROVE IInv'
      BY <2>2, SubmitEvidenceKeeps
  <2>3. ASSUME NEW o \in Orders, NEW e \in {q \in Requests : evidence[q] # None} \union {None},
               NEW amount \in Amounts, NEW hash \in Hashes \union {r},
               SubmitInvoice(r, o, e, amount, hash)
        PROVE  IInv'
      BY <2>3, SubmitInvoiceKeeps
  <2>4. ASSUME NEW o \in Orders, NEW c \in Cases, CloseCase(r, c, o) PROVE IInv'
      BY <2>4, CloseCaseKeeps
  <2>5. ASSUME NEW i \in Requests, VerifyMatch(r, i) \/ ApprovePayment(r, i) PROVE IInv'
      BY <2>5, VerifyMatchKeeps, ApprovePaymentKeeps
  <2> QED BY <1>1, <2>1, <2>2, <2>3, <2>4, <2>5, RecordAcknowledgementKeeps, SaveOrderKeeps,
             SaveBaseEvidenceKeeps, ListEventsKeeps, RecordEvidenceKeeps, AnchorEvidenceKeeps,
             SaveFinalEvidenceKeeps, SubmissionReadKeeps, RecordInvoiceKeeps,
             InsertInvoiceKeeps, ReadMatchedOrderKeeps, ListMatchedEvidenceKeeps,
             RecordDecisionKeeps, SaveInvoiceKeeps, ListEvidenceKeeps, ListInvoicesKeeps,
             ListCloseoutsKeeps, InsertCloseoutKeeps
          DEF FulfilmentStep
<1>2. ASSUME NEW r \in Requests, QueryFails(r), UNCHANGED fulfilmentVars PROVE IInv'
    BY <1>2, EndKeeps DEF QueryFails
<1>3. CASE UNCHANGED vars
  <2>1. UNCHANGED <<pc, job>> /\ UNCHANGED fulfilmentVars
      BY <1>3 DEF vars, handling
  <2>2. ASSUME NEW q \in Requests PROVE JobOk(q, pc[q], job[q])'
      BY <2>1, NothingWritten, JobOkStays DEF IInv
  <2> QED BY <2>1, <2>2, NothingWritten DEF IInv
<1> QED BY <1>1, <1>2, <1>3, CrashKeeps DEF Next

\* What the seed script leaves behind fits.
LEMMA SeedsFit ==
    ASSUME FulfilmentInit, NEW r \in 1..Seeded
    PROVE  LET e == SeededEvents[r]
           IN  /\ event[r] \in Event /\ event[r].type = e.type /\ event[r].order = e.order
               /\ e.type \in Acknowledgements => event[r].prev = e.order
               /\ e.type \in {"purchaseOrderCreated", "invoiceIssued"} => event[r].prev = None
               /\ e.type = "deliveryEvidenceSubmitted" =>
                      event[r].prev \in SeededOrderEvents(e.order)
<1> DEFINE e == SeededEvents[r]
           earlier == {q \in SeededOrderEvents(e.order) : q < r}
<1>1. /\ r \in Requests /\ Seeded \in Nat /\ ~(r > Seeded)
      /\ 1..Seeded \subseteq Requests /\ Requests \subseteq Nat
    BY HandlingAssumption DEF Requests
<1>2. /\ e.type \in EventTypes /\ e.order \in Orders /\ e.order \in 1..Seeded
    BY FulfilmentAssumption DEF Orders
<1>3. event[r] = [ type |-> e.type, order |-> e.order,
                   target |-> IF e.type \in OrderEvents THEN e.order ELSE r,
                   prev |-> IF e.type = "invoiceIssued" \/ earlier = {} THEN None
                            ELSE Max(earlier) ]
    BY <1>1 DEF FulfilmentInit
<1>4. earlier \in SUBSET Requests
    BY <1>1 DEF SeededOrderEvents
<1>5. earlier # {} => Max(earlier) \in earlier
    BY <1>4, MaxIsMember
<1>6. SeededEvents[e.order].type = "purchaseOrderCreated" /\ SeededEvents[e.order].order = e.order
    BY <1>2, FulfilmentAssumption DEF Orders
<1>7. e.type \notin {"purchaseOrderCreated", "invoiceIssued"} => e.order \in earlier
    BY <1>1, <1>2, <1>6, FulfilmentAssumption DEF SeededOrderEvents, OrderEvents
<1>8. e.type \in Acknowledgements => \A q \in earlier : q = e.order
  <2>1. SUFFICES ASSUME e.type \in Acknowledgements, NEW q \in earlier PROVE q = e.order
      OBVIOUS
  <2>2. /\ q \in 1..Seeded /\ q < r /\ SeededEvents[q].order = e.order
        /\ SeededEvents[q].type \in OrderEvents
      BY DEF SeededOrderEvents
  <2>3. SeededEvents[q].type \notin Acknowledgements
    <3>1. SUFFICES ASSUME SeededEvents[q].type \in Acknowledgements PROVE FALSE
        OBVIOUS
    <3>2. {SeededEvents[q].type, SeededEvents[r].type} \subseteq Acknowledgements
        BY <2>1, <3>1
    <3>3. q = r
        BY <2>2, <3>2, FulfilmentAssumption
    <3> QED BY <1>1, <2>2, <3>3
  <2>4. q \in Orders
      BY <2>2, <2>3 DEF OrderEvents, Orders
  <2> QED BY <2>2, <2>4, FulfilmentAssumption
<1>9. e.type = "purchaseOrderCreated" => earlier = {}
  <2>1. SUFFICES ASSUME e.type = "purchaseOrderCreated", NEW q \in earlier PROVE FALSE
      OBVIOUS
  <2>2. /\ q \in 1..Seeded /\ q < r /\ SeededEvents[q].order = e.order
      BY DEF SeededOrderEvents
  <2>3. r \in Orders /\ e.order = r
      BY <2>1, FulfilmentAssumption DEF Orders
  <2>4. CASE SeededEvents[q].type = "purchaseOrderCreated"
    <3>1. q \in Orders
        BY <2>2, <2>4 DEF Orders
    <3>2. SeededEvents[q].order = q
        BY <3>1, FulfilmentAssumption
    <3> QED BY <1>1, <2>2, <2>3, <3>2
  <2>5. CASE SeededEvents[q].type # "purchaseOrderCreated"
    <3>1. SeededEvents[q].order < q
        BY <2>2, <2>5, FulfilmentAssumption
    <3> QED BY <1>1, <2>2, <2>3, <3>1
  <2> QED BY <2>4, <2>5
<1>10. Max(earlier) \in Requests \/ earlier = {}
    BY <1>4, <1>5
<1>11. e.order \in Requests
    BY <1>1, <1>2
<1>12. e.type = "purchaseOrderCreated" \/ e.type = "invoiceIssued" \/ e.type \in Acknowledgements
           \/ e.type = "deliveryEvidenceSubmitted"
    BY <1>2, FulfilmentAssumption DEF EventTypes, OrderEvents, InvoiceEvents
<1>13. earlier # {} => Max(earlier) \in SeededOrderEvents(e.order)
    BY <1>5
<1> HIDE DEF earlier, e
<1>14. event[r] \in Event /\ event[r].type = e.type /\ event[r].order = e.order
    BY <1>1, <1>2, <1>3, <1>10, <1>11 DEF Event
<1>15. e.type \in Acknowledgements => event[r].prev = e.order
  <2>1. SUFFICES ASSUME e.type \in Acknowledgements PROVE event[r].prev = e.order
      OBVIOUS
  <2>2. earlier # {} /\ e.type # "invoiceIssued" /\ Max(earlier) = e.order
      BY <1>5, <1>7, <1>8, <2>1 DEF Acknowledgements
  <2> QED BY <1>3, <2>2
<1>16. e.type \in {"purchaseOrderCreated", "invoiceIssued"} => event[r].prev = None
    BY <1>3, <1>9
<1>17. e.type = "deliveryEvidenceSubmitted" => event[r].prev \in SeededOrderEvents(e.order)
    BY <1>3, <1>7, <1>13
<1> QED BY <1>14, <1>15, <1>16, <1>17 DEF e

LEMMA SeededAcceptance ==
    ASSUME FulfilmentInit, NEW r \in 1..Seeded, SeededEvents[r].type \notin OrderEvents
    PROVE  Accepted(SeededEvents[r].order)
<1>1. PICK q \in 1..(r - 1) : SeededEvents[q] =
          [ type |-> "purchaseOrderAccepted", order |-> SeededEvents[r].order ]
    BY FulfilmentAssumption
<1>2. q \in 1..Seeded /\ q \in Requests
    BY <1>1, HandlingAssumption DEF Requests
<1> QED BY <1>1, <1>2, SeedsFit, NoneIsNoRow DEF Accepted

LEMMA SeededOrderFits ==
    ASSUME FulfilmentInit, NEW o \in Orders
    PROVE  OrderFits(o, order[o])
<1> DEFINE acks == SeededOrderEvents(o) \ {o}
           ack == CHOOSE r \in acks : TRUE
<1>1. /\ o \in 1..Seeded /\ SeededEvents[o].order = o
      /\ SeededEvents[o].type = "purchaseOrderCreated"
    BY FulfilmentAssumption DEF Orders
<1>2. o \in Requests /\ 1..Seeded \subseteq Requests
    BY <1>1, HandlingAssumption DEF Requests
<1>3. /\ event[o] # None /\ event[o].order = o /\ event[o].prev = None
      /\ event[o].type = "purchaseOrderCreated"
    BY <1>1, SeedsFit, NoneIsNoRow
<1>4. CASE acks = {}
  <2>1. order[o] = [ status |-> "created", events |-> <<o>> ]
      BY <1>4 DEF FulfilmentInit
  <2>2. <<o>> \in Seq(Requests) /\ <<o>> # <<>> /\ Len(<<o>>) = 1 /\ <<o>>[1] = o
        /\ 2..1 = {} /\ 1..1 = {1}
      BY <1>2
  <2> QED BY <1>3, <2>1, <2>2
          DEF OrderFits, Order, EventsFit, Chained, LastOf, TypeOfOrder
<1>5. CASE acks # {}
  <2>1. ack \in acks
      BY <1>5
  <2>2. order[o] = [ status |-> IF SeededEvents[ack].type = "purchaseOrderAccepted"
                                THEN "accepted" ELSE "rejected",
                     events |-> <<o, ack>> ]
      BY <1>5 DEF FulfilmentInit
  <2>3. /\ ack \in 1..Seeded /\ SeededEvents[ack].order = o /\ ack # o
        /\ SeededEvents[ack].type \in OrderEvents
      BY <2>1 DEF SeededOrderEvents
  <2> HIDE DEF ack
  <2>4. SeededEvents[ack].type # "purchaseOrderCreated"
      BY <2>3, FulfilmentAssumption DEF Orders
  <2>5. SeededEvents[ack].type \in Acknowledgements
      BY <2>3, <2>4 DEF OrderEvents
  <2>6. /\ event[ack] # None /\ event[ack].order = o /\ event[ack].prev = o
        /\ event[ack].type = SeededEvents[ack].type
      BY <2>3, <2>5, SeedsFit, NoneIsNoRow
  <2>7. /\ <<o, ack>> \in Seq(Requests) /\ <<o, ack>> # <<>> /\ Len(<<o, ack>>) = 2
        /\ <<o, ack>>[1] = o /\ <<o, ack>>[2] = ack /\ 2..2 = {2} /\ 1..2 = {1, 2} /\ 2 - 1 = 1
      BY <1>2, <2>3
  <2>8. EventsFit(<<o, ack>>, o)
      BY <1>3, <2>6, <2>7 DEF EventsFit, Chained
  <2>9. /\ order[o].status \in {"accepted", "rejected"} /\ order[o].events = <<o, ack>>
        /\ order[o] \in Order
        /\ event[ack].type = TypeOfOrder(order[o].status)
      BY <2>2, <2>5, <2>6, <2>7 DEF Order, TypeOfOrder, Acknowledgements
  <2> QED BY <2>7, <2>8, <2>9 DEF OrderFits, LastOf
<1> QED BY <1>4, <1>5

LEMMA SeededInvoiceFits ==
    ASSUME FulfilmentInit, RowsAreTyped, NEW i \in Requests, invoice[i] # None
    PROVE  InvoiceFits(invoice[i]) /\ invoice[i].hash = i
<1>1. i \in 1..Seeded /\ SeededEvents[i].type = "invoiceIssued"
    BY HandlingAssumption DEF FulfilmentInit, Requests
<1>2. /\ ~(i > Seeded)
      /\ invoice[i].order = SeededEvents[i].order /\ invoice[i].hash = i
      /\ invoice[i].status = "submitted" /\ invoice[i].match = "notChecked"
      /\ invoice[i].events = <<i>>
  <2>1. ~(i > Seeded)
      BY <1>1, HandlingAssumption
  <2> QED BY <1>1, <2>1 DEF FulfilmentInit
<1>3. event[i] # None /\ event[i].type = "invoiceIssued" /\ event[i].prev = None
      /\ event[i].order = invoice[i].order
    BY <1>1, <1>2, SeedsFit, NoneIsNoRow
<1>4. Accepted(invoice[i].order)
    BY <1>1, <1>2, SeededAcceptance DEF OrderEvents, Acknowledgements
<1>5. <<i>> \in Seq(Requests) /\ <<i>> # <<>> /\ Len(<<i>>) = 1 /\ <<i>>[1] = i
      /\ 2..1 = {} /\ 1..1 = {1}
    OBVIOUS
<1>6. EventsFit(<<i>>, invoice[i].order) /\ ApprovalsFollowMatches(<<i>>)
    BY <1>3, <1>5 DEF EventsFit, Chained, ApprovalsFollowMatches
<1> QED BY <1>2, <1>3, <1>4, <1>5, <1>6
        DEF RowsAreTyped, InvoiceFits, DraftFits, Backed, LastOf, TypeOfInvoice

LEMMA InitFits == Init => IInv
<1> SUFFICES ASSUME Init PROVE IInv
    OBVIOUS
<1> USE DEF Init
<1>1. 1..Seeded \subseteq Requests /\ Seeded \in Nat
      /\ \A r \in Requests : r \in 1..Seeded <=> ~(r > Seeded)
    BY HandlingAssumption DEF Requests
<1>2. \A r \in 1..Seeded : SeededEvents[r].order \in Orders /\ SeededEvents[r].type \in EventTypes
    BY FulfilmentAssumption
<1>3. RowsAreTyped
  <2>1. order \in [Orders -> Order]
      BY SeededOrderFits DEF OrderFits, FulfilmentInit
  <2>2. evidence \in [Requests -> Evidence \union {None}]
      BY <1>1, <1>2 DEF FulfilmentInit, Evidence
  <2>3. invoice \in [Requests -> Invoice \union {None}]
    <3>1. ASSUME NEW r \in Requests PROVE invoice[r] \in Invoice \union {None}
      <4>1. CASE r \in 1..Seeded /\ SeededEvents[r].type = "invoiceIssued"
        <5> DEFINE a == Numeric[Terms[SeededEvents[r].order].amount]
        <5>1. a \in DOMAIN Numeric /\ <<r>> \in Seq(Requests) /\ SeededEvents[r].order \in Orders
            BY <1>2, <4>1, FulfilmentAssumption
        <5>2. invoice[r] =
                  [ order |-> SeededEvents[r].order, evidence |-> None,
                    amount |-> a, hash |-> r,
                    status |-> "submitted", match |-> "notChecked", matched |-> None,
                    approvedBy |-> None, events |-> <<r>> ]
            BY <1>1, <4>1 DEF FulfilmentInit
        <5> HIDE DEF a
        <5> QED BY <5>1, <5>2 DEF Invoice
      <4>2. CASE ~(r \in 1..Seeded /\ SeededEvents[r].type = "invoiceIssued")
        <5>1. invoice[r] = None
            BY <1>1, <4>2 DEF FulfilmentInit
        <5> QED BY <5>1
      <4> QED BY <4>1, <4>2
    <3>2. invoice = [r \in Requests |-> invoice[r]]
        BY DEF FulfilmentInit
    <3> QED BY <3>1, <3>2
  <2>4. event \in [Requests -> Event \union {None}]
    <3>1. ASSUME NEW r \in Requests PROVE event[r] \in Event \union {None}
      <4>1. CASE r \in 1..Seeded
          BY <4>1, SeedsFit
      <4>2. CASE r \notin 1..Seeded
        <5>1. event[r] = None
            BY <1>1, <4>2 DEF FulfilmentInit
        <5> QED BY <5>1
      <4> QED BY <4>1, <4>2
    <3>2. event = [r \in Requests |-> event[r]]
        BY DEF FulfilmentInit
    <3> QED BY <3>1, <3>2
  <2>5. closeout \in [Requests -> Closeout \union {None}]
      BY DEF FulfilmentInit
  <2> QED BY <2>1, <2>2, <2>3, <2>4, <2>5 DEF RowsAreTyped
<1>4. EventsContinue
  <2>1. SUFFICES ASSUME NEW q \in Requests, event[q] # None, event[q].prev # None
                 PROVE  event[event[q].prev] # None /\ event[event[q].prev].order = event[q].order
      BY DEF EventsContinue
  <2>2. q \in 1..Seeded
      BY <1>1, <2>1 DEF FulfilmentInit
  <2> DEFINE o == SeededEvents[q].order
  <2>3. event[q].order = o /\ event[q].prev \in SeededOrderEvents(o)
    <3>1. o \in SeededOrderEvents(o)
        BY <1>2, <2>2, FulfilmentAssumption DEF Orders, SeededOrderEvents, OrderEvents
    <3>2. SeededEvents[q].type \in Acknowledgements \union {"deliveryEvidenceSubmitted"}
        BY <2>1, <2>2, SeedsFit, FulfilmentAssumption, <1>2
           DEF EventTypes, OrderEvents, InvoiceEvents
    <3> QED BY <2>2, <3>1, <3>2, SeedsFit
  <2>4. event[q].prev \in 1..Seeded /\ SeededEvents[event[q].prev].order = o
      BY <2>3 DEF SeededOrderEvents
  <2> QED BY <2>3, <2>4, SeedsFit, NoneIsNoRow
<1>5. \A c \in Requests : closeout[c] = None
    BY DEF FulfilmentInit
<1>6. RowsFit
  <2>1. ASSUME NEW e \in Requests, evidence[e] # None PROVE Accepted(evidence[e].order)
    <3>1. e \in 1..Seeded /\ SeededEvents[e].type = "deliveryEvidenceSubmitted"
        BY <1>1, <2>1 DEF FulfilmentInit
    <3>2. evidence[e].order = SeededEvents[e].order
        BY <1>1, <3>1 DEF FulfilmentInit
    <3> QED BY <3>1, <3>2, SeededAcceptance DEF OrderEvents, Acknowledgements
  <2> QED BY <1>3, <1>5, <2>1, SeededOrderFits, SeededInvoiceFits DEF RowsFit
<1>7. EntriesAreUnique
    BY <1>3, <1>5, SeededInvoiceFits DEF EntriesAreUnique
<1>8. /\ pc = [r \in Requests |-> pc[r]] /\ job = [r \in Requests |-> job[r]]
    BY DEF HandlingInit
<1>9. ASSUME NEW r \in Requests PROVE JobOk(r, pc[r], job[r])
  <2>1. CASE r \in 1..Seeded
      BY <1>1, <2>1, EndOk DEF HandlingInit
  <2>2. CASE r \notin 1..Seeded
    <3>1. event[r] = None /\ evidence[r] = None /\ invoice[r] = None
        BY <1>1, <2>2 DEF FulfilmentInit
    <3>2. ~(r <= Seeded)
        BY <2>2, HandlingAssumption DEF Requests
    <3>3. pc[r] = "idle"
        BY <3>2 DEF HandlingInit
    <3> QED BY <3>1, <3>3 DEF JobOk, EventIsDue, AcknowledgementOk, EvidenceOk, SubmissionOk,
            MatchOk, CloseoutOk
  <2> QED BY <2>1, <2>2
<1> QED BY <1>3, <1>4, <1>6, <1>7, <1>8, <1>9 DEF IInv

\* The rows fit each other and the trail, and every handler's local variables
\* fit what it has read, whatever the others have written since.
THEOREM InvariantHolds == Spec => []IInv
BY InitFits, NextKeeps, PTL DEF Spec

\* No overlap of matches, approvals and failures leaves an invoice that passed
\* its match with another amount than its order's, without the evidence it
\* names, or with a status its match result contradicts.
THEOREM MatchesAreBacked == Spec => []MatchIsBacked
<1>1. IInv => MatchIsBacked
    BY DEF IInv, RowsFit, InvoiceFits, DraftFits, Backed, MatchIsBacked
<1> QED BY <1>1, InvariantHolds, PTL

\* Though overlapping handlers fork the trail, what an order or an invoice
\* lists is one chain of recorded events that ends at the row's status.
THEOREM RowsAreTold == Spec => []RowsTellTheirTrail
<1>1. IInv => RowsTellTheirTrail
    BY DEF IInv, EventsContinue, RowsFit, OrderFits, InvoiceFits, DraftFits, EventsFit,
       ApprovalsFollowMatches, TypeOfOrder, TypeOfInvoice, RowsTellTheirTrail
<1> QED BY <1>1, InvariantHolds, PTL

\* No evidence, invoice or closeout comes before the recorded acceptance of
\* its order, and no closeout without evidence.
THEOREM AcceptanceComesFirst == Spec => []FulfilmentFollowsAcceptance
<1>1. IInv => FulfilmentFollowsAcceptance
    BY DEF IInv, RowsFit, InvoiceFits, DraftFits, Accepted, FulfilmentFollowsAcceptance
<1> QED BY <1>1, InvariantHolds, PTL

\* A hash and a case are entered once however requests race, and a closeout
\* counts no more than there is, on its scale.
THEOREM EntriesAreSingle == Spec => []NoDuplicates
<1>1. IInv => NoDuplicates
    BY DEF IInv, RowsFit, EntriesAreUnique, MetricsFit, NoDuplicates
<1> QED BY <1>1, InvariantHolds, PTL
=============================================================================
