----------------------------- MODULE Workspace -----------------------------
(***************************************************************************)
(* The company workspace: summaries computed from deals, orders, evidence  *)
(* and invoices, which are read by separate queries while the modules that *)
(* own them go on, and the tasks, views and exports of a company, which    *)
(* live in the process only, also on Postgres, and end with it.            *)
(*                                                                         *)
(* Amounts count as one per order.  The texts of the items are left out.   *)
(***************************************************************************)
EXTENDS RequestHandling

CONSTANTS
    Companies,
    DealOrders,         \* procurement orders
    PartiesOf,          \* the buyer, the supplier and who may finance each
    DealInvoices,       \* invoice identities
    WorkspaceActors,    \* who asks: [org, role]
    TasksAsked          \* tasks that are marked completed: [kind, of]

ASSUME WorkspaceAssumption ==
    /\ IsFiniteSet(DealInvoices)
    /\ None \notin DealInvoices
    /\ \A actor \in WorkspaceActors : actor.org \in Companies
    /\ PartiesOf \in [DealOrders -> [ buyer : Companies, supplier : Companies,
                                     financier : Companies \union {None} ]]

ViewRoles ==
    {"administrator", "organizationAdmin", "buyer", "supplier", "financier", "complianceReviewer",
     "auditor", "regulator", "securityOperator", "shariahReviewer"}

VARIABLES
    orderStatus,    \* procurement_orders
    proven,         \* orders with delivery evidence
    escrowed,       \* orders with an escrow
    invoiceOf,      \* procurement_invoices: [order, status], or None
    completed,      \* in memory: the tasks each company marked completed
    kept,           \* in memory: requests whose view or export is kept
    epoch,          \* which process it is
    shown           \* what the answer of each request was computed from, or None

facts == <<orderStatus, proven, escrowed, invoiceOf>>
workspaceVars == <<facts, completed, kept, epoch, shown>>

WorkspaceInit ==
    /\ orderStatus = [o \in DealOrders |-> "created"]
    /\ proven = {}
    /\ escrowed = {}
    /\ invoiceOf = [i \in DealInvoices |-> None]
    /\ completed = [c \in Companies |-> {}]
    /\ kept = {}
    /\ epoch = 0
    /\ shown = [r \in Requests |-> None]

-----------------------------------------------------------------------------
(* What an answer says, computed from a snapshot s of the reads.           *)

Exceptional(s) == {i \in DOMAIN s.invoices : s.invoices[i].status = "matchFailed"}

InvoicesFor(s, o) == {i \in DOMAIN s.invoices : s.invoices[i].order = o}

Matched(s, o) ==
    \E i \in InvoicesFor(s, o) : s.invoices[i].status \in {"matchPassed", "paymentApproved"}

Listed(s) == DOMAIN s.orders

Stage(reached) == IF reached THEN "complete" ELSE "pending"

BuildPipeline(s) ==
    [o \in DOMAIN s.deals |->
        [ accepted |-> Stage(s.deals[o] = "accepted"), evidence |-> Stage(o \in s.delivered),
          escrow |-> Stage(o \in s.escrows) ]]

BuildRecordPipeline(s) ==
    [o \in Listed(s) |->
        [ accepted |-> Stage(s.orders[o] = "accepted"),
          evidence |-> Stage(o \in s.evidence),
          verified |-> IF Matched(s, o) THEN "complete"
                       ELSE IF InvoicesFor(s, o) \intersect Exceptional(s) # {} THEN "blocked"
                       ELSE "pending" ]]

BuildMoneyTracker(s) ==
    [ committed |-> Cardinality(DOMAIN s.deals),
      delivered |-> Cardinality(s.delivered),
      outgoing |-> IF s.escrows # {} THEN "settlementInstructionReady" ELSE "notStarted",
      incoming |-> IF s.delivered # {} THEN "metadataReady" ELSE "pending" ]

\* Fault: a delivery hides a failed match.
BuildMoneyTrackerOptimistic(s) ==
    [ committed |-> Cardinality(Listed(s)),
      delivered |-> Cardinality(Listed(s) \intersect s.evidence),
      outgoing |-> BuildMoneyTracker(s).outgoing,
      incoming |-> IF Listed(s) \intersect s.evidence # {} THEN "metadataReady"
                   ELSE IF Exceptional(s) # {} THEN "failed" ELSE "pending" ]

BuildMoneyTrackerFromRecords(s) ==
    IF Listed(s) = {} THEN BuildMoneyTracker(s)
    ELSE [ committed |-> Cardinality(Listed(s)),
           delivered |-> Cardinality(Listed(s) \intersect s.evidence),
           outgoing |-> IF \E i \in DOMAIN s.invoices : s.invoices[i].status = "paymentApproved"
                        THEN "settlementInstructionReady" ELSE BuildMoneyTracker(s).outgoing,
           incoming |-> IF Exceptional(s) # {} THEN "failed"
                        ELSE IF DOMAIN s.invoices # {} THEN "metadataReady" ELSE "pending" ]

DealTask(kind, os) == {[ kind |-> kind, of |-> o ] : o \in os}

BuildActionInbox(s) ==
    LET tasks == DealTask("delivery-evidence", DOMAIN s.deals \ s.delivered)
                 \union DealTask("exception-or-review", s.raised)
    IN  IF tasks = {} THEN {[ kind |-> "company-ledger-export", of |-> None ]} ELSE tasks

\* Of the invoices that failed, one has its task.
AppendRecordDrivenTasks(s) ==
    BuildActionInbox(s)
    \union (IF Exceptional(s) = {} THEN {}
            ELSE {[ kind |-> "invoice-exception", of |-> CHOOSE i \in Exceptional(s) : TRUE ]})
    \union DealTask("invoice-needed",
                    {o \in Listed(s) : s.orders[o] = "accepted" /\ InvoicesFor(s, o) = {}})

BuildSupplierScorecardsFromRecords(s) ==
    [c \in {PartiesOf[o].supplier : o \in Listed(s)} |->
        [ deals |-> Cardinality({o \in Listed(s) : PartiesOf[o].supplier = c}),
          exceptions |-> Cardinality({i \in Exceptional(s) :
                             PartiesOf[s.invoices[i].order].supplier = c}) ]]

BuildEvidenceChecklistFromRecords(s) ==
    [o \in Listed(s) |->
        [ delivery |-> IF o \in s.evidence THEN "complete" ELSE "missing",
          invoice |-> IF Matched(s, o) THEN "complete"
                      ELSE IF InvoicesFor(s, o) # {} THEN "pending" ELSE "missing" ]]

-----------------------------------------------------------------------------
(* The requests.                                                           *)

Nothing == [ deals |-> << >>, delivered |-> {}, escrows |-> {}, raised |-> {}, done |-> {},
             epoch |-> 0, orders |-> << >>, evidence |-> {}, invoices |-> << >> ]

\* requireProductivityActor, up to the first query.
AskWorkspace(r, actor, what, task, step) ==
    /\ NextToArrive(r)
    /\ IF actor.role \in ViewRoles
       THEN Await(r, step, [ actor |-> actor, what |-> what, task |-> task, s |-> Nothing ])
       ELSE Answer(r, "refused")

\* The money tracker, the pipeline, the inbox, the scorecards and the checklist
\* are parts of the summary, which is computed for each of them.
GetSummary(r, actor) ==
    /\ AskWorkspace(r, actor, "summary", None, "listDeals")
    /\ UNCHANGED workspaceVars

\* Any task can be marked, before anything is read.
CompleteTask(r, actor, task) ==
    /\ AskWorkspace(r, actor, "task", task, "listDeals")
    /\ completed' = IF actor.role \in ViewRoles
                    THEN [completed EXCEPT ![actor.org] = @ \union {task}] ELSE completed
    /\ UNCHANGED <<facts, kept, epoch, shown>>

\* No query: the answer follows at once.
CreateSavedView(r, actor, named) ==
    /\ NextToArrive(r)
    /\ LET accepted == actor.role \in ViewRoles /\ named
       IN  /\ Answer(r, IF accepted THEN "done" ELSE "refused")
           /\ kept' = IF accepted THEN kept \union {r} ELSE kept
    /\ UNCHANGED <<facts, completed, epoch, shown>>

CreateCompanyLedgerExport(r, actor) ==
    /\ AskWorkspace(r, actor, "export", None, "listDeals")
    /\ UNCHANGED workspaceVars

ListNotifications(r, actor) ==
    /\ AskWorkspace(r, actor, "notifications", None, "listEmails")
    /\ UNCHANGED workspaceVars

ListEmails(r) ==
    /\ pc[r] = "listEmails"
    /\ Answer(r, "done")
    /\ UNCHANGED workspaceVars

TradedBy(org) == {o \in DealOrders : org \in {PartiesOf[o].buyer, PartiesOf[o].supplier}}

FinancedBy(org) == {o \in DealOrders : org = PartiesOf[o].financier}

\* One query over orders, evidence and escrows, of either party and of the one
\* who finances them.  Which contracts of financing there are, and what it finds
\* of them and of failed proofs to review, is a choice.  The completed tasks are
\* in memory.
ListCompanyDealProjections(r) ==
    /\ pc[r] = "listDeals"
    /\ LET org == job[r].actor.org
       IN  IF job[r].what = "export"
           THEN /\ kept' = kept \union {r}
                /\ Answer(r, "done")
           ELSE /\ \E financed \in SUBSET FinancedBy(org) :
                    LET mine == TradedBy(org) \union financed
                    IN  \E raised \in SUBSET mine :
                       Await(r, "listOrders",
                           [job[r] EXCEPT !.s =
                               [ Nothing EXCEPT !.deals = [o \in mine |-> orderStatus[o]],
                                                !.delivered = mine \intersect proven,
                                                !.escrows = mine \intersect escrowed,
                                                !.raised = raised, !.done = completed[org],
                                                !.epoch = epoch ]])
                /\ UNCHANGED kept
    /\ UNCHANGED <<facts, completed, epoch, shown>>

OrdersOf(actor) ==
    {o \in DealOrders :
        \/ actor.role = "buyer" /\ PartiesOf[o].buyer = actor.org
        \/ actor.role = "supplier" /\ PartiesOf[o].supplier = actor.org
        \/ actor.role \in {"administrator", "auditor", "regulator", "securityOperator"}}

ListOrders(r) ==
    /\ pc[r] = "listOrders"
    /\ Await(r, "listEvidence",
             [job[r] EXCEPT !.s.orders = [o \in OrdersOf(job[r].actor) |-> orderStatus[o]]])
    /\ UNCHANGED workspaceVars

\* A query for each order, at once.
ListEvidence(r) ==
    /\ pc[r] = "listEvidence"
    /\ Await(r, "listInvoices", [job[r] EXCEPT !.s.evidence = Listed(job[r].s) \intersect proven])
    /\ UNCHANGED workspaceVars

ListInvoices(r) ==
    /\ pc[r] = "listInvoices"
    /\ LET j == job[r]
           of == {i \in DealInvoices : invoiceOf[i] # None /\ invoiceOf[i].order \in Listed(j.s)}
       IN  shown' = [shown EXCEPT ![r] = [j EXCEPT !.s.invoices = [i \in of |-> invoiceOf[i]]]]
    /\ Answer(r, "done")
    /\ UNCHANGED <<facts, completed, kept, epoch>>

\* Nothing of the process is left after a crash.
RestartWorkspace ==
    /\ completed' = [c \in Companies |-> {}]
    /\ kept' = {}
    /\ epoch' = epoch + 1
    /\ UNCHANGED <<facts, shown>>

-----------------------------------------------------------------------------
(* The modules that own the records, as far as they are read here.         *)

Acknowledge(o, status) ==
    /\ orderStatus[o] = "created"
    /\ orderStatus' = [orderStatus EXCEPT ![o] = status]
    /\ UNCHANGED <<proven, escrowed, invoiceOf>>

ProveDelivery(o) ==
    /\ orderStatus[o] = "accepted"
    /\ o \notin proven
    /\ proven' = proven \union {o}
    /\ UNCHANGED <<orderStatus, escrowed, invoiceOf>>

OpenEscrow(o) ==
    /\ o \notin escrowed
    /\ escrowed' = escrowed \union {o}
    /\ UNCHANGED <<orderStatus, proven, invoiceOf>>

WriteInvoice(i, o, status) ==
    /\ orderStatus[o] = "accepted"
    /\ IF invoiceOf[i] = None THEN status = "submitted"
       ELSE /\ invoiceOf[i].order = o
            /\ status # "submitted"
            /\ status = "paymentApproved" => invoiceOf[i].status = "matchPassed"
    /\ invoiceOf' = [invoiceOf EXCEPT ![i] = [ order |-> o, status |-> status ]]
    /\ UNCHANGED <<orderStatus, proven, escrowed>>

OthersWrite ==
    /\ \E o \in DealOrders :
        \/ \E status \in {"accepted", "rejected"} : Acknowledge(o, status)
        \/ ProveDelivery(o)
        \/ OpenEscrow(o)
        \/ \E i \in DealInvoices,
              status \in {"submitted", "matchPassed", "matchFailed", "paymentApproved"} :
                  WriteInvoice(i, o, status)
    /\ UNCHANGED <<handling, completed, kept, epoch, shown>>

WorkspaceStep(r) ==
    \/ \E actor \in WorkspaceActors :
        \/ GetSummary(r, actor)
        \/ \E task \in TasksAsked : CompleteTask(r, actor, task)
        \/ \E named \in BOOLEAN : CreateSavedView(r, actor, named)
        \/ CreateCompanyLedgerExport(r, actor)
        \/ ListNotifications(r, actor)
    \/ ListEmails(r)
    \/ ListCompanyDealProjections(r)
    \/ ListOrders(r)
    \/ ListEvidence(r)
    \/ ListInvoices(r)

\* The process ends, with or without requests in flight.
WorkspaceNext ==
    \/ \E r \in Requests :
        \/ WorkspaceStep(r)
        \/ QueryFails(r) /\ UNCHANGED workspaceVars
    \/ Crash /\ RestartWorkspace
    \/ ~(\E r \in Requests : InFlight(r)) /\ RestartWorkspace /\ UNCHANGED handling
    \/ OthersWrite

workspaceState == <<handling, workspaceVars>>

WorkspaceSpec == HandlingInit /\ WorkspaceInit /\ [][WorkspaceNext]_workspaceState

-----------------------------------------------------------------------------
(* Properties                                                              *)

\* Though a summary mixes what four queries found at four moments: no record it
\* shows falls behind the deals it shows, and none of what it shows as done is
\* undone later; of a failed match the money, a task and a scorecard tell alike,
\* and an order is to be invoiced only where its checklist misses the invoice.
\* A task answered as completed is completed in every summary asked for later,
\* until the process ends.
SummariesAgree ==
    \A r \in Requests : shown[r] # None =>
        LET s == shown[r].s
            inbox == AppendRecordDrivenTasks(s)
            records == BuildRecordPipeline(s)
            cards == BuildSupplierScorecardsFromRecords(s)
            money == BuildMoneyTrackerFromRecords(s)
        IN  /\ \A o \in DOMAIN s.deals :
                /\ BuildPipeline(s)[o].accepted = "complete" =>
                       /\ orderStatus[o] = "accepted"
                       /\ o \in Listed(s) => records[o].accepted = "complete"
                /\ BuildPipeline(s)[o].evidence = "complete" =>
                       /\ o \in proven
                       /\ o \in Listed(s) => records[o].evidence = "complete"
            /\ \A o \in Listed(s) :
                /\ records[o].accepted = "complete" => orderStatus[o] = "accepted"
                /\ records[o].evidence = "complete" => o \in proven
                /\ [ kind |-> "invoice-needed", of |-> o ] \in inbox =>
                       /\ records[o].accepted = "complete"
                       /\ BuildEvidenceChecklistFromRecords(s)[o].invoice = "missing"
                /\ records[o].verified = "blocked" => cards[PartiesOf[o].supplier].exceptions > 0
            /\ money.incoming = "failed" <=> \E t \in inbox : t.kind = "invoice-exception"
            /\ money.incoming = "failed" <=> \E c \in DOMAIN cards : cards[c].exceptions > 0
            /\ shown[r].task # None /\ s.epoch = epoch =>
                   shown[r].task \in completed[shown[r].actor.org]
            /\ \A q \in Requests :
                   /\ limit = 1 /\ q < r
                   /\ shown[q] # None /\ shown[q].task # None
                   /\ shown[q].actor.org = shown[r].actor.org
                   /\ shown[q].s.epoch = s.epoch
                   => shown[q].task \in s.done
=============================================================================
