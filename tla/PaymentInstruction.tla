------------------------- MODULE PaymentInstruction -------------------------
(***************************************************************************)
(* The payments module: requests that create a payment instruction for an  *)
(* escrow (createPaymentInstruction) or reconcile one with its adapter     *)
(* (reconcilePaymentInstruction), running beside the escrow module, which  *)
(* is present as EscrowHistory: EscrowWorkflow is proved to implement it,  *)
(* so whatever it does to an escrow row is a step here.                    *)
(*                                                                         *)
(* A request is its number, in order of arrival; the instruction or the    *)
(* settlement event it writes has the number as its identity.  Both        *)
(* adapters compute locally, so their answer is part of the step that      *)
(* precedes the event.                                                     *)
(***************************************************************************)
EXTENDS EscrowDomain, Naturals, FiniteSets, Sequences

CONSTANTS
    Ids,            \* identities of escrows and of escrow events
    Orders,
    RequestBound,   \* requests in a behaviour (a bound)
    MaxInFlight,    \* requests handled at the same time (a bound)
    Faults,         \* which faults happen: "query", "crash"
    Adapters,       \* the adapters clients name
    Requested,      \* the payment statuses clients ask for
    None

Requests == 1..RequestBound

PaymentStatuses == {"pending", "accepted", "failed", "settled", "cancelled"}

\* The predicate of the unique index of migration 016.
ActivePaymentStatuses == {"pending", "accepted", "settled"}

ASSUME PaymentAssumption ==
    /\ RequestBound \in Nat
    /\ MaxInFlight \in Nat
    /\ Faults \subseteq {"query", "crash"}
    /\ Adapters \subseteq {"localSandbox", "manualSettlement"}
    /\ Requested \subseteq PaymentStatuses

Row == [ escrow : Ids, adapter : Adapters, status : PaymentStatuses,
         eventIds : Seq(Requests) ]

EventTypes == {"settlementInitiated", "settlementCompleted", "settlementFailed"}

Event == [ instruction : Requests, type : EventTypes ]

Job == [ kind : {"create", "reconcile"}, id : Requests, row : Row ]

TrailEvent == [ escrow : Ids, cmd : Commands \union {"create"}, prev : Ids \union {None},
                from : EscrowStatuses, to : EscrowStatuses ]

HeadRow == [ order : Orders, status : EscrowStatuses, last : Ids \union {None} ]

ASSUME NothingAssumption ==
    None \notin Ids \union Row \union Event \union Job \union TrailEvent \union HeadRow
                    \union PaymentStatuses

InFlightSteps == {"findActive", "recordEvent", "save"}
Ended == {"done", "rejected", "failed"}

VARIABLES
    log, head,      \* the escrow events and rows, as EscrowHistory has them
    instruction,    \* instruction[i]: a row of payment_instructions, or None
    settlement,     \* settlement[e]: the settlement event e, or None
    pc,             \* where the handler of each request is
    job             \* its local variables while it runs, or None

escrowVars == <<log, head>>
vars == <<escrowVars, instruction, settlement, pc, job>>

Escrows == INSTANCE EscrowHistory

Init ==
    /\ Escrows!HistoryInit
    /\ instruction = [i \in Requests |-> None]
    /\ settlement = [e \in Requests |-> None]
    /\ pc = [r \in Requests |-> "idle"]
    /\ job = [r \in Requests |-> None]

InFlight(r) == pc[r] \in InFlightSteps

NextToArrive(r) ==
    /\ pc[r] = "idle"
    /\ \A q \in Requests : q < r => pc[q] # "idle"
    /\ Cardinality({q \in Requests : InFlight(q)}) < MaxInFlight

Start(r, step, j) ==
    /\ pc' = [pc EXCEPT ![r] = step]
    /\ job' = [job EXCEPT ![r] = j]

End(r, how) ==
    /\ pc' = [pc EXCEPT ![r] = how]
    /\ job' = [job EXCEPT ![r] = None]

-----------------------------------------------------------------------------
(* Arrival of a request, up to the answer of its first query.  Requests of *)
(* an actor the code refuses, for an unknown escrow or instruction, or for *)
(* an escrow in another status change nothing and are not represented; an  *)
(* administrator may always make the others.                               *)

\* What an adapter answers to a creation ...
CreatedStatus(adapter, requested) ==
    IF requested # None THEN requested
    ELSE IF adapter = "localSandbox" THEN "accepted" ELSE "pending"

\* ... and to a reconciliation.
ReconciledStatus(adapter, status, requested) ==
    IF requested # None THEN requested
    ELSE IF adapter = "localSandbox" /\ status = "accepted" THEN "settled" ELSE status

\* Fault: the status of the escrow is not asked for.
CreateUnchecked(r, x, adapter, requested) ==
    /\ NextToArrive(r)
    /\ head[x] # None
    /\ Start(r, "findActive",
             [ kind |-> "create", id |-> r,
               row |-> [ escrow |-> x, adapter |-> adapter,
                         status |-> CreatedStatus(adapter, requested), eventIds |-> <<>> ] ])
    /\ UNCHANGED <<escrowVars, instruction, settlement>>

CreateInstruction(r, x, adapter, requested) ==
    /\ NextToArrive(r)
    /\ head[x] # None
    /\ head[x].status = "settlementInstructionReady"
    /\ Start(r, "findActive",
             [ kind |-> "create", id |-> r,
               row |-> [ escrow |-> x, adapter |-> adapter,
                         status |-> CreatedStatus(adapter, requested), eventIds |-> <<>> ] ])
    /\ UNCHANGED <<escrowVars, instruction, settlement>>

ReconcileInstruction(r, i, requested) ==
    /\ NextToArrive(r)
    /\ instruction[i] # None
    /\ LET row == instruction[i]
       IN  Start(r, "recordEvent",
                 [ kind |-> "reconcile", id |-> i,
                   row |-> [row EXCEPT
                       !.status = ReconciledStatus(row.adapter, row.status, requested)] ])
    /\ UNCHANGED <<escrowVars, instruction, settlement>>

-----------------------------------------------------------------------------
(* findActiveByEscrowId, the lifecycle event, and the row.                 *)

FindActiveInstruction(r) ==
    /\ pc[r] = "findActive"
    /\ IF \E i \in Requests : /\ instruction[i] # None
                              /\ instruction[i].escrow = job[r].row.escrow
                              /\ instruction[i].status \in ActivePaymentStatuses
       THEN End(r, "rejected")
       ELSE /\ pc' = [pc EXCEPT ![r] = "recordEvent"]
            /\ UNCHANGED job
    /\ UNCHANGED <<escrowVars, instruction, settlement>>

EventTypeFor(status) ==
    IF status = "settled" THEN "settlementCompleted"
    ELSE IF status = "failed" THEN "settlementFailed"
    ELSE "settlementInitiated"

SettlementEvent(j) == [ instruction |-> j.id, type |-> EventTypeFor(j.row.status) ]

\* The event is stored, and listed after those of the snapshot.
RecordSettlement(r) ==
    /\ pc[r] = "recordEvent"
    /\ settlement' = [settlement EXCEPT ![r] = SettlementEvent(job[r])]
    /\ Start(r, "save", [job[r] EXCEPT !.row.eventIds = Append(@, r)])
    /\ UNCHANGED <<escrowVars, instruction>>

\* Fault: the index leaves settled instructions out.
IndexOfOpenOnly(i, row) ==
    row.status \in {"pending", "accepted"} =>
        \A k \in Requests \ {i} :
            instruction[k] # None /\ instruction[k].escrow = row.escrow
                => instruction[k].status \notin {"pending", "accepted"}

\* The unique index of migration 016: one active instruction per escrow.
IndexAdmits(i, row) ==
    row.status \in ActivePaymentStatuses =>
        \A k \in Requests \ {i} :
            instruction[k] # None /\ instruction[k].escrow = row.escrow
                => instruction[k].status \notin ActivePaymentStatuses

\* Fault: a reconciliation stores the status of the row it read.
SaveOldStatus(r) ==
    /\ pc[r] = "save"
    /\ LET i == job[r].id
           row == IF job[r].kind = "create" THEN job[r].row
                  ELSE [job[r].row EXCEPT !.status = instruction[i].status]
       IN  IF IndexAdmits(i, row)
           THEN /\ instruction' = [instruction EXCEPT ![i] = row]
                /\ End(r, "done")
           ELSE /\ End(r, "failed")
                /\ UNCHANGED instruction
    /\ UNCHANGED <<escrowVars, settlement>>

\* INSERT for a creation, a whole-row UPDATE by identity for a reconciliation.
SaveInstruction(r) ==
    /\ pc[r] = "save"
    /\ LET i == job[r].id
           row == job[r].row
       IN  IF IndexAdmits(i, row)
           THEN /\ instruction' = [instruction EXCEPT ![i] = row]
                /\ End(r, "done")
           ELSE /\ End(r, "failed")
                /\ UNCHANGED instruction
    /\ UNCHANGED <<escrowVars, settlement>>

-----------------------------------------------------------------------------
(* A query that throws ends its request with an error reply, after what    *)
(* was written before; a crash does it to every request in flight.         *)

QueryFails(r) ==
    /\ "query" \in Faults
    /\ InFlight(r)
    /\ End(r, "failed")
    /\ UNCHANGED <<escrowVars, instruction, settlement>>

Crash ==
    /\ "crash" \in Faults
    /\ \E r \in Requests : InFlight(r)
    /\ pc' = [r \in Requests |-> IF InFlight(r) THEN "failed" ELSE pc[r]]
    /\ job' = [r \in Requests |-> None]
    /\ UNCHANGED <<escrowVars, instruction, settlement>>

EscrowStep ==
    /\ Escrows!HistoryNext
    /\ UNCHANGED <<instruction, settlement, pc, job>>

Arrive(r) ==
    \/ \E x \in Ids, adapter \in Adapters, requested \in Requested \union {None} :
          CreateInstruction(r, x, adapter, requested)
    \/ \E i \in Requests, requested \in Requested \union {None} :
          ReconcileInstruction(r, i, requested)

Step(r) == FindActiveInstruction(r) \/ RecordSettlement(r) \/ SaveInstruction(r)

Next ==
    \/ \E r \in Requests : Arrive(r) \/ Step(r) \/ QueryFails(r)
    \/ Crash
    \/ EscrowStep

Spec == Init /\ [][Next]_vars

-----------------------------------------------------------------------------
TypeOK ==
    /\ log \in [Ids -> TrailEvent \union {None}]
    /\ head \in [Ids -> HeadRow \union {None}]
    /\ instruction \in [Requests -> Row \union {None}]
    /\ settlement \in [Requests -> Event \union {None}]
    /\ pc \in [Requests -> {"idle"} \union InFlightSteps \union Ended]
    /\ job \in [Requests -> Job \union {None}]
    /\ \A r \in Requests : InFlight(r) <=> job[r] # None

\* However creations and reconciliations interleave, an escrow never has two
\* active instructions, settled ones included.
AtMostOneActiveInstruction ==
    \A i, k \in Requests :
        /\ instruction[i] # None
        /\ instruction[k] # None
        /\ instruction[i].escrow = instruction[k].escrow
        /\ instruction[i].status \in ActivePaymentStatuses
        /\ instruction[k].status \in ActivePaymentStatuses
        => i = k

\* The trail of escrow x shows that it was made ready for settlement.
WasReady(x) ==
    \E e \in Ids : /\ log[e] # None
                   /\ log[e].escrow = x
                   /\ log[e].to = "settlementInstructionReady"

\* No instruction exists for an escrow whose trail holds no approval, even if a
\* late write has taken the escrow out of that status since it was read.
InstructionIsBacked ==
    \A i \in Requests : instruction[i] # None => WasReady(instruction[i].escrow)

\* The listed events of row are recorded events of instruction i ...
ListsItsEvents(i, row) ==
    \A k \in 1..Len(row.eventIds) :
        /\ settlement[row.eventIds[k]] # None
        /\ settlement[row.eventIds[k]].instruction = i

\* ... and the last one announced its status.
TellsItsStatus(row) ==
    /\ row.eventIds # <<>>
    /\ settlement[row.eventIds[Len(row.eventIds)]] # None
    /\ settlement[row.eventIds[Len(row.eventIds)]].type = EventTypeFor(row.status)

\* An instruction lists recorded events of its own, and the last of them
\* announced the status it has, whichever of the racing reconciliations wrote it.
StatusIsAnnounced ==
    \A i \in Requests :
        instruction[i] # None =>
            ListsItsEvents(i, instruction[i]) /\ TellsItsStatus(instruction[i])

-----------------------------------------------------------------------------
(* The inductive invariant behind the safety properties above.             *)

HeadStandsAtEvent ==
    \A x \in Ids :
        head[x] # None =>
            IF head[x].last = None
            THEN head[x].status = "escrowCreated"
            ELSE /\ log[head[x].last] # None
                 /\ log[head[x].last].escrow = x
                 /\ log[head[x].last].to = head[x].status

JobFits(r) ==
    LET j == job[r]
    IN  /\ WasReady(j.row.escrow)
        /\ ListsItsEvents(j.id, j.row)
        /\ j.kind = "create" => j.id = r
        /\ pc[r] = "save" => TellsItsStatus(j.row)

RequestFits(r) ==
    /\ InFlight(r) => JobFits(r)
    /\ pc[r] \in {"idle", "findActive", "recordEvent"} => settlement[r] = None

RequestsFit == \A r \in Requests : RequestFits(r)

IInv ==
    /\ TypeOK
    /\ AtMostOneActiveInstruction
    /\ InstructionIsBacked
    /\ StatusIsAnnounced
    /\ HeadStandsAtEvent
    /\ RequestsFit
=============================================================================
