---------------------- MODULE PaymentInstructionProofs ----------------------
(***************************************************************************)
(* Proofs about PaymentInstruction: its types, its inductive invariant and *)
(* the safety properties that follow from it, for any number of requests,  *)
(* escrows and adapters, and any escrow module that keeps to EscrowHistory.*)
(***************************************************************************)
EXTENDS PaymentInstruction, TLAPS

LEMMA SameVocabulary ==
    /\ Escrows!EscrowStatuses = EscrowStatuses
    /\ Escrows!Commands = Commands
    /\ Escrows!Sources = Sources
    /\ Escrows!Target = Target
BY DEF EscrowStatuses, Commands, Sources, Target, Holdable, AwaitingRelease, PausedStatuses,
       Escrows!EscrowStatuses, Escrows!Commands, Escrows!Sources, Escrows!Target,
       Escrows!Holdable, Escrows!AwaitingRelease, Escrows!PausedStatuses

LEMMA TargetsAreStatuses ==
    ASSUME NEW c \in Commands
    PROVE  Target[c] \in EscrowStatuses
BY DEF Commands, Target, EscrowStatuses

-----------------------------------------------------------------------------
(* What a step of the escrow module may do.                                *)

LEMMA EntryHasType ==
    ASSUME TypeOK, NEW c \in Commands \union {"create"}, NEW x \in Ids,
           NEW p \in Escrows!TrailOf(x) \union {None}, Escrows!Continues(c, p)
    PROVE  Escrows!Entry(c, x, p) \in TrailEvent
<1>0. p \in Ids \union {None} /\ (p # None => log[p] # None)
    BY DEF Escrows!TrailOf
<1>1. CASE c = "create"
    BY <1>0, <1>1 DEF Escrows!Entry, Escrows!From, TrailEvent, EscrowStatuses
<1>2. CASE c # "create"
  <2>1. c \in Commands
      BY <1>2
  <2>2. Escrows!From(c, p) \in EscrowStatuses
      BY <1>0, <1>2 DEF Escrows!From, TypeOK, TrailEvent, EscrowStatuses
  <2> QED BY <1>0, <1>2, <2>1, <2>2, SameVocabulary, TargetsAreStatuses
      DEF Escrows!Entry, TrailEvent
<1> QED BY <1>1, <1>2

LEMMA EscrowStepIsSafe ==
    ASSUME TypeOK, HeadStandsAtEvent, EscrowStep
    PROVE  /\ log' \in [Ids -> TrailEvent \union {None}]
           /\ head' \in [Ids -> HeadRow \union {None}]
           /\ HeadStandsAtEvent'
           /\ \A e \in Ids : log[e] # None => log'[e] = log[e]
<1>1. ASSUME NEW x \in Ids, NEW o \in Orders, Escrows!Open(x, o)
      PROVE  /\ log' = log
             /\ head' \in [Ids -> HeadRow \union {None}]
             /\ HeadStandsAtEvent'
  <2>1. log' = log
        /\ head' = [head EXCEPT ![x] = [order |-> o, status |-> "escrowCreated", last |-> None]]
      BY <1>1 DEF Escrows!Open
  <2>2. [order |-> o, status |-> "escrowCreated", last |-> None] \in HeadRow
      BY DEF HeadRow, EscrowStatuses
  <2> QED BY <2>1, <2>2 DEF TypeOK, HeadStandsAtEvent
<1>2. ASSUME NEW e \in Ids, NEW x \in Ids, Escrows!Append(e, x)
      PROVE  /\ log' \in [Ids -> TrailEvent \union {None}]
             /\ head' = head
             /\ \A d \in Ids : log[d] # None => log'[d] = log[d]
  <2>1. PICK p \in Escrows!TrailOf(x) \union {None}, c \in Commands \union {"create"} :
            /\ Escrows!Continues(c, p)
            /\ log' = [log EXCEPT ![e] = Escrows!Entry(c, x, p)]
      BY <1>2, SameVocabulary DEF Escrows!Append
  <2>2. Escrows!Entry(c, x, p) \in TrailEvent
      BY <2>1, EntryHasType
  <2> QED BY <1>2, <2>1, <2>2 DEF Escrows!Append, TypeOK
<1>3. ASSUME NEW x \in Ids, NEW e \in Ids, Escrows!StandAt(x, e)
      PROVE  /\ log' = log
             /\ head' \in [Ids -> HeadRow \union {None}]
             /\ HeadStandsAtEvent'
  <2>1. /\ log' = log /\ log[e] # None /\ log[e].escrow = x /\ head[x] # None
        /\ head' = [head EXCEPT ![x] = [order |-> head[x].order, status |-> log[e].to,
                                        last |-> e]]
      BY <1>3 DEF Escrows!StandAt
  <2>2. [order |-> head[x].order, status |-> log[e].to, last |-> e] \in HeadRow
      BY <2>1 DEF TypeOK, HeadRow, TrailEvent
  <2>3. e # None
      BY NothingAssumption
  <2> QED BY <2>1, <2>2, <2>3 DEF TypeOK, HeadStandsAtEvent
<1>4. ASSUME log' \in [Ids -> TrailEvent \union {None}], head' = head,
             \A d \in Ids : log[d] # None => log'[d] = log[d]
      PROVE  HeadStandsAtEvent'
    BY <1>4 DEF HeadStandsAtEvent, TypeOK, HeadRow
<1>5. \/ \E x \in Ids, o \in Orders : Escrows!Open(x, o)
      \/ \E e, x \in Ids : Escrows!Append(e, x)
      \/ \E x, e \in Ids : Escrows!StandAt(x, e)
    BY DEF EscrowStep, Escrows!HistoryNext
<1> QED BY <1>1, <1>2, <1>3, <1>4, <1>5 DEF TypeOK

-----------------------------------------------------------------------------
(* Recorded events stay, so what was said about them stays true.           *)

TablesGrow ==
    /\ \A e \in Ids : log[e] # None => log'[e] = log[e]
    /\ \A e \in Requests : settlement[e] # None => settlement'[e] = settlement[e]

LEMMA WasReadyStays ==
    ASSUME TablesGrow, NEW x, WasReady(x)
    PROVE  WasReady(x)'
BY DEF TablesGrow, WasReady

LEMMA ListStays ==
    ASSUME TablesGrow, NEW i \in Requests, NEW row \in Row, ListsItsEvents(i, row)
    PROVE  ListsItsEvents(i, row)'
<1>1. \A k \in 1..Len(row.eventIds) : row.eventIds[k] \in Requests
    BY DEF Row
<1> QED BY <1>1 DEF TablesGrow, ListsItsEvents

LEMMA TellingStays ==
    ASSUME TablesGrow, NEW row \in Row, TellsItsStatus(row)
    PROVE  TellsItsStatus(row)'
<1>1. row.eventIds[Len(row.eventIds)] \in Requests
    BY DEF Row, TellsItsStatus
<1> QED BY <1>1 DEF TablesGrow, TellsItsStatus, EventTypeFor

LEMMA InFlightHasJob ==
    ASSUME TypeOK, NEW r \in Requests, InFlight(r)
    PROVE  job[r] \in Job /\ job[r] # None /\ job[r].row \in Row /\ job[r].id \in Requests
BY DEF TypeOK, Job

\* A request that does not move keeps what the invariant says of it.
LEMMA OthersStillFit ==
    ASSUME TypeOK, RequestsFit, TablesGrow, NEW q \in Requests,
           pc'[q] = pc[q], job'[q] = job[q], settlement'[q] = settlement[q]
    PROVE  RequestFits(q)'
<1>1. pc'[q] \in {"idle", "findActive", "recordEvent"} => settlement'[q] = None
    BY DEF RequestsFit, RequestFits
<1>2. ASSUME InFlight(q)'
      PROVE  JobFits(q)'
  <2>1. InFlight(q) /\ JobFits(q)
      BY <1>2 DEF InFlight, RequestsFit, RequestFits
  <2>2. job[q].row \in Row /\ job[q].id \in Requests
      BY <2>1, InFlightHasJob
  <2>3. PICK row \in Row, i \in Requests : row = job[q].row /\ i = job[q].id
      BY <2>2
  <2>4. WasReady(row.escrow) /\ ListsItsEvents(i, row)
        /\ (job[q].kind = "create" => i = q)
        /\ (pc[q] = "save" => TellsItsStatus(row))
      BY <2>1, <2>3 DEF JobFits
  <2>5. WasReady(row.escrow)' /\ ListsItsEvents(i, row)'
        /\ (pc[q] = "save" => TellsItsStatus(row)')
      BY <2>4, WasReadyStays, ListStays, TellingStays
  <2>6. job'[q].row = row /\ job'[q].id = i /\ job'[q].kind = job[q].kind
      BY <2>3
  <2> QED BY <2>4, <2>5, <2>6 DEF JobFits, WasReady, ListsItsEvents, TellsItsStatus
<1> QED BY <1>1, <1>2 DEF RequestFits

\* Rows that are not written keep what the invariant says of them.
LEMMA RowsStillFit ==
    ASSUME TypeOK, InstructionIsBacked, StatusIsAnnounced, TablesGrow, NEW i \in Requests,
           instruction'[i] = instruction[i], instruction[i] # None
    PROVE  /\ WasReady(instruction[i].escrow)'
           /\ ListsItsEvents(i, instruction[i])'
           /\ TellsItsStatus(instruction[i])'
<1>1. PICK row \in Row : row = instruction[i]
    BY DEF TypeOK
<1>2. WasReady(row.escrow) /\ ListsItsEvents(i, row) /\ TellsItsStatus(row)
    BY <1>1 DEF InstructionIsBacked, StatusIsAnnounced
<1>3. WasReady(row.escrow)' /\ ListsItsEvents(i, row)' /\ TellsItsStatus(row)'
    BY <1>2, WasReadyStays, ListStays, TellingStays
<1> QED BY <1>1, <1>3 DEF WasReady, ListsItsEvents, TellsItsStatus, EventTypeFor

-----------------------------------------------------------------------------
(* A step that writes no table: all that matters is the request it moves.  *)

LEMMA QuietStep ==
    ASSUME IInv, TypeOK', UNCHANGED <<escrowVars, instruction, settlement>>,
           \A q \in Requests : (pc'[q] = pc[q] /\ job'[q] = job[q]) \/ RequestFits(q)'
    PROVE  IInv'
<1>1. TablesGrow
    BY DEF TablesGrow, escrowVars
<1>2. RequestsFit'
  <2>1. ASSUME NEW q \in Requests
        PROVE  RequestFits(q)'
      BY <1>1, OthersStillFit DEF IInv
  <2> QED BY <2>1 DEF RequestsFit
<1>3. AtMostOneActiveInstruction' /\ HeadStandsAtEvent'
    BY DEF IInv, AtMostOneActiveInstruction, HeadStandsAtEvent, escrowVars
<1>4. InstructionIsBacked' /\ StatusIsAnnounced'
  <2>1. ASSUME NEW i \in Requests, instruction[i] # None
        PROVE  /\ WasReady(instruction[i].escrow)'
               /\ ListsItsEvents(i, instruction[i])'
               /\ TellsItsStatus(instruction[i])'
      BY <1>1, <2>1, RowsStillFit DEF IInv
  <2> QED BY <2>1 DEF InstructionIsBacked, StatusIsAnnounced
<1> QED BY <1>2, <1>3, <1>4 DEF IInv

\* Moving request r to a step with local state j, or ending it, is well typed.
LEMMA StartIsTyped ==
    ASSUME TypeOK, NEW r \in Requests, NEW step \in InFlightSteps, NEW j \in Job,
           Start(r, step, j)
    PROVE  /\ pc' \in [Requests -> {"idle"} \union InFlightSteps \union Ended]
           /\ job' \in [Requests -> Job \union {None}]
           /\ \A q \in Requests : InFlight(q)' <=> job'[q] # None
           /\ pc'[r] = step /\ job'[r] = j
           /\ \A q \in Requests \ {r} : pc'[q] = pc[q] /\ job'[q] = job[q]
BY NothingAssumption DEF TypeOK, Start, InFlight

LEMMA EndIsTyped ==
    ASSUME TypeOK, NEW r \in Requests, NEW how \in Ended, End(r, how)
    PROVE  /\ pc' \in [Requests -> {"idle"} \union InFlightSteps \union Ended]
           /\ job' \in [Requests -> Job \union {None}]
           /\ \A q \in Requests : InFlight(q)' <=> job'[q] # None
           /\ pc'[r] = how /\ job'[r] = None
           /\ \A q \in Requests \ {r} : pc'[q] = pc[q] /\ job'[q] = job[q]
BY DEF TypeOK, End, InFlight, InFlightSteps, Ended

LEMMA EndedFits ==
    ASSUME NEW r \in Requests, pc'[r] \in Ended
    PROVE  RequestFits(r)'
BY DEF RequestFits, InFlight, InFlightSteps, Ended

-----------------------------------------------------------------------------
(* One lemma for each action.                                              *)

LEMMA CreateKeeps ==
    ASSUME IInv, NEW r \in Requests, NEW x \in Ids, NEW adapter \in Adapters,
           NEW requested \in Requested \union {None},
           CreateInstruction(r, x, adapter, requested)
    PROVE  IInv'
<1> DEFINE row == [ escrow |-> x, adapter |-> adapter,
                    status |-> CreatedStatus(adapter, requested), eventIds |-> <<>> ]
           j == [kind |-> "create", id |-> r, row |-> row]
<1>1. CreatedStatus(adapter, requested) \in PaymentStatuses
    BY PaymentAssumption DEF CreatedStatus, PaymentStatuses
<1>2. j \in Job
    BY <1>1 DEF Job, Row
<1>3. Start(r, "findActive", j) /\ UNCHANGED <<escrowVars, instruction, settlement>>
    BY DEF CreateInstruction
<1>4. TypeOK' /\ pc'[r] = "findActive" /\ job'[r] = j
      /\ \A q \in Requests \ {r} : pc'[q] = pc[q] /\ job'[q] = job[q]
    BY <1>2, <1>3, StartIsTyped DEF IInv, TypeOK, InFlightSteps, escrowVars
<1>5. WasReady(x)'
  <2>1. head[x] # None /\ head[x].last # None /\ head[x].last \in Ids
      BY DEF CreateInstruction, IInv, HeadStandsAtEvent, TypeOK, HeadRow
  <2>2. log[head[x].last] # None /\ log[head[x].last].escrow = x
        /\ log[head[x].last].to = "settlementInstructionReady"
      BY <2>1 DEF CreateInstruction, IInv, HeadStandsAtEvent
  <2> QED BY <1>3, <2>1, <2>2 DEF WasReady, escrowVars
<1>6. settlement'[r] = None
    BY <1>3 DEF CreateInstruction, NextToArrive, IInv, RequestsFit, RequestFits
<1>7. RequestFits(r)'
    BY <1>4, <1>5, <1>6 DEF RequestFits, JobFits, WasReady, ListsItsEvents
<1> QED BY <1>3, <1>4, <1>7, QuietStep

LEMMA ReconcileKeeps ==
    ASSUME IInv, NEW r \in Requests, NEW i \in Requests,
           NEW requested \in Requested \union {None}, ReconcileInstruction(r, i, requested)
    PROVE  IInv'
<1>1. PICK old \in Row : old = instruction[i]
    BY DEF ReconcileInstruction, IInv, TypeOK
<1>2. PICK st : st = ReconciledStatus(old.adapter, old.status, requested)
    OBVIOUS
<1>3. st \in PaymentStatuses
    BY <1>1, <1>2, PaymentAssumption DEF ReconciledStatus, PaymentStatuses, Row
<1>4. PICK row \in Row : row = [old EXCEPT !.status = st]
    BY <1>1, <1>3 DEF Row
<1>5. PICK j \in Job : j = [kind |-> "reconcile", id |-> i, row |-> row]
    BY <1>4 DEF Job
<1>6. Start(r, "recordEvent", j) /\ UNCHANGED <<escrowVars, instruction, settlement>>
    BY <1>1, <1>2, <1>4, <1>5 DEF ReconcileInstruction
<1>7. TypeOK' /\ pc'[r] = "recordEvent" /\ job'[r] = j
      /\ \A q \in Requests \ {r} : pc'[q] = pc[q] /\ job'[q] = job[q]
    BY <1>6, StartIsTyped DEF IInv, TypeOK, InFlightSteps, escrowVars
<1>8. settlement'[r] = None
    BY <1>6 DEF ReconcileInstruction, NextToArrive, IInv, RequestsFit, RequestFits
<1>9. WasReady(row.escrow)' /\ ListsItsEvents(i, row)'
  <2>1. WasReady(old.escrow) /\ ListsItsEvents(i, old)
      BY <1>1 DEF ReconcileInstruction, IInv, InstructionIsBacked, StatusIsAnnounced
  <2>2. row.escrow = old.escrow /\ row.eventIds = old.eventIds
      BY <1>4 DEF Row
  <2> QED BY <1>6, <2>1, <2>2 DEF WasReady, ListsItsEvents, escrowVars
<1>10. RequestFits(r)'
    BY <1>5, <1>7, <1>8, <1>9 DEF RequestFits, JobFits, WasReady, ListsItsEvents
<1> QED BY <1>6, <1>7, <1>10, QuietStep

LEMMA FindActiveKeeps ==
    ASSUME IInv, NEW r \in Requests, FindActiveInstruction(r)
    PROVE  IInv'
<1>1. pc[r] = "findActive" /\ InFlight(r) /\ UNCHANGED <<escrowVars, instruction, settlement>>
    BY DEF FindActiveInstruction, InFlight, InFlightSteps
<1>2. CASE End(r, "rejected")
  <2>1. TypeOK' /\ pc'[r] \in Ended
        /\ \A q \in Requests \ {r} : pc'[q] = pc[q] /\ job'[q] = job[q]
      BY <1>1, <1>2, EndIsTyped DEF IInv, TypeOK, Ended, escrowVars
  <2> QED BY <1>1, <2>1, EndedFits, QuietStep
<1>3. CASE pc' = [pc EXCEPT ![r] = "recordEvent"] /\ job' = job
  <2>1. TypeOK' /\ pc'[r] = "recordEvent" /\ job'[r] = job[r]
        /\ \A q \in Requests \ {r} : pc'[q] = pc[q] /\ job'[q] = job[q]
      BY <1>1, <1>3 DEF IInv, TypeOK, InFlight, InFlightSteps, escrowVars
  <2>2. RequestFits(r)'
      BY <1>1, <2>1 DEF IInv, RequestsFit, RequestFits, JobFits, WasReady, ListsItsEvents,
                        InFlight, escrowVars
  <2> QED BY <1>1, <2>1, <2>2, QuietStep
<1> QED BY <1>2, <1>3 DEF FindActiveInstruction

\* The row of a snapshot with one more event is a row.
LEMMA ListingHasType ==
    ASSUME NEW old \in Row, NEW r \in Requests
    PROVE  LET row == [old EXCEPT !.eventIds = Append(@, r)]
           IN  /\ row \in Row
               /\ row.eventIds = Append(old.eventIds, r)
               /\ row.escrow = old.escrow
               /\ row.status = old.status
<1>1. PICK ids \in Seq(Requests) : ids = old.eventIds
    BY DEF Row
<1>2. PICK more \in Seq(Requests) : more = Append(ids, r)
  <2>1. Append(ids, r) \in Seq(Requests)
      OBVIOUS
  <2> QED BY <2>1
<1>3. [old EXCEPT !.eventIds = more] \in Row
    BY <1>2 DEF Row
<1>4. /\ [old EXCEPT !.eventIds = more].eventIds = more
      /\ [old EXCEPT !.eventIds = more].escrow = old.escrow
      /\ [old EXCEPT !.eventIds = more].status = old.status
    BY DEF Row
<1> QED BY <1>1, <1>2, <1>3, <1>4

LEMMA RecordKeeps ==
    ASSUME IInv, NEW r \in Requests, RecordSettlement(r)
    PROVE  IInv'
<1>1. pc[r] = "recordEvent" /\ InFlight(r) /\ settlement[r] = None
    BY DEF RecordSettlement, InFlight, InFlightSteps, IInv, RequestsFit, RequestFits
<1>2. PICK j \in Job : j = job[r]
    BY <1>1, InFlightHasJob DEF IInv
<1>3. j.row \in Row /\ j.id \in Requests /\ WasReady(j.row.escrow)
      /\ ListsItsEvents(j.id, j.row) /\ (j.kind = "create" => j.id = r)
    BY <1>1, <1>2 DEF IInv, RequestsFit, RequestFits, JobFits, Job
<1>4. PICK ids \in Seq(Requests) : ids = j.row.eventIds
    BY <1>3 DEF Row
<1>5. PICK row \in Row : row = [j.row EXCEPT !.eventIds = Append(@, r)]
    BY <1>3, ListingHasType
<1>6. row.eventIds = Append(ids, r) /\ row.escrow = j.row.escrow /\ row.status = j.row.status
    BY <1>3, <1>4, <1>5, ListingHasType
<1>7. PICK k \in Job : k = [j EXCEPT !.row = row]
    BY <1>2 DEF Job
<1>8. k.row = row /\ k.id = j.id /\ k.kind = j.kind
    BY <1>7 DEF Job
<1>9. k = [job[r] EXCEPT !.row.eventIds = Append(@, r)]
    BY <1>2, <1>5, <1>7
<1>10. PICK ev \in Event : ev = SettlementEvent(j)
  <2>1. EventTypeFor(j.row.status) \in EventTypes
      BY DEF EventTypeFor, EventTypes
  <2>2. SettlementEvent(j) \in Event
      BY <1>3, <2>1 DEF SettlementEvent, Event
  <2> QED BY <2>2
<1>11. ev.instruction = j.id /\ ev.type = EventTypeFor(row.status) /\ ev # None
    BY <1>6, <1>10, NothingAssumption DEF SettlementEvent
<1>12. /\ Start(r, "save", k)
       /\ settlement' = [settlement EXCEPT ![r] = ev]
       /\ UNCHANGED <<escrowVars, instruction>>
    BY <1>2, <1>9, <1>10 DEF RecordSettlement
<1>13. settlement'[r] = ev /\ \A e \in Requests \ {r} : settlement'[e] = settlement[e]
    BY <1>12 DEF IInv, TypeOK
<1>14. TypeOK' /\ pc'[r] = "save" /\ job'[r] = k
       /\ \A q \in Requests \ {r} : pc'[q] = pc[q] /\ job'[q] = job[q]
    BY <1>12, StartIsTyped DEF IInv, TypeOK, InFlightSteps, escrowVars
<1>15. TablesGrow
    BY <1>1, <1>12, <1>13 DEF TablesGrow, escrowVars
<1>16. RequestsFit'
  <2>1. WasReady(row.escrow)'
      BY <1>3, <1>6, <1>15, WasReadyStays
  <2>2. ListsItsEvents(j.id, j.row)'
      BY <1>3, <1>15, ListStays
  <2>3. ListsItsEvents(j.id, row)'
    <3>1. \A n \in 1..Len(row.eventIds) :
             row.eventIds[n] = IF n <= Len(ids) THEN ids[n] ELSE r
        BY <1>6
    <3>2. \A n \in 1..Len(ids) :
             settlement'[ids[n]] # None /\ settlement'[ids[n]].instruction = j.id
        BY <1>4, <2>2 DEF ListsItsEvents
    <3>3. \A n \in 1..Len(row.eventIds) : n <= Len(ids) => n \in 1..Len(ids)
        BY <1>6
    <3> QED BY <1>11, <1>13, <3>1, <3>2, <3>3 DEF ListsItsEvents
  <2>4. TellsItsStatus(row)'
    <3>1. row.eventIds # <<>> /\ row.eventIds[Len(row.eventIds)] = r
        BY <1>6
    <3> QED BY <1>11, <1>13, <3>1 DEF TellsItsStatus, EventTypeFor
  <2>5. RequestFits(r)'
      BY <1>3, <1>8, <1>14, <2>1, <2>3, <2>4
      DEF RequestFits, JobFits, WasReady, ListsItsEvents, TellsItsStatus, EventTypeFor
  <2>6. ASSUME NEW q \in Requests \ {r}
        PROVE  RequestFits(q)'
      BY <1>13, <1>14, <1>15, OthersStillFit DEF IInv
  <2> QED BY <2>5, <2>6 DEF RequestsFit
<1>17. AtMostOneActiveInstruction' /\ HeadStandsAtEvent'
    BY <1>12 DEF IInv, AtMostOneActiveInstruction, HeadStandsAtEvent, escrowVars
<1>18. InstructionIsBacked' /\ StatusIsAnnounced'
  <2>1. ASSUME NEW i \in Requests, instruction[i] # None
        PROVE  /\ WasReady(instruction[i].escrow)'
               /\ ListsItsEvents(i, instruction[i])'
               /\ TellsItsStatus(instruction[i])'
      BY <1>12, <1>15, <2>1, RowsStillFit DEF IInv
  <2> QED BY <1>12, <2>1 DEF InstructionIsBacked, StatusIsAnnounced
<1> QED BY <1>14, <1>16, <1>17, <1>18 DEF IInv

LEMMA SaveKeeps ==
    ASSUME IInv, NEW r \in Requests, SaveInstruction(r)
    PROVE  IInv'
<1>1. pc[r] = "save" /\ InFlight(r) /\ UNCHANGED <<escrowVars, settlement>>
    BY DEF SaveInstruction, InFlight, InFlightSteps
<1>2. PICK row \in Row, i \in Requests : row = job[r].row /\ i = job[r].id
    BY <1>1, InFlightHasJob DEF IInv
<1>3. WasReady(row.escrow) /\ ListsItsEvents(i, row) /\ TellsItsStatus(row)
    BY <1>1, <1>2 DEF IInv, RequestsFit, RequestFits, JobFits
<1>4. CASE End(r, "failed") /\ instruction' = instruction
  <2>1. TypeOK' /\ pc'[r] \in Ended
        /\ \A q \in Requests \ {r} : pc'[q] = pc[q] /\ job'[q] = job[q]
      BY <1>1, <1>4, EndIsTyped DEF IInv, TypeOK, Ended, escrowVars
  <2> QED BY <1>1, <1>4, <2>1, EndedFits, QuietStep
<1>5. CASE IndexAdmits(i, row) /\ End(r, "done")
           /\ instruction' = [instruction EXCEPT ![i] = row]
  <2>1. instruction'[i] = row
        /\ \A k \in Requests \ {i} : instruction'[k] = instruction[k]
      BY <1>5 DEF IInv, TypeOK
  <2>2. TypeOK' /\ pc'[r] \in Ended
        /\ \A q \in Requests \ {r} : pc'[q] = pc[q] /\ job'[q] = job[q]
      BY <1>1, <1>5, EndIsTyped DEF IInv, TypeOK, Ended, escrowVars
  <2>3. TablesGrow
      BY <1>1 DEF TablesGrow, escrowVars
  <2>4. RequestsFit'
    <3>1. ASSUME NEW q \in Requests \ {r}
          PROVE  RequestFits(q)'
        BY <1>1, <2>2, <2>3, OthersStillFit DEF IInv
    <3> QED BY <2>2, <3>1, EndedFits DEF RequestsFit
  <2>5. HeadStandsAtEvent'
      BY <1>1 DEF IInv, HeadStandsAtEvent, escrowVars
  <2>6. AtMostOneActiveInstruction'
    <3>1. ASSUME NEW k \in Requests \ {i}, instruction'[k] # None,
                 instruction'[k].escrow = row.escrow, row.status \in ActivePaymentStatuses
          PROVE  instruction'[k].status \notin ActivePaymentStatuses
        BY <1>5, <2>1, <3>1 DEF IndexAdmits
    <3> QED BY <2>1, <3>1 DEF IInv, AtMostOneActiveInstruction
  <2>7. InstructionIsBacked' /\ StatusIsAnnounced'
    <3>1. WasReady(row.escrow)' /\ ListsItsEvents(i, row)' /\ TellsItsStatus(row)'
        BY <1>3, <2>3, WasReadyStays, ListStays, TellingStays
    <3>2. ASSUME NEW k \in Requests \ {i}, instruction'[k] # None
          PROVE  /\ WasReady(instruction[k].escrow)'
                 /\ ListsItsEvents(k, instruction[k])'
                 /\ TellsItsStatus(instruction[k])'
        BY <2>1, <2>3, <3>2, RowsStillFit DEF IInv
    <3>3. WasReady(instruction[i].escrow)' /\ ListsItsEvents(i, instruction[i])'
          /\ TellsItsStatus(instruction[i])'
        BY <2>1, <3>1 DEF WasReady, ListsItsEvents, TellsItsStatus, EventTypeFor
    <3> QED BY <3>2, <3>3 DEF InstructionIsBacked, StatusIsAnnounced
  <2> QED BY <2>2, <2>4, <2>5, <2>6, <2>7 DEF IInv
<1> QED BY <1>2, <1>4, <1>5 DEF SaveInstruction

LEMMA QueryFailsKeeps ==
    ASSUME IInv, NEW r \in Requests, QueryFails(r)
    PROVE  IInv'
<1>1. TypeOK' /\ pc'[r] \in Ended /\ UNCHANGED <<escrowVars, instruction, settlement>>
      /\ \A q \in Requests \ {r} : pc'[q] = pc[q] /\ job'[q] = job[q]
    BY EndIsTyped DEF QueryFails, IInv, TypeOK, Ended, escrowVars
<1> QED BY <1>1, EndedFits, QuietStep

LEMMA CrashKeeps ==
    ASSUME IInv, Crash
    PROVE  IInv'
<1>1. UNCHANGED <<escrowVars, instruction, settlement>>
    BY DEF Crash
<1>2. \A q \in Requests : /\ pc'[q] = IF InFlight(q) THEN "failed" ELSE pc[q]
                          /\ job'[q] = None
    BY DEF Crash
<1>3. TypeOK'
    BY <1>1, <1>2 DEF Crash, IInv, TypeOK, InFlight, InFlightSteps, Ended, escrowVars
<1>4. \A q \in Requests : (pc'[q] = pc[q] /\ job'[q] = job[q]) \/ pc'[q] \in Ended
    BY <1>2 DEF IInv, TypeOK, Ended
<1> QED BY <1>1, <1>3, <1>4, EndedFits, QuietStep

LEMMA EscrowStepKeeps ==
    ASSUME IInv, EscrowStep
    PROVE  IInv'
<1>1. UNCHANGED <<instruction, settlement, pc, job>>
    BY DEF EscrowStep
<1>2. /\ log' \in [Ids -> TrailEvent \union {None}]
      /\ head' \in [Ids -> HeadRow \union {None}]
      /\ HeadStandsAtEvent'
      /\ TablesGrow
    BY <1>1, EscrowStepIsSafe DEF IInv, TablesGrow
<1>3. TypeOK'
    BY <1>1, <1>2 DEF IInv, TypeOK, InFlight
<1>4. RequestsFit'
  <2>1. ASSUME NEW q \in Requests
        PROVE  RequestFits(q)'
      BY <1>1, <1>2, OthersStillFit DEF IInv
  <2> QED BY <2>1 DEF RequestsFit
<1>5. AtMostOneActiveInstruction'
    BY <1>1 DEF IInv, AtMostOneActiveInstruction
<1>6. InstructionIsBacked' /\ StatusIsAnnounced'
  <2>1. ASSUME NEW i \in Requests, instruction[i] # None
        PROVE  /\ WasReady(instruction[i].escrow)'
               /\ ListsItsEvents(i, instruction[i])'
               /\ TellsItsStatus(instruction[i])'
      BY <1>1, <1>2, <2>1, RowsStillFit DEF IInv
  <2> QED BY <1>1, <2>1 DEF InstructionIsBacked, StatusIsAnnounced
<1> QED BY <1>2, <1>3, <1>4, <1>5, <1>6 DEF IInv

-----------------------------------------------------------------------------
\* The inductive invariant holds in every state, whatever the escrow module,
\* racing requests, failing queries and crashes do.
THEOREM InvariantHolds == Spec => []IInv
<1>1. Init => IInv
  <2> SUFFICES ASSUME Init PROVE IInv
      OBVIOUS
  <2>1. log = [e \in Ids |-> None] /\ head = [x \in Ids |-> None]
      BY DEF Init, Escrows!HistoryInit
  <2>2. TypeOK
      BY <2>1 DEF Init, TypeOK, InFlight, InFlightSteps
  <2>3. AtMostOneActiveInstruction /\ InstructionIsBacked /\ StatusIsAnnounced
      BY DEF Init, AtMostOneActiveInstruction, InstructionIsBacked, StatusIsAnnounced
  <2>4. HeadStandsAtEvent
      BY <2>1 DEF HeadStandsAtEvent
  <2>5. RequestsFit
      BY DEF Init, RequestsFit, RequestFits, InFlight, InFlightSteps
  <2> QED BY <2>2, <2>3, <2>4, <2>5 DEF IInv
<1>2. IInv /\ [Next]_vars => IInv'
  <2> SUFFICES ASSUME IInv, [Next]_vars PROVE IInv'
      OBVIOUS
  <2>1. CASE UNCHANGED vars
    <3>1. TypeOK' /\ UNCHANGED <<escrowVars, instruction, settlement, pc, job>>
        BY <2>1 DEF IInv, TypeOK, InFlight, vars, escrowVars
    <3> QED BY <3>1, QuietStep
  <2>2. ASSUME NEW r \in Requests, Arrive(r) \/ Step(r) \/ QueryFails(r)
        PROVE  IInv'
      BY <2>2, CreateKeeps, ReconcileKeeps, FindActiveKeeps, RecordKeeps, SaveKeeps,
         QueryFailsKeeps DEF Arrive, Step
  <2> QED BY <2>1, <2>2, CrashKeeps, EscrowStepKeeps DEF Next
<1> QED BY <1>1, <1>2, PTL DEF Spec

\* Whatever creations and reconciliations race, an escrow never has two active
\* payment instructions.
THEOREM OneActiveInstruction == Spec => []AtMostOneActiveInstruction
<1>1. IInv => AtMostOneActiveInstruction
    BY DEF IInv
<1> QED BY <1>1, InvariantHolds, PTL

\* Every payment instruction is for an escrow whose trail holds an approval.
THEOREM InstructionsAreBacked == Spec => []InstructionIsBacked
<1>1. IInv => InstructionIsBacked
    BY DEF IInv
<1> QED BY <1>1, InvariantHolds, PTL

\* The status of an instruction is the one its last listed event announced.
THEOREM StatusesAreAnnounced == Spec => []StatusIsAnnounced
<1>1. IInv => StatusIsAnnounced
    BY DEF IInv
<1> QED BY <1>1, InvariantHolds, PTL

\* Types, and local state exactly for the requests in flight.
THEOREM TypeCorrect == Spec => []TypeOK
<1>1. IInv => TypeOK
    BY DEF IInv
<1> QED BY <1>1, InvariantHolds, PTL
=============================================================================
