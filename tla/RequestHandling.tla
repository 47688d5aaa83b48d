-------------------------- MODULE RequestHandling --------------------------
(***************************************************************************)
(* How the server handles requests, for the modules of the services.  A    *)
(* handler is a sequence of queries, each an autocommitted statement; a    *)
(* step of a model ends with the answer of one query.  Between two steps   *)
(* of a handler, steps of other handlers may happen.                       *)
(*                                                                         *)
(* A request is its number, in order of arrival, and a row it inserts has  *)
(* the number as its identity.  Behaviours start after the requests        *)
(* 1..Seeded, which stand for the seed script.  limit is how many requests *)
(* this behaviour handles at a time: a property of serial handling states  *)
(* limit = 1.                                                              *)
(***************************************************************************)
EXTENDS Naturals, FiniteSets

CONSTANTS
    RequestBound,   \* requests in a behaviour (a bound)
    Seeded,         \* those handled before it starts
    MaxInFlight,    \* requests handled at the same time (a bound)
    Faults,         \* which faults happen: "query", "crash"
    None

Requests == 1..RequestBound

ASSUME HandlingAssumption ==
    /\ RequestBound \in Nat
    /\ Seeded \in 0..RequestBound
    /\ MaxInFlight \in Nat \ {0}
    /\ Faults \subseteq {"query", "crash"}

VARIABLES
    limit,
    pc,         \* the query the handler of each request awaits
    job,        \* its local variables while it runs, or None
    trail,      \* requests with a success event in access_audit_events
    refusals    \* the outcome of each request's refusal event there, or None

handling == <<limit, pc, job, trail, refusals>>

Refusals == {"forbidden", "conflict", "notFound", "validationError"}

HandlingInit ==
    /\ limit \in 1..MaxInFlight
    /\ pc = [r \in Requests |-> IF r <= Seeded THEN "done" ELSE "idle"]
    /\ job = [r \in Requests |-> None]
    /\ trail = 1..Seeded
    /\ refusals = [r \in Requests |-> None]

InFlight(r) == pc[r] \notin {"idle", "done", "refused", "failed"}

NextToArrive(r) ==
    /\ pc[r] = "idle"
    /\ \A q \in Requests : q < r => pc[q] # "idle"
    /\ Cardinality({q \in Requests : InFlight(q)}) < limit

\* The handler's next query, and the local variables it keeps until then.
Await(r, step, j) ==
    /\ pc' = [pc EXCEPT ![r] = step]
    /\ job' = [job EXCEPT ![r] = j]
    /\ UNCHANGED <<limit, trail, refusals>>

Answer(r, how) ==
    /\ pc' = [pc EXCEPT ![r] = how]
    /\ job' = [job EXCEPT ![r] = None]
    /\ UNCHANGED <<limit, trail, refusals>>

\* recordAccessAuditEvent after a write: the last query before the answer.
RecordAccess(r) ==
    /\ pc[r] = "recordAccess"
    /\ trail' = trail \union {r}
    /\ pc' = [pc EXCEPT ![r] = "done"]
    /\ job' = [job EXCEPT ![r] = None]
    /\ UNCHANGED <<limit, refusals>>

\* A route that audits its refusals inserts the event, then answers.
Refuse(r, outcome) == Await(r, "recordRefusal", [ outcome |-> outcome ])

RecordRefusal(r) ==
    /\ pc[r] = "recordRefusal"
    /\ refusals' = [refusals EXCEPT ![r] = job[r].outcome]
    /\ pc' = [pc EXCEPT ![r] = "refused"]
    /\ job' = [job EXCEPT ![r] = None]
    /\ UNCHANGED <<limit, trail>>

\* The query the handler awaits fails; the client gets a 500.
QueryFails(r) ==
    /\ "query" \in Faults
    /\ InFlight(r)
    /\ Answer(r, "failed")

\* The process stops: no handler continues.
Crash ==
    /\ "crash" \in Faults
    /\ \E r \in Requests : InFlight(r)
    /\ pc' = [r \in Requests |-> IF InFlight(r) THEN "failed" ELSE pc[r]]
    /\ job' = [r \in Requests |-> None]
    /\ UNCHANGED <<limit, trail, refusals>>
=============================================================================
