--------------------------- MODULE ConnectionPool ---------------------------
(***************************************************************************)
(* The database as a handler meets it through pg's Pool.  Each query takes *)
(* a connection and gives it back when it is answered, BEGIN, COMMIT and   *)
(* ROLLBACK included.  The pool hands out the connection freed last, and   *)
(* queues requests when none is free.  A handler therefore keeps the same  *)
(* connection from query to query as long as no request waits for one, and *)
(* a transaction it opens is a transaction of its own only then.           *)
(*                                                                         *)
(* A transaction keeps its writes until COMMIT and others wait for a unique*)
(* entry it has taken (READ COMMITTED; reads do not wait).                 *)
(*                                                                         *)
(* The pool closes a connection on which a query failed, whatever the      *)
(* error, and one that stays idle for idleTimeoutMillis; the server rolls  *)
(* back what was open on it.  A connection is a place in the pool: once    *)
(* closed, it is the last one taken, and then opened anew.                 *)
(***************************************************************************)
EXTENDS Naturals, Sequences, FiniteSets, Relation

CONSTANTS
    RequestBound,   \* requests in a behaviour (a bound)
    Seeded,         \* those handled before it starts
    MaxInFlight,    \* requests handled at the same time (a bound)
    MaxConnections, \* size of the pool (a bound; pg's default is 10)
    Faults,         \* which faults happen: "connection", "crash"
    None

Requests == 1..RequestBound
Connections == 1..MaxConnections

ASSUME PoolAssumption ==
    /\ RequestBound \in Nat
    /\ Seeded \in 0..RequestBound
    /\ MaxInFlight \in Nat \ {0}
    /\ MaxConnections \in Nat \ {0}
    /\ Faults \subseteq {"connection", "crash"}
    /\ None \notin Connections

VARIABLES
    limit,      \* how many requests this behaviour handles at a time
    size,       \* how many connections its pool opens
    db,         \* the committed rows, by key
    tx,         \* the transaction open on each connection
    idle,       \* places free: those closed, then the connection freed last
    queue,      \* requests that wait for a connection
    held,       \* the connection that runs the query of a request, or None
    pc,         \* the query the handler of each request awaits
    job         \* its local variables

poolVars == <<limit, size, db, tx, idle, queue, held, pc, job>>

Saturable == limit > size

Ended == {"done", "refused", "failed"}

InFlight(r) == pc[r] \notin Ended \union {"idle"}

\* The rows of f, and those of g that f does not have.
Over(f, g) == [k \in DOMAIN f \union DOMAIN g |-> IF k \in DOMAIN f THEN f[k] ELSE g[k]]

NoTransaction == [ writes |-> <<>>, open |-> FALSE ]

PoolInit ==
    /\ limit \in 1..MaxInFlight
    /\ size \in 1..MaxConnections
    /\ tx = [c \in Connections |-> NoTransaction]
    /\ idle = [i \in 1..size |-> size + 1 - i]
    /\ queue = <<>>
    /\ held = [r \in Requests |-> None]
    /\ pc = [r \in Requests |-> IF r <= Seeded THEN "done" ELSE "idle"]

-----------------------------------------------------------------------------
(* Connections change hands.                                               *)

\* The first query of a new request takes the connection freed last, or waits.
Arrive(r, step, j) ==
    /\ pc[r] = "idle"
    /\ \A q \in Requests : q < r => pc[q] # "idle"
    /\ Cardinality({q \in Requests : InFlight(q)}) < limit
    /\ pc' = [pc EXCEPT ![r] = step]
    /\ job' = [job EXCEPT ![r] = j]
    /\ IF idle = <<>>
       THEN /\ queue' = Append(queue, r)
            /\ UNCHANGED <<held, idle>>
       ELSE /\ held' = [held EXCEPT ![r] = idle[Len(idle)]]
            /\ idle' = SubSeq(idle, 1, Len(idle) - 1)
            /\ UNCHANGED queue
    /\ UNCHANGED <<limit, size, db, tx>>

\* The query of r is answered and r has another one: the request that waits
\* longest gets the connection; if none waits, r has it again.
Continue(r, step, j) ==
    /\ pc' = [pc EXCEPT ![r] = step]
    /\ job' = [job EXCEPT ![r] = j]
    /\ IF queue = <<>>
       THEN UNCHANGED <<held, queue>>
       ELSE /\ held' = [held EXCEPT ![r] = None, ![Head(queue)] = held[r]]
            /\ queue' = Append(Tail(queue), r)
    /\ UNCHANGED <<limit, size, idle>>

\* The query of r was its last.
Answer(r, how) ==
    /\ pc' = [pc EXCEPT ![r] = how]
    /\ IF queue = <<>>
       THEN /\ held' = [held EXCEPT ![r] = None]
            /\ idle' = Append(idle, held[r])
            /\ UNCHANGED queue
       ELSE /\ held' = [held EXCEPT ![r] = None, ![Head(queue)] = held[r]]
            /\ queue' = Tail(queue)
            /\ UNCHANGED idle
    /\ UNCHANGED <<limit, size, job>>

\* A query of r failed, and the next one needs another connection: an idle
\* one, or else the place of the closed one.  A request that waits may have
\* that place before r.
ContinueAnew(r, step, j) ==
    \/ /\ queue # <<>>
       /\ Continue(r, step, j)
    \/ LET places == <<held[r]>> \o idle
       IN  /\ pc' = [pc EXCEPT ![r] = step]
           /\ job' = [job EXCEPT ![r] = j]
           /\ held' = [held EXCEPT ![r] = places[Len(places)]]
           /\ idle' = SubSeq(places, 1, Len(places) - 1)
           /\ UNCHANGED <<limit, size, queue>>

\* The failed query of r was its last.
AnswerFailed(r) ==
    \/ /\ queue # <<>>
       /\ Answer(r, "failed")
    \/ /\ queue = <<>>
       /\ pc' = [pc EXCEPT ![r] = "failed"]
       /\ held' = [held EXCEPT ![r] = None]
       /\ idle' = <<held[r]>> \o idle
       /\ UNCHANGED <<limit, size, queue, job>>

-----------------------------------------------------------------------------
(* What statements do to the database.                                     *)

View(c) == Over(tx[c].writes, db)

\* r has the connection its query runs on.
Runs(r, step) ==
    /\ pc[r] = step
    /\ held[r] # None

Reads == UNCHANGED <<db, tx>>

Write(c, rows) ==
    IF tx[c].open
    THEN /\ tx' = [tx EXCEPT ![c].writes = Over(rows, @)]
         /\ UNCHANGED db
    ELSE /\ db' = Over(rows, db)
         /\ UNCHANGED tx

\* The server rolls back what a closed or broken connection had open.
Closes(c) == tx' = [tx EXCEPT ![c] = NoTransaction]

\* A statement fails, and its connection is closed.
Fails(c) ==
    /\ Closes(c)
    /\ UNCHANGED db

\* Fault: BEGIN is left out.
BeginNothing(c) == Reads

\* BEGIN inside a transaction only warns.
Begin(c) ==
    /\ tx' = [tx EXCEPT ![c].open = TRUE]
    /\ UNCHANGED db

\* COMMIT and ROLLBACK outside a transaction only warn.
Commit(c) ==
    /\ db' = Over(tx[c].writes, db)
    /\ tx' = [tx EXCEPT ![c] = NoTransaction]

Rollback(c) ==
    /\ tx' = [tx EXCEPT ![c] = NoTransaction]
    /\ UNCHANGED db

\* The unique entries and rows the open transaction on c holds on to, where
\* Claims(k, v) are those of the row v with key k.
Locks(c, Claims(_, _)) ==
    UNION { Claims(k, tx[c].writes[k]) \union
                (IF k \in DOMAIN db THEN Claims(k, db[k]) ELSE {}) :
            k \in DOMAIN tx[c].writes }

\* The transactions a write on c that needs these entries waits for.
Blockers(c, needs, Claims(_, _)) ==
    {d \in Connections \ {c} : Locks(d, Claims) \intersect needs # {}}

-----------------------------------------------------------------------------
(* Timeouts and faults.                                                    *)

\* idleTimeoutMillis: nobody has used a connection for a while, though a
\* transaction may have been left open on it.
IdleConnectionCloses ==
    \E i \in 1..Len(idle) :
        /\ Closes(idle[i])
        /\ idle' = <<idle[i]>> \o SubSeq(idle, 1, i - 1) \o SubSeq(idle, i + 1, Len(idle))
        /\ UNCHANGED <<limit, size, db, queue, held, pc, job>>

\* The process stops; the server rolls back, and a new process takes new
\* connections.
Crash ==
    /\ "crash" \in Faults
    /\ \E r \in Requests : InFlight(r)
    /\ pc' = [r \in Requests |-> IF InFlight(r) THEN "failed" ELSE pc[r]]
    /\ held' = [r \in Requests |-> None]
    /\ tx' = [c \in Connections |-> NoTransaction]
    /\ idle' = [i \in 1..size |-> size + 1 - i]
    /\ queue' = <<>>
    /\ UNCHANGED <<limit, size, db, job>>
=============================================================================
