----------------------------- MODULE Deployment -----------------------------
(***************************************************************************)
(* Starting the backend on its database.  The container's start script     *)
(* runs the migrations, then the seed of the demo data, then the server,   *)
(* on every start, and goes on when one of the two fails.  An operator may *)
(* run the same two scripts by hand, as the runbook shows, at any moment.  *)
(*                                                                         *)
(* The rows the seed writes are rows in use: between two starts the server *)
(* moves them on.  They stand here for the rows of their kind.             *)
(***************************************************************************)
EXTENDS Naturals, FiniteSets, SequencesExt

LOCAL INSTANCE EscrowDomain

CONSTANTS
    Migrations,     \* how many migration files there are
    SeedNeeds,      \* the first so many create every table the seed writes
    MaxStarts,      \* runs of the two scripts in a behaviour (a bound)
    MaxMoves,       \* events the server inserts (a bound)
    Absent

Runners == {"container", "operator"}

\* What stands in the database of each kind of row, and the status the seed
\* gives it.
SeededAs ==
    [ organization |-> "active", account |-> "active", grant |-> "active", relationship |-> "active",
      client |-> "active", request |-> "sent", case |-> "submitted",
      anchor |-> "pending", pilotAnchor |-> "anchored", review |-> "approved", certificate |-> "active",
      contract |-> "approvedForActivation", order |-> "accepted",
      evidence |-> "metadataRecorded", escrow |-> "escrowCreated" ]

Kinds == DOMAIN SeededAs

\* What each of the demo organizations and of the demo accounts stands for.
DemoOrganizations == {"organization"}
DemoAccounts == {"account", "grant"}

\* The rows that name a lifecycle event.
Traced == {"order", "evidence", "escrow"}

\* The statuses of the seed and those the server's operations lead to.
StatusesInUse ==
    {SeededAs[k] : k \in Kinds} \union EscrowStatuses
        \union {"revoked", "accepted", "rejected", "approved", "flagged", "blocked"}

\* event is the place of the row's event in the trail of its kind, 0 for none.
RowInUse == [ status : StatusesInUse, event : Nat ]

Move == [ kind : Kinds, to : StatusesInUse, event : Nat, step : {"announce", "save"} ]

ASSUME DeploymentAssumption ==
    /\ Migrations \in Nat /\ MaxStarts \in Nat /\ MaxMoves \in Nat
    /\ SeedNeeds \in 0..Migrations
    /\ Absent \notin RowInUse \union Move

VARIABLES
    applied,    \* the files recorded in schema_migrations, with what they create
    script,     \* what each runner's process does
    at,         \* the file its migration run has come to
    rows,       \* rows[k]: the row in use, or Absent
    lifecycle,  \* lifecycle[k]: the statuses its lifecycle events announce
    handler,    \* the request that is moving a row, or Absent
    starts

deploymentVars == <<applied, script, at, rows, lifecycle, handler, starts>>

DeploymentInit ==
    /\ applied = {}
    /\ script = [c \in Runners |-> "off"]
    /\ at = [c \in Runners |-> 0]
    /\ rows = [k \in Kinds |-> Absent]
    /\ lifecycle = [k \in Kinds |-> << >>]
    /\ handler = Absent
    /\ starts = 0

\* What follows the scripts: the container serves, the operator is done.
AfterScripts(c) == IF c = "container" THEN "serving" ELSE "off"

Proceed(c, step) ==
    /\ script' = [script EXCEPT ![c] = step]
    /\ UNCHANGED <<handler, starts>>

-----------------------------------------------------------------------------
(* The start script, and the operator's commands.                          *)

StartScripts(c) ==
    /\ script[c] = "off"
    /\ starts < MaxStarts
    /\ starts' = starts + 1
    /\ script' = [script EXCEPT ![c] = "check"]
    /\ at' = [at EXCEPT ![c] = 1]
    /\ UNCHANGED <<applied, rows, lifecycle, handler>>

\* The SELECT for the next file.
CheckFile(c) ==
    /\ script[c] = "check"
    /\ IF at[c] > Migrations
       THEN Proceed(c, "seed") /\ UNCHANGED at
       ELSE IF at[c] \in applied
       THEN at' = [at EXCEPT ![c] = @ + 1] /\ UNCHANGED <<script, handler, starts>>
       ELSE Proceed(c, "apply") /\ UNCHANGED at
    /\ UNCHANGED <<applied, rows, lifecycle>>

\* Fault: a run goes on with the next file.
SkipFile(c) ==
    /\ script[c] = "apply"
    /\ at' = [at EXCEPT ![c] = @ + 1]
    /\ Proceed(c, "check")
    /\ UNCHANGED <<applied, rows, lifecycle>>

\* The file and its record are one transaction.  The files only create what
\* is missing; the record conflicts if another run has made it meanwhile.
ApplyFile(c) ==
    /\ script[c] = "apply"
    /\ at[c] \notin applied
    /\ applied' = applied \union {at[c]}
    /\ at' = [at EXCEPT ![c] = @ + 1]
    /\ Proceed(c, "check")
    /\ UNCHANGED <<rows, lifecycle>>

\* The transaction is rolled back and the run exits.  The container's script
\* goes on with the seed; the operator has to start again.
ApplyFails(c) ==
    /\ script[c] = "apply"
    /\ Proceed(c, IF c = "container" THEN "seed" ELSE "off")
    /\ UNCHANGED <<applied, at, rows, lifecycle>>

-----------------------------------------------------------------------------
(* The seed: one transaction of many statements.                           *)

\* INSERT ... ON CONFLICT DO UPDATE SET status.  Of the references to events
\* only the order's is set again.
Upsert(db, kinds) ==
    [ rows |-> [k \in Kinds |->
          IF k \notin kinds THEN db.rows[k]
          ELSE [ status |-> SeededAs[k],
                 event |-> IF k \in Traced
                           THEN IF db.rows[k] = Absent \/ k = "order" THEN 1 ELSE db.rows[k].event
                           ELSE 0 ]],
      lifecycle |-> db.lifecycle ]

\* Fault: events are upserted like rows, and start anew.
UpsertEvents(db, kinds) ==
    [ db EXCEPT !.lifecycle = [k \in Kinds |->
          IF k \in kinds THEN << SeededAs[k] >> ELSE db.lifecycle[k]] ]

\* INSERT of an event, ON CONFLICT DO NOTHING.
InsertEvents(db, kinds) ==
    [ rows |-> db.rows,
      lifecycle |-> [k \in Kinds |->
          IF k \in kinds /\ db.lifecycle[k] = << >> THEN << SeededAs[k] >> ELSE db.lifecycle[k]] ]

SeedOrganizations(db) == Upsert(db, DemoOrganizations)
SeedAccounts(db) == Upsert(db, DemoAccounts)
SeedRelationships(db) == Upsert(db, {"relationship"})
SeedRequests(db) == Upsert(db, {"request"})
SeedClients(db) == Upsert(db, {"client"})
SeedOnboarding(db) == Upsert(db, {"case"})
SeedShariah(db) == Upsert(db, {"review", "certificate"})
SeedFinancing(db) == Upsert(db, {"contract"})
SeedOrders(db) == Upsert(InsertEvents(db, {"order"}), {"order", "anchor"})
SeedEvidence(db) == Upsert(InsertEvents(db, {"evidence"}), {"anchor", "evidence"})
SeedEscrow(db) == Upsert(InsertEvents(db, {"escrow"}), {"anchor", "escrow"})
SeedPilotDeals(db) ==
    Upsert(InsertEvents(db, {"order", "evidence"}),
           {"order", "anchor", "pilotAnchor", "evidence"})

SeedAll(db) ==
    SeedPilotDeals(SeedEscrow(SeedEvidence(SeedOrders(SeedFinancing(SeedShariah(
        SeedOnboarding(SeedClients(SeedRequests(SeedRelationships(SeedAccounts(
            SeedOrganizations(db))))))))))))

\* A row is locked from its statement to the commit, so the commit counts.
RunSeed(c) ==
    /\ script[c] = "seed"
    /\ 1..SeedNeeds \subseteq applied
    /\ LET db == SeedAll([ rows |-> rows, lifecycle |-> lifecycle ])
       IN  rows' = db.rows /\ lifecycle' = db.lifecycle
    /\ Proceed(c, AfterScripts(c))
    /\ UNCHANGED <<applied, at>>

\* A table is missing, or a statement fails: all is rolled back.
SeedFails(c) ==
    /\ script[c] = "seed"
    /\ Proceed(c, AfterScripts(c))
    /\ UNCHANGED <<applied, at, rows, lifecycle>>

-----------------------------------------------------------------------------
(* The server, moving seeded rows on.                                      *)

\* The statuses the services' operations lead to.
LiveMoves(k, status) ==
    {to \in StatusesInUse :
        \/ k = "grant" /\ to \in {"active", "revoked"} \ {status}
        \/ k = "request" /\ status = "sent" /\ to \in {"accepted", "rejected"}
        \/ k = "case" /\ status = "submitted" /\ to \in {"approved", "rejected", "flagged", "blocked"}
        \/ k = "contract" /\ to = "active" /\ status # "active"
        \/ k = "escrow" /\ to \in EscrowStatuses /\ Supported(status, to)}

Moved ==
    Cardinality({e \in Kinds \X (2..MaxMoves + 1) : e[2] <= Len(lifecycle[e[1]])})

\* A handler reads the row and decides.
BeginMove(k, to) ==
    /\ script["container"] = "serving"
    /\ handler = Absent
    /\ k \in Traced => Moved < MaxMoves
    /\ handler' = [ kind |-> k, to |-> to, event |-> 0,
                    step |-> IF k \in Traced THEN "announce" ELSE "save" ]
    /\ UNCHANGED <<applied, script, at, rows, lifecycle, starts>>

\* An escrow's lifecycle event is inserted before its row is written.
AnnounceMove ==
    /\ handler # Absent
    /\ handler.step = "announce"
    /\ LET k == handler.kind
       IN  /\ lifecycle' = [lifecycle EXCEPT ![k] = Append(@, handler.to)]
           /\ handler' = [ kind |-> k, to |-> handler.to, event |-> Len(lifecycle[k]) + 1,
                          step |-> "save" ]
    /\ UNCHANGED <<applied, script, at, rows, starts>>

SaveMove ==
    /\ handler # Absent
    /\ handler.step = "save"
    /\ rows' = [rows EXCEPT ![handler.kind] =
           [ status |-> handler.to, event |-> handler.event ]]
    /\ handler' = Absent
    /\ UNCHANGED <<applied, script, at, lifecycle, starts>>

\* The container stops, in the middle of whatever it does; it is restarted
\* unless someone stopped it.
StopContainer ==
    /\ script["container"] # "off"
    /\ script' = [script EXCEPT !["container"] = "off"]
    /\ handler' = Absent
    /\ UNCHANGED <<applied, at, rows, lifecycle, starts>>

DeploymentStep ==
    \/ \E c \in Runners :
        StartScripts(c) \/ CheckFile(c) \/ ApplyFile(c) \/ ApplyFails(c) \/ RunSeed(c) \/ SeedFails(c)
    \/ \E k \in Kinds : rows[k] # Absent /\ \E to \in LiveMoves(k, rows[k].status) : BeginMove(k, to)
    \/ AnnounceMove
    \/ SaveMove
    \/ StopContainer

DeploymentSpec == DeploymentInit /\ [][DeploymentStep]_deploymentVars

-----------------------------------------------------------------------------
(* Properties.                                                             *)

(* However runs of the scripts overlap and fail, the files are applied in  *)
(* their order without a gap, the demo data is there whole or not at all,  *)
(* it is there only on the tables it needs, and every lifecycle event a    *)
(* row names is in the trail: migrate.ts, seed-demo-data.ts.                     *)
DatabaseIsWhole ==
    /\ applied = 1..Cardinality(applied)
    /\ \/ \A k \in Kinds : rows[k] = Absent /\ lifecycle[k] = << >>
       \/ /\ \A k \in Kinds : rows[k] # Absent
          /\ 1..SeedNeeds \subseteq applied
          /\ \A k \in Traced : rows[k].event \in 1..Len(lifecycle[k])

(* A restart may take back the status of an escrow, and does: the seed     *)
(* writes it again.  It takes back no event, and never the reference to    *)
(* one, so what the escrow announced before can still be told from its     *)
(* row: whatever runs, its status is the one of the event it names or the  *)
(* one of the seed.                                                        *)
HistoryOutlivesRestarts ==
    [][ /\ \A k \in Kinds : IsPrefix(lifecycle[k], lifecycle'[k])
        /\ rows["escrow"] # Absent =>
            /\ rows'["escrow"].event >= rows["escrow"].event
            /\ rows'["escrow"].status \in
                   {SeededAs["escrow"], lifecycle'["escrow"][rows'["escrow"].event]} ]_deploymentVars

(* "Escrow has reached terminal refund outcome", "Escrow has reached       *)
(* terminal cancelled state": ESCROW_WORKFLOW_CONTRACT.md:94-95.  A        *)
(* restart of the container makes a refunded escrow escrowCreated.         *)
TerminalEscrowStays ==
    [][ rows["escrow"] # Absent =>
            (rows["escrow"].status \in {"refunded", "cancelled"} => rows'["escrow"] = rows["escrow"])
      ]_deploymentVars
=============================================================================
