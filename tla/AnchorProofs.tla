---------------------------- MODULE AnchorProofs ----------------------------
(***************************************************************************)
(* Anchoring of recorded lifecycle events, and the proofs of it that       *)
(* auditors ask for.  The gateway is chosen from the environment when the  *)
(* server starts; the in-memory one forgets with its process what the      *)
(* metadata table remembers.  A transaction whose answer is lost may be    *)
(* committed later.                                                        *)
(*                                                                         *)
(* An event is the request that recorded it.  Its trail shows a bare hash, *)
(* the ledger has it with a prefix.  The seeded events are those of the    *)
(* demonstration data: the seed script writes metadata rows for some, with *)
(* a chaincode and one of them 'anchored', and submits none of them; their *)
(* hashes are written with the prefix and are no sha256 digests.  A start  *)
(* that seeds again writes the same rows.                                  *)
(***************************************************************************)
EXTENDS RequestHandling

CONSTANTS
    Environments,   \* what a server may be started with
    MaxRestarts     \* starts after the first (a bound)

AllowedAdapters == {"disabled", "in-memory", "fabric-local", "fabric"}

\* prefixed is as the ledger has it.
EventHash == [ of : Requests, prefixed : BOOLEAN ]

\* complete: the five Fabric variables are set; valid: the files they name give
\* a peer, an identity and a certificate.
ASSUME AnchorAssumption ==
    /\ None \notin Requests \union EventHash
    /\ \A env \in Environments : {env.complete, env.valid} \subseteq BOOLEAN
    /\ MaxRestarts \in Nat

ProofRoles == {"auditor", "regulator", "securityOperator"}

VARIABLES
    started,        \* the environment of the running process
    restarts,
    remembered,     \* in memory: the hash anchored for each event, or None
    world,          \* the ledger's: the hash anchored for each event, or None
    ordered,        \* transactions without an answer that may be committed yet
    proofRows,      \* blockchain_anchor_metadata: [status, chaincode], or None
    shownProofs     \* the answer to each request for a proof, or None

Recorded(e) == e > Seeded

SeededRow == [ status : {"pending", "anchored"}, chaincode : {TRUE} ]

anchorVars == <<started, restarts, remembered, world, ordered, proofRows, shownProofs>>

AnchorInit ==
    /\ started \in Environments
    /\ restarts = 0
    /\ remembered = [e \in Requests |-> None]
    /\ world = [e \in Requests |-> None]
    /\ ordered = {}
    /\ proofRows \in [Requests -> SeededRow \union {None}]
    /\ \A e \in Requests : Recorded(e) => proofRows[e] = None
    /\ shownProofs = [r \in Requests |-> None]

-----------------------------------------------------------------------------
(* The gateway of a process.                                               *)

ConfiguredAdapter(env) == IF env.adapter \in AllowedAdapters THEN env.adapter ELSE "disabled"

FabricGateway(env) == env.valid

\* Fault: a Fabric that cannot be reached is simulated.
SimulatedGateway(env) ==
    LET adapter == ConfiguredAdapter(env)
    IN  IF adapter \in {"in-memory", "disabled"} THEN [ kind |-> adapter, chaincode |-> FALSE ]
        ELSE [ kind |-> IF env.complete /\ FabricGateway(env) THEN "fabric" ELSE "in-memory",
               chaincode |-> TRUE ]

\* chaincode: its results name a chaincode.
RuntimeGateway(env) ==
    LET adapter == ConfiguredAdapter(env)
    IN  IF adapter \in {"in-memory", "disabled"} THEN [ kind |-> adapter, chaincode |-> FALSE ]
        ELSE [ kind |-> IF env.complete /\ FabricGateway(env) THEN "fabric" ELSE "unavailable",
               chaincode |-> TRUE ]

AnchorReadiness(env) ==
    LET adapter == ConfiguredAdapter(env)
        reached == env.complete /\ FabricGateway(env)
    IN  CASE adapter = "in-memory" -> [ available |-> TRUE, simulated |-> TRUE ]
          [] adapter = "disabled" -> [ available |-> FALSE, simulated |-> FALSE ]
          [] OTHER -> [ available |-> reached, simulated |-> FALSE ]

NewProcess ==
    /\ restarts < MaxRestarts
    /\ started' \in Environments
    /\ restarts' = restarts + 1
    /\ remembered' = [e \in Requests |-> None]
    /\ UNCHANGED <<world, ordered, proofRows, shownProofs>>

-----------------------------------------------------------------------------
(* Anchoring                                                               *)

ToBlockchainHash(h) == [ of |-> h.of, prefixed |-> TRUE ]

\* The hash of an event is its own: it covers the times and the request.
PayloadHash(e) == [ of |-> e, prefixed |-> ~Recorded(e) ]

\* Up to the answer of the INSERT of the event.
RecordLifecycleEvent(r) ==
    /\ NextToArrive(r)
    /\ Await(r, "anchorEvent", [ event |-> r, hash |-> ToBlockchainHash(PayloadHash(r)) ])
    /\ UNCHANGED anchorVars

Outcome(r, status) ==
    Await(r, "saveAnchor",
          [ event |-> r, row |-> [ status |-> status, chaincode |-> RuntimeGateway(started).chaincode ] ])

\* The chaincode refuses an event that is anchored.
Committed(e, h) == IF world[e] = None THEN [world EXCEPT ![e] = h] ELSE world

AnchorInMemory(r) ==
    /\ pc[r] = "anchorEvent"
    /\ RuntimeGateway(started).kind = "in-memory"
    /\ Outcome(r, IF remembered[r] = None THEN "anchored" ELSE "failed")
    /\ remembered' = [remembered EXCEPT ![r] = IF @ = None THEN job[r].hash ELSE @]
    /\ UNCHANGED <<started, restarts, world, ordered, proofRows, shownProofs>>

NotAnchored(r) ==
    /\ pc[r] = "anchorEvent"
    /\ RuntimeGateway(started).kind \in {"disabled", "unavailable"}
    /\ Outcome(r, "failed")
    /\ UNCHANGED anchorVars

\* Whatever goes wrong is the same failure to the caller.
SubmitTransaction(r) ==
    /\ pc[r] = "anchorEvent"
    /\ RuntimeGateway(started).kind = "fabric"
    /\ \/ /\ world[r] = None
          /\ world' = Committed(r, job[r].hash)
          /\ Outcome(r, "anchored")
          /\ UNCHANGED ordered
       \/ /\ ordered' \in {ordered, ordered \union {r}}
          /\ Outcome(r, "failed")
          /\ UNCHANGED world
    /\ UNCHANGED <<started, restarts, remembered, proofRows, shownProofs>>

CommitsLate(e) ==
    /\ e \in ordered
    /\ world' = Committed(e, ToBlockchainHash(PayloadHash(e)))
    /\ ordered' = ordered \ {e}
    /\ UNCHANGED <<started, restarts, remembered, proofRows, shownProofs>>

\* An upsert.  Its failure is not caught where the promise is returned.
SaveAnchor(r) ==
    /\ pc[r] = "saveAnchor"
    /\ proofRows' = [proofRows EXCEPT ![r] = job[r].row]
    /\ Answer(r, "done")
    /\ UNCHANGED <<started, restarts, remembered, world, ordered, shownProofs>>

-----------------------------------------------------------------------------
(* Proofs                                                                  *)

OnLedger(row) == row # None /\ row.status = "anchored" /\ row.chaincode

GetAnchorProof(r, role, e) ==
    /\ NextToArrive(r)
    /\ IF role \in ProofRoles THEN Await(r, "findProof", [ event |-> e ]) ELSE Answer(r, "refused")
    /\ UNCHANGED anchorVars

FindProof(r) ==
    /\ pc[r] = "findProof"
    /\ LET row == proofRows[job[r].event]
       IN  shownProofs' = [shownProofs EXCEPT ![r] =
               [ event |-> job[r].event, hash |-> None, by |-> "metadata", known |-> FALSE,
                 verdict |-> IF row = None THEN "notAnchored" ELSE row.status,
                 simulated |-> row # None /\ ~row.chaincode ]]
    /\ Answer(r, "done")
    /\ UNCHANGED <<started, restarts, remembered, world, ordered, proofRows>>

\* The hash is sent as the auditor has it; known is for the properties.
VerifyProof(r, role, e, h) ==
    /\ NextToArrive(r)
    /\ IF role \in ProofRoles
       THEN Await(r, "verifyEvent", [ event |-> e, hash |-> h, known |-> OnLedger(proofRows[e]) ])
       ELSE Answer(r, "refused")
    /\ UNCHANGED anchorVars

\* Compared as stored, prefix and all.
Verdict(stored, h) ==
    IF stored = None THEN "notFound" ELSE IF stored = h THEN "verified" ELSE "mismatch"

\* The chaincode refuses what is not sha256:<64 hex>; the gateway may not reach it.
FabricVerdicts(e, h) ==
    {"unavailable"} \union
        (IF h.prefixed /\ Recorded(h.of) THEN {Verdict(world[e], h)} ELSE {})

Verdicts(e, h) ==
    CASE RuntimeGateway(started).kind = "in-memory" -> {Verdict(remembered[e], h)}
      [] RuntimeGateway(started).kind = "fabric" -> FabricVerdicts(e, h)
      [] OTHER -> {"unavailable"}

EvaluateVerify(r) ==
    /\ pc[r] = "verifyEvent"
    /\ \E verdict \in Verdicts(job[r].event, job[r].hash) :
           shownProofs' = [shownProofs EXCEPT ![r] =
               [ event |-> job[r].event, hash |-> job[r].hash, by |-> RuntimeGateway(started).kind,
                 known |-> job[r].known, verdict |-> verdict,
                 simulated |-> AnchorReadiness(started).simulated ]]
    /\ Answer(r, "done")
    /\ UNCHANGED <<started, restarts, remembered, world, ordered, proofRows>>

\* What an auditor can have read in the trail.
Earlier(r) == {e \in Requests : e < r}

AnchorStep(r) ==
    \/ RecordLifecycleEvent(r)
    \/ AnchorInMemory(r)
    \/ NotAnchored(r)
    \/ SubmitTransaction(r)
    \/ SaveAnchor(r)
    \/ \E role \in {"auditor", "buyer"}, e \in Earlier(r) :
        \/ GetAnchorProof(r, role, e)
        \/ \E of \in Earlier(r) :
            \E h \in {PayloadHash(of), ToBlockchainHash(PayloadHash(of))} :
               VerifyProof(r, role, e, h)
    \/ FindProof(r)
    \/ EvaluateVerify(r)

\* A new process follows a crash, or a stop when no request is in flight.
AnchorNext ==
    \/ \E r \in Requests :
        \/ AnchorStep(r)
        \/ QueryFails(r) /\ UNCHANGED anchorVars
    \/ Crash /\ NewProcess
    \/ /\ \/ \E e \in Requests : CommitsLate(e)
          \/ ~(\E r \in Requests : InFlight(r)) /\ NewProcess
       /\ UNCHANGED handling

anchorState == <<handling, anchorVars>>

AnchorSpec == HandlingInit /\ AnchorInit /\ [][AnchorNext]_anchorState

-----------------------------------------------------------------------------
(* Properties                                                              *)

\* Whatever processes come and go, and however late the ledger commits, an
\* auditor is told what is so.  "verified" is said of the event's own hash and,
\* when it was not simulated, of an event the ledger holds; "mismatch" never of
\* the hash with its prefix.  Of an event the server recorded: one whose row says
\* it is on the ledger is there, and the ledger never answers that it does not
\* know it.  The rows of the demonstration data are not covered by this: one is
\* 'anchored' though nothing was submitted.
ProofsAreTold ==
    /\ \A e \in Requests : Recorded(e) /\ OnLedger(proofRows[e]) => world[e] # None
    /\ \A r \in Requests : shownProofs[r] # None =>
           LET t == shownProofs[r]
               own == ToBlockchainHash(PayloadHash(t.event))
           IN  /\ t.verdict = "verified" =>
                      /\ t.hash = own
                      /\ ~t.simulated => world[t.event] = own
               /\ t.verdict = "mismatch" => t.hash # own
               /\ Recorded(t.event) =>
                      /\ t.verdict = "notFound" => ~(t.known /\ t.by = "fabric")
                      /\ t.verdict = "anchored" /\ ~t.simulated => world[t.event] = own
=============================================================================
