--------------------------- MODULE ExportBundles ---------------------------
(***************************************************************************)
(* Export bundles for auditors: a bundle is collected, saved, anchored on  *)
(* the ledger and saved again with its proof; later it is signed, by a key *)
(* that lives in the memory of the server process.  The audit-anchor       *)
(* chaincode keeps one hash per event, for ever.                           *)
(*                                                                         *)
(* What a bundle collects is left out: its hash stands for it.  A client   *)
(* knows the id of a bundle from the answer that created it.               *)
(***************************************************************************)
EXTENDS RequestHandling

\* The event a bundle is anchored as has the bundle's id, its payload hash is
\* the bundle's.
Hash == [ bundle : Requests ]

AnchorStatus == {"anchored", "failed"}

\* by is the request that signed, key the process that did.
Signature == [ hash : Hash, key : Nat, by : Requests ]

Bundle ==
    [ hash : Hash, proof : AnchorStatus \union {None},
      signature : Signature \union {None} ]

ASSUME ExportAssumption ==
    None \notin Requests \union Hash \union AnchorStatus \union Signature \union Bundle

VARIABLES
    bundles,        \* export_bundles: the bundle request r created, or None
    ledger,         \* the payload hash anchored for the event of bundle r, or None
    metadata,       \* blockchain_anchor_metadata: the status for that event, or None
    signingKey      \* the key pair of the running process

exportVars == <<bundles, ledger, metadata, signingKey>>

ExportInit ==
    /\ bundles = [r \in Requests |-> None]
    /\ ledger = [r \in Requests |-> None]
    /\ metadata = [r \in Requests |-> None]
    /\ signingKey = 0

-----------------------------------------------------------------------------
(* Chaincode                                                               *)

\* anchorEvent refuses an event that is anchored.
Anchored(e, h) == IF ledger[e] = None THEN [ledger EXCEPT ![e] = h] ELSE ledger

VerifyEvent(e, h) ==
    IF ledger[e] = None THEN "notFound" ELSE IF ledger[e] = h THEN "verified" ELSE "mismatch"

-----------------------------------------------------------------------------
(* Creation                                                                *)

NewBundle(r) ==
    [ hash |-> [ bundle |-> r ], proof |-> None, signature |-> None ]

\* Up to the last of the lists the bundle is collected from.
CreateExportBundle(r) ==
    /\ NextToArrive(r)
    /\ Await(r, "saveBundle", NewBundle(r))
    /\ UNCHANGED exportVars

\* The saves are of the whole row.
Write(b, row) ==
    /\ bundles' = [bundles EXCEPT ![b] = row]
    /\ UNCHANGED <<ledger, metadata, signingKey>>

\* Fault: the bundle is saved once, with its proof.
AnchorUnsaved(r) ==
    /\ pc[r] = "saveBundle"
    /\ Await(r, "anchor", job[r])
    /\ UNCHANGED exportVars

SaveBundle(r) ==
    /\ pc[r] = "saveBundle"
    /\ Write(r, job[r])
    /\ Await(r, "anchor", job[r])

\* The gateway reports a failure when the transaction failed and when its
\* answer is lost.
SubmitAnchor(r) ==
    /\ pc[r] = "anchor"
    /\ \/ /\ ledger[r] = None
          /\ ledger' = Anchored(r, job[r].hash)
          /\ Await(r, "saveMetadata", [job[r] EXCEPT !.proof = "anchored"])
       \/ /\ ledger' \in {ledger, Anchored(r, job[r].hash)}
          /\ Await(r, "saveMetadata", [job[r] EXCEPT !.proof = "failed"])
    /\ UNCHANGED <<bundles, metadata, signingKey>>

\* A status that cannot be saved becomes a failure; if that cannot be saved
\* either, the bundle stays without a proof.
SaveAnchorStatus(r) ==
    /\ pc[r] \in {"saveMetadata", "saveFailedMetadata"}
    /\ metadata' = [metadata EXCEPT ![r] = job[r].proof]
    /\ Await(r, "saveProof", job[r])
    /\ UNCHANGED <<bundles, ledger, signingKey>>

Caught == {"saveMetadata", "saveFailedMetadata"}

StatusIsNotSaved(r) ==
    /\ "query" \in Faults
    /\ \/ /\ pc[r] = "saveMetadata"
          /\ Await(r, "saveFailedMetadata", [job[r] EXCEPT !.proof = "failed"])
       \/ /\ pc[r] = "saveFailedMetadata"
          /\ Answer(r, "done")
    /\ UNCHANGED exportVars

SaveProof(r) ==
    /\ pc[r] = "saveProof"
    /\ Write(r, job[r])
    /\ Answer(r, "done")

-----------------------------------------------------------------------------
(* Signing                                                                 *)

SignedBy(r, row) ==
    [row EXCEPT !.signature = [ hash |-> row.hash, key |-> signingKey, by |-> r ]]

\* signExportBundleManifest up to the answer of findById; the signature is
\* made before the next query.
SignManifest(r, b) ==
    /\ NextToArrive(r)
    /\ pc[b] = "done"
    /\ bundles[b] # None
    /\ Await(r, "saveSigned", SignedBy(r, bundles[b]))
    /\ UNCHANGED exportVars

SaveSigned(r) ==
    /\ pc[r] = "saveSigned"
    /\ Write(job[r].hash.bundle, job[r])
    /\ Answer(r, "done")

\* verifySignature with the public key of this process, of the manifest that
\* is stored.
VerifySignature(b) ==
    LET row == bundles[b]
    IN  IF row.signature.key = signingKey /\ row.signature.hash = row.hash
        THEN "verified"
        ELSE "invalid"

\* A new process has a new key pair.
Restart ==
    /\ signingKey' = signingKey + 1
    /\ UNCHANGED <<bundles, ledger, metadata>>

ExportStep(r) ==
    \/ CreateExportBundle(r)
    \/ SaveBundle(r)
    \/ SubmitAnchor(r)
    \/ SaveAnchorStatus(r)
    \/ StatusIsNotSaved(r)
    \/ SaveProof(r)
    \/ \E b \in Requests : SignManifest(r, b)
    \/ SaveSigned(r)

ExportNext ==
    \/ \E r \in Requests :
        \/ ExportStep(r)
        \/ pc[r] \notin Caught /\ QueryFails(r) /\ UNCHANGED exportVars
    \/ Crash /\ Restart

exportState == <<handling, exportVars>>

ExportSpec == HandlingInit /\ ExportInit /\ [][ExportNext]_exportState

-----------------------------------------------------------------------------
(* Properties                                                              *)

\* What an auditor is told of a bundle can be checked: a proof that says
\* anchored verifies on the ledger, with the hash of the bundle, and agrees
\* with the anchor metadata; a hash on the ledger is of a bundle that exists;
\* a signature verifies while the process that made it runs.
Checkable(b) ==
    /\ ledger[b] # None => bundles[b] # None
    /\ metadata[b] = "anchored" => VerifyEvent(b, bundles[b].hash) = "verified"
    /\ bundles[b] # None =>
        /\ bundles[b].proof # None => metadata[b] = bundles[b].proof
        /\ bundles[b].signature # None =>
            (VerifySignature(b) = "verified" <=> bundles[b].signature.key = signingKey)

\* A hash that was anchored stays, and so do the content and the proof of a
\* bundle; when requests are handled one at a time, a signature gives way to
\* a later one only.
Kept(b) ==
    /\ ledger[b] # None => ledger'[b] = ledger[b]
    /\ bundles[b] # None =>
        /\ bundles'[b].hash = bundles[b].hash
        /\ bundles[b].proof # None => bundles'[b].proof = bundles[b].proof
        /\ limit = 1 /\ bundles[b].signature # None =>
            bundles'[b].signature.by >= bundles[b].signature.by

\* Whatever overlaps, fails or restarts, every step leads to bundles that can
\* be checked and keeps what was there.
BundlesStayCheckable == [][\A b \in Requests : Checkable(b)' /\ Kept(b)]_exportVars
=============================================================================
