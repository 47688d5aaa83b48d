---------------------------- MODULE MCEscrowLoad ----------------------------
(***************************************************************************)
(* Small instances of EscrowLoad.                                          *)
(***************************************************************************)
EXTENDS EscrowLoad, MCEscrowWorkflow

\* A bound: requests that overlap name no accepted-order reference.
PlainCreations == \A r \in Requests : InFlight(r) => job[r].row.ref = "none"

MCLoadNext == LoadNext /\ (limit > 1 => PlainCreations')

MCLoadSpec == LoadInit /\ [][MCLoadNext]_<<vars, limit>>
=============================================================================
