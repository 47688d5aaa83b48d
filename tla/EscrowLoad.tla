----------------------------- MODULE EscrowLoad -----------------------------
(***************************************************************************)
(* EscrowWorkflow under a load chosen once for the behaviour: the clients  *)
(* together have so many requests in flight.  With one, each waits for the *)
(* answer to the request before.                                           *)
(***************************************************************************)
EXTENDS EscrowWorkflow

VARIABLE limit

LoadInit == Init /\ limit \in {1, MaxInFlight}

LoadNext ==
    /\ Next
    /\ Cardinality({r \in Requests : InFlight(r)'}) <= limit
    /\ UNCHANGED limit

LoadSpec == LoadInit /\ [][LoadNext]_<<vars, limit>>

\* Handled one at a time, requests fork the trail of an escrow only after a
\* request that failed between recording its event and updating the row.
SerialForksComeFromFailures == limit = 1 => ForksComeFromFailures
=============================================================================
