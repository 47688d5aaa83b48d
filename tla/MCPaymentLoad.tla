--------------------------- MODULE MCPaymentLoad ---------------------------
(***************************************************************************)
(* Instances of PaymentInstruction that handle as many requests at a time  *)
(* as the behaviour chooses once: one, or up to MaxInFlight.               *)
(***************************************************************************)
EXTENDS PaymentInstruction

VARIABLE limit

LoadInit == Init /\ limit \in {1, MaxInFlight}

LoadNext ==
    /\ Next
    /\ Cardinality({r \in Requests : InFlight(r)'}) <= limit
    /\ UNCHANGED limit

LoadSpec == LoadInit /\ [][LoadNext]_<<vars, limit>>

=============================================================================
