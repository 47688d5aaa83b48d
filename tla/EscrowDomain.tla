---------------------------- MODULE EscrowDomain ----------------------------
(***************************************************************************)
(* The vocabulary of the escrow module: the statuses of an escrow record,  *)
(* the commands that move it, and who may issue them.  The arbitration     *)
(* command is split by its outcome, so that a command determines the next  *)
(* status.                                                                 *)
(***************************************************************************)

\* The EscrowStatus type; five of these are written by no operation of the code.
EscrowStatuses ==
    { "accepted", "escrowCreated", "funded", "awaitingProof", "releasePending",
      "releaseReady", "releaseRequested", "releaseApproved", "releaseRejected",
      "onHold", "disputeOpen", "arbitration", "released", "refunded",
      "cancelled", "expired", "settlementInstructionReady", "disputed" }

\* activeEscrowStatuses, and the predicate of the unique index of migration 006.
ActiveEscrowStatuses ==
    EscrowStatuses \ {"released", "refunded", "cancelled", "expired"}

\* The statuses in which evaluateReleaseConditions finds the escrow disputed.
PausedStatuses == {"disputeOpen", "arbitration", "onHold", "disputed"}

Commands ==
    { "fund", "requestRelease", "approveRelease", "hold", "openDispute",
      "arbitrateApproveRelease", "arbitrateRefund", "arbitrateCancel" }

ReleaseCommands == {"requestRelease", "approveRelease"}

ArbitrationCommands ==
    {"arbitrateApproveRelease", "arbitrateRefund", "arbitrateCancel"}

AwaitingRelease == {"funded", "awaitingProof", "releasePending", "releaseReady"}

Holdable == AwaitingRelease \union {"escrowCreated", "releaseRequested"}

\* The statuses transitionSpec accepts for a command ...
Sources ==
    [ fund                    |-> {"escrowCreated"},
      requestRelease          |-> AwaitingRelease,
      approveRelease          |-> {"releaseRequested"},
      hold                    |-> Holdable,
      openDispute             |-> Holdable \union {"onHold"},
      arbitrateApproveRelease |-> PausedStatuses,
      arbitrateRefund         |-> PausedStatuses,
      arbitrateCancel         |-> PausedStatuses ]

\* ... and the status it leads to.
Target ==
    [ fund                    |-> "funded",
      requestRelease          |-> "releaseRequested",
      approveRelease          |-> "settlementInstructionReady",
      hold                    |-> "onHold",
      openDispute             |-> "disputeOpen",
      arbitrateApproveRelease |-> "settlementInstructionReady",
      arbitrateRefund         |-> "refunded",
      arbitrateCancel         |-> "cancelled" ]

Supported(from, to) == \E c \in Commands : from \in Sources[c] /\ to = Target[c]

Roles == { "buyer", "supplier", "financier", "administrator", "auditor",
           "securityOperator" }

\* Who may issue a command on an escrow with these parties.
CanActorPerform(actor, c, buyer, supplier, financier) ==
    LET HasRole(allowed) == actor.roles \intersect allowed # {}
    IN  \/ /\ c = "fund"
           /\ HasRole({"buyer", "financier"})
           /\ actor.org \in {buyer, financier}
        \/ /\ c = "requestRelease"
           /\ HasRole({"supplier", "buyer"})
           /\ actor.org \in {supplier, buyer}
        \/ /\ c = "approveRelease"
           /\ HasRole({"buyer"})
           /\ actor.org = buyer
        \/ /\ c = "hold"
           /\ \/ HasRole({"administrator", "securityOperator"})
              \/ HasRole({"buyer"}) /\ actor.org = buyer
        \/ /\ c = "openDispute"
           /\ HasRole({"buyer", "supplier"})
           /\ actor.org \in {buyer, supplier}
        \/ /\ c \in ArbitrationCommands
           /\ HasRole({"administrator", "auditor"})
=============================================================================
