-------------------------- MODULE MCEscrowWorkflow --------------------------
(***************************************************************************)
(* Small instances of EscrowWorkflow for TLC: a buyer, a supplier and a    *)
(* financier with the roles the code asks for, and an administrator of the *)
(* platform.                                                               *)
(***************************************************************************)
EXTENDS EscrowWorkflow

MCOrgs == {"buyerOrg", "supplierOrg", "financierOrg", "platform"}

MCActors ==
    { [org |-> "buyerOrg",     roles |-> {"buyer"}],
      [org |-> "supplierOrg",  roles |-> {"supplier"}],
      [org |-> "financierOrg", roles |-> {"financier"}],
      [org |-> "platform",     roles |-> {"administrator"}] }

MCBuyerOf     == [o \in Orders |-> "buyerOrg"]
MCSupplierOf  == [o \in Orders |-> "supplierOrg"]
MCFinancierOf == [o \in Orders |-> "financierOrg"]
=============================================================================
