---------------------------- MODULE MCFulfilment ----------------------------
(* An accepted order with evidence and an invoice, which came from an award,  *)
(* and a created one whose amount its buyer typed without decimals.           *)
EXTENDS Fulfilment

CONSTANTS award, supplier, h1

MCSeededEvents ==
    << [ type |-> "purchaseOrderCreated", order |-> 1 ],
       [ type |-> "purchaseOrderAccepted", order |-> 1 ],
       [ type |-> "deliveryEvidenceSubmitted", order |-> 1 ],
       [ type |-> "invoiceIssued", order |-> 1 ],
       [ type |-> "purchaseOrderCreated", order |-> 5 ] >>
MCTerms == [ o \in {1, 5} |->
    IF o = 1 THEN [ amount |-> "68.00", supplier |-> supplier, case |-> award ]
    ELSE [ amount |-> "68", supplier |-> supplier, case |-> 5 ] ]
MCAmounts == {"68", "70"}
MCNumeric == [ a \in {"68", "68.00", "70", "70.00"} |->
    IF a \in {"68", "68.00"} THEN "68.00" ELSE "70.00" ]
MCHashes == {h1}
=============================================================================
