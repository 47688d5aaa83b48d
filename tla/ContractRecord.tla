--------------------------- MODULE ContractRecord ---------------------------
(***************************************************************************)
(* Procurement contracts: a draft, offers of new terms, and acceptances by *)
(* buyer and supplier.  A contract is one row, read by a request and       *)
(* written back whole; a request does not say which terms it has seen.     *)
(*                                                                         *)
(* Terms stand for their hash.  The five events of a creation are one.     *)
(***************************************************************************)
EXTENDS RequestHandling, SequencesExt

CONSTANTS
    Numbers,        \* contract numbers
    TermSets,       \* machine-readable terms
    SeededContracts \* the terms of each seeded contract, or None

\* An administrator writes on behalf of any party.
Signatories == {"buyer", "supplier"}
Negotiators == Signatories \union {"financier", "administrator"}

Acceptance == [ terms : TermSets, version : Nat ]

ASSUME ContractAssumption ==
    /\ None \notin TermSets \union Acceptance
    /\ SeededContracts \in [1..Seeded -> TermSets \union {None}]
    /\ Requests \subseteq Numbers

ContractEvent ==
    [ type : {"created", "offerSubmitted", "contractAccepted"}, terms : TermSets,
      by : Requests ]

\* offers holds the request of each, signedAt that of the last acceptance;
\* acceptances are by party.
ContractRow ==
    [ number : Numbers, status : {"draft", "negotiating", "accepted"}, version : Nat,
      terms : TermSets, offers : Seq(Requests), signedAt : Requests \union {None},
      acceptances : [Signatories -> Acceptance \union {None}],
      history : Seq(ContractEvent) ]

VARIABLE
    agreement       \* agreement[r]: the contract request r created, or None

NewContract(r, number, terms) ==
    [ number |-> number, status |-> "draft", version |-> 1, terms |-> terms,
      offers |-> <<>>, signedAt |-> None,
      acceptances |-> [p \in Signatories |-> None],
      history |-> << [ type |-> "created", terms |-> terms, by |-> r ] >> ]

ContractInit ==
    agreement = [r \in Requests |->
        IF r > Seeded THEN None
        ELSE IF SeededContracts[r] = None THEN None
        ELSE NewContract(r, r, SeededContracts[r])]

\* createProcurementContract has no query before the row is saved.
CreateContract(r, number, terms) ==
    /\ NextToArrive(r)
    /\ Await(r, "saveContractRow", [ id |-> r, row |-> NewContract(r, number, terms) ])
    /\ UNCHANGED agreement

\* Fault: a new offer leaves the acceptances of the old terms.
OfferedKeepingAcceptances(row, r, terms) ==
    [row EXCEPT !.status = "negotiating",
                !.version = @ + 1,
                !.terms = terms,
                !.offers = Append(@, r),
                !.history = Append(@, [ type |-> "offerSubmitted", terms |-> terms,
                                        by |-> r ])]

Offered(row, r, terms) ==
    [ number |-> row.number, status |-> "negotiating", version |-> row.version + 1,
      terms |-> terms, offers |-> Append(row.offers, r), signedAt |-> row.signedAt,
      acceptances |-> [p \in Signatories |-> None],
      history |-> Append(row.history, [ type |-> "offerSubmitted", terms |-> terms, by |-> r ]) ]

\* The handler up to the answer of findById.
SubmitOffer(r, c, actor, terms) ==
    /\ NextToArrive(r)
    /\ agreement[c] # None
    /\ actor \in Negotiators
    /\ Await(r, "saveContractRow", [ id |-> c, row |-> Offered(agreement[c], r, terms) ])
    /\ UNCHANGED agreement

HasAccepted(acceptances, terms, party) ==
    acceptances[party] # None /\ acceptances[party].terms = terms

FullyAccepted(acceptances, terms) ==
    \A party \in Signatories : HasAccepted(acceptances, terms, party)

\* signedAt and the status change when the other party has accepted already.
Accepted(row, r, party) ==
    LET acceptances == [row.acceptances EXCEPT ![party] =
                           [ terms |-> row.terms, version |-> row.version ]]
        agreed == FullyAccepted(acceptances, row.terms)
    IN  [ number |-> row.number, status |-> IF agreed THEN "accepted" ELSE row.status,
          version |-> row.version, terms |-> row.terms, offers |-> row.offers,
          signedAt |-> IF agreed THEN r ELSE row.signedAt, acceptances |-> acceptances,
          history |-> Append(row.history, [ type |-> "contractAccepted", terms |-> row.terms,
                                            by |-> r ]) ]

\* The handler up to the answer of findById.
AcceptTerms(r, c, actor, party) ==
    /\ NextToArrive(r)
    /\ agreement[c] # None
    /\ actor \in {party, "administrator"}
    /\ ~HasAccepted(agreement[c].acceptances, agreement[c].terms, party)
    /\ Await(r, "saveContractRow", [ id |-> c, row |-> Accepted(agreement[c], r, party) ])
    /\ UNCHANGED agreement

\* idx_procurement_contracts_contract_number
NumberAdmits(id, number) ==
    \A c \in Requests \ {id} : agreement[c] # None => agreement[c].number # number

\* ON CONFLICT (contract_id) DO UPDATE, every column.
SaveContractRow(r) ==
    /\ pc[r] = "saveContractRow"
    /\ IF NumberAdmits(job[r].id, job[r].row.number)
       THEN /\ agreement' = [agreement EXCEPT ![job[r].id] = job[r].row]
            /\ Answer(r, "done")
       ELSE /\ Answer(r, "failed")
            /\ UNCHANGED agreement

ContractStep(r) ==
    \/ \E number \in Numbers, terms \in TermSets : CreateContract(r, number, terms)
    \/ \E c \in Requests, actor \in Negotiators, terms \in TermSets :
           SubmitOffer(r, c, actor, terms)
    \/ \E c \in Requests, actor \in Negotiators, party \in Signatories :
           AcceptTerms(r, c, actor, party)
    \/ SaveContractRow(r)

ContractNext ==
    \/ \E r \in Requests :
        \/ ContractStep(r)
        \/ QueryFails(r) /\ UNCHANGED agreement
    \/ Crash /\ UNCHANGED agreement

contractState == <<handling, agreement>>

ContractSpec == HandlingInit /\ ContractInit /\ [][ContractNext]_contractState

-----------------------------------------------------------------------------
(* Properties                                                              *)

\* The events since the terms last changed.
Round(row) ==
    {i \in 1..Len(row.history) :
        \A j \in i..Len(row.history) : row.history[j].type = "contractAccepted"}

AcceptedBy(row) == {party \in Signatories : row.acceptances[party] # None}

\* What a row says of a negotiation: its version counts the offers, its terms
\* are those of the last offer, and an acceptance is of these terms and this
\* version, each with its event since the offer.
RowTellsNegotiation(row) ==
    /\ row.version = Len(row.offers) + 1
    /\ Len(row.history) > Cardinality(Round(row))
    /\ row.history[Len(row.history) - Cardinality(Round(row))].terms = row.terms
    /\ \A i \in Round(row) : row.history[i].terms = row.terms
    /\ Cardinality(Round(row)) = Cardinality(AcceptedBy(row))
    /\ \A party \in AcceptedBy(row) :
           row.acceptances[party] = [ terms |-> row.terms, version |-> row.version ]
    /\ (row.status = "accepted") = (AcceptedBy(row) = Signatories)

\* Whatever overlaps or fails, a contract is accepted exactly when buyer and
\* supplier have accepted the terms it has now, and its row tells the
\* negotiation that led there.  Handled one at a time, no offer and no
\* acceptance is ever lost.
AgreementFollowsNegotiation ==
    [][\A c \in Requests :
          /\ agreement'[c] # None => RowTellsNegotiation(agreement'[c])
          /\ limit = 1 /\ agreement[c] # None =>
                 IsPrefix(agreement[c].history, agreement'[c].history)]_agreement
=============================================================================
