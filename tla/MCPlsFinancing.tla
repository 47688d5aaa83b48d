--------------------------- MODULE MCPlsFinancing ---------------------------
(* One contract of two seeded, eligible organizations and two seeds: an      *)
(* undecided and an approved review, and a certificate; a result that does    *)
(* not divide evenly, reported with either sign.                             *)
EXTENDS PlsFinancing

CONSTANTS org1, org2, item1, k1, t1, t2

MCOrganizations == {org1, org2}
MCSeededCases == <<org1, org2>>
MCItems == {item1}
MCMandatory == {item1}
MCTemplates == {t1, t2}
MCSeededReviews == <<"approved", "complete">>
MCSeededCertificates == <<t1, None>>
MCContracts == {k1}
MCTerms == [ k \in MCContracts |-> [ buyer |-> org1, supplier |-> org2, financier |-> org2,
                                     template |-> t1, percent |-> 60 ] ]
MCResults == {199, -199}
=============================================================================
