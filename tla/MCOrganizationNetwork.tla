------------------------ MODULE MCOrganizationNetwork ------------------------
(* Two organizations, the first of which has sent the second a request.      *)
EXTENDS OrganizationNetwork

MCRegistrations ==
    { [ identifier |-> "id1", number |-> "id1", username |-> "ann" ],
      [ identifier |-> "id2", number |-> "id2", username |-> "ben" ],
      [ identifier |-> "id3", number |-> "id3", username |-> "eve" ] }

MCSeededRegistrations ==
    << [ identifier |-> "id1", number |-> "id1", username |-> "ann" ],
       [ identifier |-> "id2", number |-> "id2", username |-> "ben" ] >>

MCSeededSent == { [ id |-> 1, from |-> 1, to |-> 2, type |-> "supplier" ] }

MCInvitations ==
    { [ username |-> "eve", roles |-> <<"buyer", "auditor">> ],
      [ username |-> "dan", roles |-> <<"auditor", "buyer">> ] }

MCActors == { [ roles |-> {"organizationAdmin"}, org |-> 1 ],
              [ roles |-> {"supplier"}, org |-> 2 ] }
=============================================================================
