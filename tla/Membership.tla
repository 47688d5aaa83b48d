----------------------------- MODULE Membership -----------------------------
(***************************************************************************)
(* Member organizations.  A registration looks its number up and inserts   *)
(* the row, in two queries; the unique constraint on the number has the    *)
(* last word.  An administrator sets any status at any time.  Every answer *)
(* but that of the list is audited, after the write.                       *)
(***************************************************************************)
EXTENDS RequestHandling

CONSTANT RegistrationNumbers

MemberStatuses == {"pendingReview", "active", "inactive", "suspended", "deleted"}

\* by is the request of updated_at.
MemberRows == [ number : RegistrationNumbers, status : MemberStatuses, by : Requests ]

ASSUME MembershipAssumption ==
    /\ None \notin RegistrationNumbers \union MemberRows
    /\ None \notin Refusals

VARIABLES
    members,    \* member_organizations by the request that created it, or None
    registers   \* the registration number each request asked to register, or None

memberVars == <<members, registers>>

MembershipInit ==
    /\ members = [r \in Requests |-> None]
    /\ registers = [r \in Requests |-> None]

MemberRow(number, status, r) == [ number |-> number, status |-> status, by |-> r ]

Holders(number) == {m \in Requests : members[m] # None /\ members[m].number = number}

-----------------------------------------------------------------------------
(* POST /member-organizations                                              *)

\* valid is whether no required text is empty after trimming.
CreateMemberOrganization(r, number, valid) ==
    /\ NextToArrive(r)
    /\ IF valid
       THEN /\ registers' = [registers EXCEPT ![r] = number]
            /\ Await(r, "findByNumber", number)
       ELSE Refuse(r, "validationError") /\ UNCHANGED registers
    /\ UNCHANGED members

FindByRegistrationNumber(r) ==
    /\ pc[r] = "findByNumber"
    /\ IF Holders(job[r]) # {} THEN Refuse(r, "conflict") ELSE Await(r, "saveDraft", job[r])
    /\ UNCHANGED memberVars

\* Fault: no constraint.
RegistrationAdmitsAll(number) == TRUE

\* UNIQUE (registration_number)
RegistrationAdmits(number) == Holders(number) = {}

\* A row the constraint refuses is a 500, without an event.
SaveDraft(r) ==
    /\ pc[r] = "saveDraft"
    /\ IF RegistrationAdmits(job[r])
       THEN /\ members' = [members EXCEPT ![r] = MemberRow(job[r], "pendingReview", r)]
            /\ Await(r, "recordAccess", None)
       ELSE Answer(r, "failed") /\ UNCHANGED members
    /\ UNCHANGED registers

-----------------------------------------------------------------------------
(* The routes of administrators.                                           *)

AsAdministrator(r, admin, step, ask) ==
    /\ NextToArrive(r)
    /\ IF admin THEN Await(r, step, ask) ELSE Refuse(r, "forbidden")
    /\ UNCHANGED memberVars

ListMemberOrganizations(r, admin) == AsAdministrator(r, admin, "findAll", None)
GetMemberOrganization(r, admin, m) == AsAdministrator(r, admin, "findById", m)

\* A status that is none is refused before the query.
UpdateMemberStatus(r, admin, m, status) ==
    IF status \in MemberStatuses
    THEN AsAdministrator(r, admin, "updateStatus", [ member |-> m, status |-> status ])
    ELSE AsAdministrator(r, admin, "recordRefusal", [ outcome |-> "validationError" ])

FindAllMembers(r) ==
    /\ pc[r] = "findAll"
    /\ Answer(r, "done")
    /\ UNCHANGED memberVars

FindMember(r) ==
    /\ pc[r] = "findById"
    /\ IF members[job[r]] = None THEN Refuse(r, "notFound") ELSE Await(r, "recordAccess", None)
    /\ UNCHANGED memberVars

\* UPDATE ... WHERE id = $1, whatever the status is.
UpdateStatus(r) ==
    /\ pc[r] = "updateStatus"
    /\ LET m == job[r].member
       IN  IF members[m] = None
           THEN Refuse(r, "notFound") /\ UNCHANGED members
           ELSE /\ members' = [members EXCEPT ![m] = MemberRow(@.number, job[r].status, r)]
                /\ Await(r, "recordAccess", None)
    /\ UNCHANGED registers

MembershipStep(r) ==
    \/ \E number \in RegistrationNumbers, valid \in BOOLEAN :
           CreateMemberOrganization(r, number, valid)
    \/ \E admin \in BOOLEAN :
        \/ ListMemberOrganizations(r, admin)
        \/ \E m \in Requests :
            \/ GetMemberOrganization(r, admin, m)
            \/ \E status \in MemberStatuses \union {"unknown"} :
                   UpdateMemberStatus(r, admin, m, status)
    \/ FindByRegistrationNumber(r)
    \/ SaveDraft(r)
    \/ FindAllMembers(r)
    \/ FindMember(r)
    \/ UpdateStatus(r)
    \/ (RecordAccess(r) \/ RecordRefusal(r)) /\ UNCHANGED memberVars

MembershipNext ==
    \/ \E r \in Requests :
        \/ MembershipStep(r)
        \/ QueryFails(r) /\ UNCHANGED memberVars
    \/ Crash /\ UNCHANGED memberVars

membershipState == <<handling, memberVars>>

MembershipSpec == HandlingInit /\ MembershipInit /\ [][MembershipNext]_membershipState

-----------------------------------------------------------------------------
(* Properties                                                              *)

\* However registrations and status changes overlap and fail: of the requests
\* for one number at most one is told that it registered it, and one that is
\* told of a conflict finds the number in use; what an answered request last
\* wrote to a row has its success event, and a request with the event of a
\* refusal has written nothing.
MembersAreAccounted ==
    /\ \A q, r \in Requests :
           /\ registers[q] # None /\ registers[q] = registers[r]
           /\ {q, r} \subseteq trail
           => q = r
    /\ \A r \in Requests :
           /\ registers[r] # None /\ r \in trail => members[r] # None
           /\ registers[r] # None /\ refusals[r] = "conflict" => Holders(registers[r]) # {}
    /\ \A m \in Requests : members[m] # None =>
           LET by == members[m].by
           IN  /\ refusals[by] = None
               /\ pc[by] = "done" => by \in trail
=============================================================================
