---------------------------- MODULE AccessControl ----------------------------
(***************************************************************************)
(* Roles, their assignment to the users of one organization, and sessions. *)
(* A login copies the user's roles into its session; every request of the  *)
(* session is judged by the copy.  Administrators create and change roles  *)
(* and assign, remove and change assignments.                              *)
(***************************************************************************)
EXTENDS RequestHandling

CONSTANTS
    Users,
    RoleCodes,      \* role codes; a role keeps its id, so its code stands for it
    SeededRoles,    \* those with a row before the behaviour starts
    SeededGrants,   \* <<user, role>> pairs assigned before it starts
    SeededLogins    \* the user of each seeded session

SessionRow == [ user : Users, status : {"active", "revoked", "expired"},
                roles : SUBSET RoleCodes ]

\* by is the request of updated_at.
Assignment == [ status : {"active", "revoked"}, by : Requests \union {0} ]

\* What recordAccessAuditEvent stores of an assignment: the target of a change
\* is the new role, the old one is not named.
AccessEvent == [ action : {"create", "remove", "change"}, user : Users, role : RoleCodes ]

ASSUME AccessAssumption ==
    /\ None \notin SessionRow \union Assignment \union AccessEvent
    /\ None \notin Users \union RoleCodes
    /\ None \notin Requests
    /\ SeededRoles \subseteq RoleCodes
    /\ SeededGrants \subseteq Users \X SeededRoles
    /\ SeededLogins \in [1..Seeded -> Users]

VARIABLES
    roles,          \* [status, text] of each role's row, or None
    assignments,    \* role_assignments by <<user, role>>, or None
    events,         \* the audit event of each request about an assignment, or None
    sessions,       \* [user, roles, status] of the session each login opened, or None
    over            \* sessions whose eight hours are over

accessVars == <<roles, assignments, events, sessions, over>>

Granted(user) ==
    {role \in RoleCodes : /\ roles[role] # None
                      /\ roles[role].status = "active"
                      /\ assignments[<<user, role>>] # None
                      /\ assignments[<<user, role>>].status = "active"}

AccessInit ==
    /\ roles = [role \in RoleCodes |->
           IF role \in SeededRoles THEN [ status |-> "active", text |-> 0 ] ELSE None]
    /\ assignments = [k \in Users \X RoleCodes |->
           IF k \in SeededGrants THEN [ status |-> "active", by |-> 0 ] ELSE None]
    /\ events = [r \in Requests |-> None]
    /\ sessions = [r \in Requests |->
           IF r <= Seeded
           THEN [ user |-> SeededLogins[r], status |-> "active",
                  roles |-> {role \in SeededRoles : <<SeededLogins[r], role>> \in SeededGrants} ]
           ELSE None]
    /\ over = {}

-----------------------------------------------------------------------------
(* Sessions.                                                               *)

\* The handler up to the answer of findByUsername, which joins the active
\* roles.
Login(r, user) ==
    /\ NextToArrive(r)
    /\ Await(r, "saveSession",
             [ id |-> r, row |-> [ user |-> user, status |-> "active",
                                   roles |-> Granted(user) ] ])
    /\ UNCHANGED accessVars

Usable(s) == sessions[s].status = "active" /\ s \notin over

\* The handler up to the answer of findByTokenHash.
Logout(r, s) ==
    /\ NextToArrive(r)
    /\ sessions[s] # None
    /\ Usable(s)
    /\ Await(r, "saveSession", [ id |-> s, row |-> [sessions[s] EXCEPT !.status = "revoked"] ])
    /\ UNCHANGED accessVars

\* ON CONFLICT (session_id) DO UPDATE, every column.
SaveSession(r) ==
    /\ pc[r] = "saveSession"
    /\ sessions' = [sessions EXCEPT ![job[r].id] = job[r].row]
    /\ Answer(r, "done")
    /\ UNCHANGED <<roles, assignments, events, over>>

SessionExpires(s) ==
    /\ sessions[s] # None
    /\ s \notin over
    /\ over' = over \union {s}
    /\ UNCHANGED <<handling, roles, assignments, events, sessions>>

\* Fault: a session found over its time is renewed, by the row that was read.
AuthenticateAndRenew(r, s, step, ask) ==
    /\ NextToArrive(r)
    /\ sessions[s] # None
    /\ sessions[s].status = "active"
    /\ IF s \in over
       THEN Await(r, "saveSession", [ id |-> s, row |-> sessions[s] ])
       ELSE "administrator" \in sessions[s].roles /\ Await(r, step, ask)
    /\ UNCHANGED accessVars

\* The authenticated pre-handler up to the answer of findByTokenHash, and the
\* check for an administrator.  A session found over its time is saved as
\* expired before the request is refused; one that ended otherwise is refused
\* without a query, and is left out.
Authenticate(r, s, step, ask) ==
    /\ NextToArrive(r)
    /\ sessions[s] # None
    /\ IF sessions[s].status = "active" /\ s \in over
       THEN Await(r, "saveSession",
                  [ id |-> s, row |-> [sessions[s] EXCEPT !.status = "expired"] ])
       ELSE /\ Usable(s)
            /\ IF "administrator" \in sessions[s].roles
               THEN Await(r, step, ask)
               ELSE Refuse(r, "forbidden")
    /\ UNCHANGED accessVars

-----------------------------------------------------------------------------
(* Roles.                                                                  *)

\* POST /roles
CreateRole(r, s, role, status) ==
    Authenticate(r, s, "findRoleCode", [ role |-> role, status |-> status, text |-> r ])

\* PATCH /roles/:roleId changes the status or the text.
UpdateRole(r, s, role, change) ==
    Authenticate(r, s, "findRole", [ role |-> role, status |-> change.status,
                                     text |-> change.text ])

FindRoleCode(r) ==
    /\ pc[r] = "findRoleCode"
    /\ IF roles[job[r].role] # None
       THEN Refuse(r, "conflict")
       ELSE Await(r, "saveRole", job[r])
    /\ UNCHANGED accessVars

FindRole(r) ==
    /\ pc[r] = "findRole"
    /\ LET old == roles[job[r].role]
       IN  IF old = None THEN Refuse(r, "notFound")
           ELSE Await(r, "saveRole",
                    [job[r] EXCEPT
                        !.status = IF @ = None THEN old.status ELSE @,
                        !.text = IF @ = None THEN old.text ELSE @])
    /\ UNCHANGED accessVars

\* Both the creation, ON CONFLICT (role_code, scope) DO UPDATE, and the
\* update write every column.
SaveRole(r) ==
    /\ pc[r] = "saveRole"
    /\ roles' = [roles EXCEPT ![job[r].role] =
           [ status |-> job[r].status, text |-> job[r].text ]]
    /\ Await(r, "recordRole", None)
    /\ UNCHANGED <<assignments, events, sessions, over>>

RecordRole(r) ==
    /\ pc[r] = "recordRole"
    /\ Answer(r, "done")
    /\ UNCHANGED accessVars

-----------------------------------------------------------------------------
(* Assignments.                                                            *)

IsActive(user, role) ==
    /\ assignments[<<user, role>>] # None
    /\ assignments[<<user, role>>].status = "active"

\* The outcome a route records of each result that is not a success.
CreateReply == [ roleNotFound |-> "validationError", organizationNotFound |-> "validationError",
                 duplicate |-> "conflict" ]

RemoveReply == [ notFound |-> "notFound" ]

ChangeReply == [ sameRole |-> "validationError", roleNotFound |-> "validationError",
                 notFound |-> "notFound", duplicate |-> "conflict" ]

\* POST /role-assignments; member says whether the organization it names has
\* a row.
CreateAssignment(r, s, user, role, member) ==
    Authenticate(r, s, "findNewRole", [ action |-> "create", user |-> user, role |-> role,
                                        member |-> member ])

\* DELETE /role-assignments
RemoveAssignment(r, s, user, role) ==
    Authenticate(r, s, "findAssignment", [ action |-> "remove", user |-> user, role |-> role ])

\* PATCH /role-assignments; a change to the same role needs no query.
ChangeAssignment(r, s, user, role, old) ==
    IF role = old
    THEN Authenticate(r, s, "recordRefusal", [ outcome |-> ChangeReply.sameRole ])
    ELSE Authenticate(r, s, "findNewRole", [ action |-> "change", user |-> user,
                                             role |-> role, old |-> old ])

\* createRoleAssignment and changeRoleAssignment ask for the role first.
FindNewRole(r) ==
    /\ pc[r] = "findNewRole"
    /\ IF roles[job[r].role] # None
       THEN Await(r, IF job[r].action = "create" THEN "findOrganization" ELSE "findCurrent",
                  job[r])
       ELSE IF job[r].action = "create"
       THEN Refuse(r, CreateReply.roleNotFound)
       ELSE Refuse(r, ChangeReply.roleNotFound)
    /\ UNCHANGED accessVars

FindOrganization(r) ==
    /\ pc[r] = "findOrganization"
    /\ IF job[r].member
       THEN Await(r, "findActive", job[r])
       ELSE Refuse(r, CreateReply.organizationNotFound)
    /\ UNCHANGED accessVars

FindCurrent(r) ==
    /\ pc[r] = "findCurrent"
    /\ IF IsActive(job[r].user, job[r].old)
       THEN Await(r, "findActive", job[r])
       ELSE Refuse(r, ChangeReply.notFound)
    /\ UNCHANGED accessVars

FindActive(r) ==
    /\ pc[r] = "findActive"
    /\ IF ~IsActive(job[r].user, job[r].role)
       THEN Await(r, IF job[r].action = "create" THEN "saveAssignment" ELSE "revokeCurrent",
                  job[r])
       ELSE IF job[r].action = "create"
       THEN Refuse(r, CreateReply.duplicate)
       ELSE Refuse(r, ChangeReply.duplicate)
    /\ UNCHANGED accessVars

\* removeRoleAssignment: a revoked assignment is a success, and an event.
FindAssignment(r) ==
    /\ pc[r] = "findAssignment"
    /\ LET row == assignments[<<job[r].user, job[r].role>>]
       IN  IF row = None THEN Refuse(r, RemoveReply.notFound)
           ELSE IF row.status = "revoked" THEN Await(r, "recordAssignment", job[r])
           ELSE Await(r, "saveAssignment", job[r])
    /\ UNCHANGED accessVars

Put(r, user, role, status) ==
    /\ assignments' = [assignments EXCEPT ![<<user, role>>] = [ status |-> status, by |-> r ]]
    /\ UNCHANGED <<roles, events, sessions, over>>

\* Fault: a change keeps the role it changes.
KeepCurrent(r) ==
    /\ pc[r] = "revokeCurrent"
    /\ Await(r, "saveAssignment", job[r])
    /\ UNCHANGED accessVars

\* The first of two statements of a change.
RevokeCurrent(r) ==
    /\ pc[r] = "revokeCurrent"
    /\ Put(r, job[r].user, job[r].old, "revoked")
    /\ Await(r, "saveAssignment", job[r])

SaveAssignment(r) ==
    /\ pc[r] = "saveAssignment"
    /\ Put(r, job[r].user, job[r].role,
           IF job[r].action = "remove" THEN "revoked" ELSE "active")
    /\ Await(r, "recordAssignment", job[r])

RecordAssignment(r) ==
    /\ pc[r] = "recordAssignment"
    /\ events' = [events EXCEPT ![r] = [ action |-> job[r].action, user |-> job[r].user,
                                         role |-> job[r].role ]]
    /\ Answer(r, "done")
    /\ UNCHANGED <<roles, assignments, sessions, over>>

-----------------------------------------------------------------------------

RoleChanges ==
    [ status : {"active", "inactive"}, text : {None} ] \union [ status : {None}, text : Requests ]

AccessRequest(r, s) ==
    \/ \E role \in RoleCodes, status \in {"active", "inactive"} : CreateRole(r, s, role, status)
    \/ \E role \in RoleCodes, change \in RoleChanges :
           /\ change.text \in {None, r}
           /\ UpdateRole(r, s, role, change)
    \/ \E user \in Users, role \in RoleCodes :
        \/ \E member \in BOOLEAN : CreateAssignment(r, s, user, role, member)
        \/ RemoveAssignment(r, s, user, role)
        \/ \E old \in RoleCodes : ChangeAssignment(r, s, user, role, old)

AccessStep(r) ==
    \/ \E user \in Users : Login(r, user)
    \/ \E s \in Requests : Logout(r, s)
    \/ NextToArrive(r) /\ \E s \in Requests : AccessRequest(r, s)
    \/ SessionExpires(r)
    \/ SaveSession(r)
    \/ FindRoleCode(r)
    \/ FindRole(r)
    \/ SaveRole(r)
    \/ RecordRole(r)
    \/ FindNewRole(r)
    \/ FindOrganization(r)
    \/ FindCurrent(r)
    \/ FindActive(r)
    \/ FindAssignment(r)
    \/ RevokeCurrent(r)
    \/ SaveAssignment(r)
    \/ RecordAssignment(r)
    \/ RecordRefusal(r) /\ UNCHANGED accessVars

AccessNext ==
    \/ \E r \in Requests :
        \/ AccessStep(r)
        \/ QueryFails(r) /\ UNCHANGED accessVars
    \/ Crash /\ UNCHANGED accessVars

accessState == <<handling, accessVars>>

AccessSpec == HandlingInit /\ AccessInit /\ [][AccessNext]_accessState

-----------------------------------------------------------------------------
(* Properties                                                              *)

\* Whatever overlaps, an assignment stored by a request that has answered is
\* accounted for by that request's audit event.  Handled one at a time, an
\* event also describes the table until a later request writes: what it
\* assigned is active, what it removed is not, and of a change exactly one
\* of the two roles is left with the user.  A request recorded as refused has
\* written no assignment.
AssignmentsAreAccounted ==
    /\ \A k \in Users \X RoleCodes :
           LET row == assignments[k]
           IN  row # None /\ row.by # 0 /\ pc[row.by] = "done" =>
                   /\ events[row.by] # None
                   /\ events[row.by].user = k[1]
                   /\ row.status = "active" =>
                          events[row.by].action # "remove" /\ events[row.by].role = k[2]
                   /\ row.status = "revoked" =>
                          (events[row.by].action = "remove") = (events[row.by].role = k[2])
    /\ \A k \in Users \X RoleCodes, r \in Requests :
           assignments[k] # None /\ assignments[k].by = r => refusals[r] = None
    /\ limit = 1 => \A r \in Requests : events[r] # None =>
           LET e == events[r]
               Stored(role) == assignments[<<e.user, role>>]
           IN  \/ Stored(e.role) # None /\ Stored(e.role).by > r
               \/ /\ IsActive(e.user, e.role) = (e.action # "remove")
                  /\ e.action = "change" =>
                         \E old \in RoleCodes \ {e.role} :
                             /\ Stored(old) # None
                             /\ Stored(old).by >= r
                             /\ Stored(old).by = r => Stored(old).status = "revoked"

\* However logout, expiry and requests of one session overlap, each writing
\* back the row it read, a session that has ended is never active again, and
\* nothing adds to the roles it was opened with.
EndedSessionsStayEnded ==
    [][\A s \in Requests : sessions[s] # None =>
          /\ sessions'[s].roles = sessions[s].roles
          /\ sessions[s].status # "active" => sessions'[s].status # "active"]_accessState
=============================================================================
