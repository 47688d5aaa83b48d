--------------------------- MODULE ServicesProofs ---------------------------
(***************************************************************************)
(* Proofs about the services that share RequestHandling, each under its    *)
(* own specification, for any number of requests, in flight at the same    *)
(* time: AccessControl, Membership, Documents, ExternalApi, AnchorProofs,  *)
(* ContractRecord, ExportBundles and Workspace.                            *)
(***************************************************************************)
EXTENDS AccessControl, Membership, Documents, ExternalApi, AnchorProofs, ContractRecord,
        ExportBundles, Workspace, FiniteSetTheorems, SequenceTheorems, TLAPS

-----------------------------------------------------------------------------
(* Requests and their turns.                                               *)

HandlingOK ==
    /\ pc = [r \in Requests |-> pc[r]]
    /\ job = [r \in Requests |-> job[r]]

Answered == {"done", "refused", "failed"}

\* Handled one at a time, every earlier request is answered.
InTurn == limit = 1 => \A q, r \in Requests : q < r /\ pc[r] # "idle" => pc[q] \in Answered

\* A step that moves one handler, which arrives or has arrived.
Moves(r) ==
    /\ pc[r] \notin Answered
    /\ pc[r] = "idle" => NextToArrive(r)
    /\ \A q \in Requests \ {r} : pc'[q] = pc[q]

\* Its request goes on to this step, with these local variables.
Goes(r, step, j) ==
    /\ Moves(r)
    /\ pc'[r] = step /\ job'[r] = j
    /\ \A q \in Requests \ {r} : job'[q] = job[q]
    /\ UNCHANGED limit

LEMMA AwaitGoes ==
    ASSUME HandlingOK, NEW r \in Requests, NextToArrive(r) \/ InFlight(r),
           NEW step, NEW j, Await(r, step, j)
    PROVE  Goes(r, step, j) /\ HandlingOK'
BY DEF HandlingOK, NextToArrive, InFlight, Await, Goes, Moves, Answered

LEMMA AnswerGoes ==
    ASSUME HandlingOK, NEW r \in Requests, NextToArrive(r) \/ InFlight(r),
           NEW how, Answer(r, how)
    PROVE  Goes(r, how, None) /\ HandlingOK'
BY DEF HandlingOK, NextToArrive, InFlight, Answer, Goes, Moves, Answered

LEMMA ArrivalWaits ==
    ASSUME limit = 1, NEW r \in Requests, NextToArrive(r), NEW q \in Requests, q < r
    PROVE  pc[q] \in Answered
<1> DEFINE flying == {p \in Requests : InFlight(p)}
<1>1. IsFiniteSet(flying)
  <2>1. IsFiniteSet(Requests)
      BY HandlingAssumption, FS_Interval DEF Requests
  <2> QED BY <2>1, FS_Subset
<1>2. Cardinality(flying) = 0
    BY <1>1, FS_CardinalityType DEF NextToArrive
<1>3. flying = {}
    BY <1>1, <1>2, FS_EmptySet
<1> QED BY <1>3 DEF NextToArrive, InFlight, Answered

LEMMA TurnsKept ==
    ASSUME InTurn, NEW r \in Requests, Moves(r), UNCHANGED limit
    PROVE  InTurn'
<1> SUFFICES ASSUME limit = 1, NEW p \in Requests, NEW q \in Requests, p < q, pc'[q] # "idle"
             PROVE  pc'[p] \in Answered
    BY DEF InTurn
<1>1. CASE q = r
  <2>1. pc[p] \in Answered
      BY <1>1, ArrivalWaits DEF Moves, InTurn
  <2>2. p # r
      BY <1>1, HandlingAssumption DEF Requests
  <2> QED BY <2>1, <2>2 DEF Moves
<1>2. CASE q # r
  <2>1. pc[p] \in Answered
      BY <1>2 DEF Moves, InTurn
  <2> QED BY <2>1 DEF Moves
<1> QED BY <1>1, <1>2

\* A crash answers those in flight.
Stopped ==
    /\ \A r \in Requests : /\ pc'[r] = IF InFlight(r) THEN "failed" ELSE pc[r]
                           /\ job'[r] = None
    /\ UNCHANGED limit

LEMMA CrashStops ==
    ASSUME Crash
    PROVE  Stopped /\ HandlingOK'
BY DEF Crash, Stopped, HandlingOK

LEMMA TurnsKeptByCrash ==
    ASSUME InTurn, Stopped
    PROVE  InTurn'
BY DEF InTurn, Stopped, InFlight, Answered

LEMMA InitialTurns ==
    ASSUME HandlingInit
    PROVE  HandlingOK /\ InTurn /\ \A r \in Requests : pc[r] \in {"idle", "done"}
BY HandlingAssumption DEF HandlingInit, HandlingOK, InTurn, Answered, Requests

-----------------------------------------------------------------------------
(* AccessControl: an ended session stays ended.                            *)

\* A request that is about to save a session opens its own, or ends one with the
\* roles that one has.
SaveFits(r) ==
    LET s == job[r].id
    IN  /\ s \in Requests
        /\ job[r].row \in SessionRow
        /\ job[r].row.status = "active" => s = r /\ sessions[r] = None
        /\ job[r].row.status # "active" =>
               sessions[s] # None /\ job[r].row.roles = sessions[s].roles

AccessInv ==
    /\ pc = [r \in Requests |-> pc[r]]
    /\ job = [r \in Requests |-> job[r]]
    /\ sessions \in [Requests -> SessionRow \union {None}]
    /\ \A r \in Requests :
           /\ pc[r] = "idle" => sessions[r] = None
           /\ pc[r] = "saveSession" => SaveFits(r)

\* What a step may do to the sessions.
SessionsKept ==
    \A s \in Requests : sessions[s] # None =>
        /\ sessions'[s].roles = sessions[s].roles
        /\ sessions[s].status # "active" => sessions'[s].status # "active"

-----------------------------------------------------------------------------
(* Steps that touch no session.                                            *)

LEMMA AccessQuietStep ==
    ASSUME AccessInv, NEW r \in Requests, NEW step, NEW j, step \notin {"idle", "saveSession"},
           pc' = [pc EXCEPT ![r] = step], job' = [job EXCEPT ![r] = j], UNCHANGED sessions
    PROVE  AccessInv' /\ SessionsKept
BY DEF AccessInv, SaveFits, SessionsKept

LEMMA AuthenticateKeeps ==
    ASSUME AccessInv, NEW r \in Requests, NEW s \in Requests, NEW step, NEW ask,
           step \notin {"idle", "saveSession"}, Authenticate(r, s, step, ask)
    PROVE  AccessInv' /\ SessionsKept
<1>1. CASE sessions[s].status = "active" /\ s \in over
  <2> DEFINE row == [sessions[s] EXCEPT !.status = "expired"]
  <2>1. /\ sessions[s] # None /\ pc' = [pc EXCEPT ![r] = "saveSession"]
        /\ job' = [job EXCEPT ![r] = [ id |-> s, row |-> row ]] /\ UNCHANGED sessions
      BY <1>1 DEF Authenticate, Await, accessVars
  <2>2. row \in SessionRow /\ row.status # "active" /\ row.roles = sessions[s].roles
      BY <2>1 DEF AccessInv, SessionRow
  <2> HIDE DEF row
  <2>3. [ id |-> s, row |-> row ].id = s /\ [ id |-> s, row |-> row ].row = row
      OBVIOUS
  <2> QED BY <2>1, <2>2, <2>3 DEF AccessInv, SaveFits, SessionsKept
<1>2. CASE ~(sessions[s].status = "active" /\ s \in over)
  <2>1. \/ pc' = [pc EXCEPT ![r] = step] /\ job' = [job EXCEPT ![r] = ask]
        \/ /\ pc' = [pc EXCEPT ![r] = "recordRefusal"]
           /\ job' = [job EXCEPT ![r] = [ outcome |-> "forbidden" ]]
      BY <1>2 DEF Authenticate, Await, Refuse
  <2>2. UNCHANGED sessions
      BY DEF Authenticate, accessVars
  <2> QED BY <2>1, <2>2, AccessQuietStep
<1> QED BY <1>1, <1>2

LEMMA RequestKeeps ==
    ASSUME AccessInv, NEW r \in Requests, NEW s \in Requests, AccessRequest(r, s)
    PROVE  AccessInv' /\ SessionsKept
<1>1. \E step \in {"findRoleCode", "findRole", "findNewRole", "findAssignment", "recordRefusal"} :
          \E ask : Authenticate(r, s, step, ask)
  <2>1. ASSUME NEW role, NEW status, CreateRole(r, s, role, status)
        PROVE  \E ask : Authenticate(r, s, "findRoleCode", ask)
      BY <2>1 DEF CreateRole
  <2>2. ASSUME NEW role, NEW change, UpdateRole(r, s, role, change)
        PROVE  \E ask : Authenticate(r, s, "findRole", ask)
      BY <2>2 DEF UpdateRole
  <2>3. ASSUME NEW user, NEW role, NEW member, CreateAssignment(r, s, user, role, member)
        PROVE  \E ask : Authenticate(r, s, "findNewRole", ask)
      BY <2>3 DEF CreateAssignment
  <2>4. ASSUME NEW user, NEW role, RemoveAssignment(r, s, user, role)
        PROVE  \E ask : Authenticate(r, s, "findAssignment", ask)
      BY <2>4 DEF RemoveAssignment
  <2>5. ASSUME NEW user, NEW role, NEW old, ChangeAssignment(r, s, user, role, old)
        PROVE  \E step \in {"findNewRole", "recordRefusal"} :
                   \E ask : Authenticate(r, s, step, ask)
      BY <2>5 DEF ChangeAssignment
  <2> QED BY <2>1, <2>2, <2>3, <2>4, <2>5 DEF AccessRequest
<1> QED BY <1>1, AuthenticateKeeps

LEMMA HandlerKeeps ==
    ASSUME AccessInv, NEW r \in Requests,
           \/ FindRoleCode(r) \/ FindRole(r) \/ SaveRole(r) \/ RecordRole(r)
           \/ FindNewRole(r) \/ FindOrganization(r) \/ FindCurrent(r) \/ FindActive(r)
           \/ FindAssignment(r) \/ RevokeCurrent(r) \/ SaveAssignment(r) \/ RecordAssignment(r)
           \/ RecordRefusal(r) /\ UNCHANGED accessVars
           \/ QueryFails(r) /\ UNCHANGED accessVars
    PROVE  AccessInv' /\ SessionsKept
<1>1. UNCHANGED sessions
    BY DEF FindRoleCode, FindRole, SaveRole, RecordRole, FindNewRole, FindOrganization,
           FindCurrent, FindActive, FindAssignment, RevokeCurrent, SaveAssignment,
           RecordAssignment, Put, accessVars
<1>2. \E step \in {"done", "refused", "failed", "recordRefusal", "saveRole", "recordRole",
                   "findOrganization", "findCurrent", "findActive", "saveAssignment",
                   "revokeCurrent", "recordAssignment"} :
          pc' = [pc EXCEPT ![r] = step] /\ \E j : job' = [job EXCEPT ![r] = j]
    BY DEF FindRoleCode, FindRole, SaveRole, RecordRole, FindNewRole, FindOrganization,
           FindCurrent, FindActive, FindAssignment, RevokeCurrent, SaveAssignment,
           RecordAssignment, RecordRefusal, QueryFails, Await, Answer, Refuse
<1> QED BY <1>1, <1>2, AccessQuietStep

LEMMA AccessCrashKeeps ==
    ASSUME AccessInv, Crash, UNCHANGED accessVars
    PROVE  AccessInv' /\ SessionsKept
BY DEF AccessInv, SaveFits, SessionsKept, Crash, InFlight, accessVars

-----------------------------------------------------------------------------
(* Logins, logouts and the saving of a session.                            *)

LEMMA LoginKeeps ==
    ASSUME AccessInv, NEW r \in Requests, NEW user \in Users, Login(r, user)
    PROVE  AccessInv' /\ SessionsKept
<1> DEFINE row == [ user |-> user, status |-> "active", roles |-> Granted(user) ]
<1>1. /\ pc[r] = "idle" /\ pc' = [pc EXCEPT ![r] = "saveSession"]
      /\ job' = [job EXCEPT ![r] = [ id |-> r, row |-> row ]] /\ UNCHANGED sessions
    BY DEF Login, NextToArrive, Await, accessVars
<1>2. row \in SessionRow /\ row.status = "active"
    BY DEF SessionRow, Granted
<1> HIDE DEF row
<1>3. [ id |-> r, row |-> row ].id = r /\ [ id |-> r, row |-> row ].row = row
    OBVIOUS
<1> QED BY <1>1, <1>2, <1>3 DEF AccessInv, SaveFits, SessionsKept

LEMMA LogoutKeeps ==
    ASSUME AccessInv, NEW r \in Requests, NEW s \in Requests, Logout(r, s)
    PROVE  AccessInv' /\ SessionsKept
<1> DEFINE row == [sessions[s] EXCEPT !.status = "revoked"]
<1>1. /\ sessions[s] # None /\ pc' = [pc EXCEPT ![r] = "saveSession"]
      /\ job' = [job EXCEPT ![r] = [ id |-> s, row |-> row ]] /\ UNCHANGED sessions
    BY DEF Logout, Await, accessVars
<1>2. row \in SessionRow /\ row.status # "active" /\ row.roles = sessions[s].roles
    BY <1>1 DEF AccessInv, SessionRow
<1> HIDE DEF row
<1>3. [ id |-> s, row |-> row ].id = s /\ [ id |-> s, row |-> row ].row = row
    OBVIOUS
<1> QED BY <1>1, <1>2, <1>3 DEF AccessInv, SaveFits, SessionsKept

LEMMA SaveSessionKeeps ==
    ASSUME AccessInv, NEW r \in Requests, SaveSession(r)
    PROVE  AccessInv' /\ SessionsKept
<1> DEFINE s == job[r].id
           row == job[r].row
<1>1. /\ pc[r] = "saveSession" /\ pc' = [pc EXCEPT ![r] = "done"]
      /\ job' = [job EXCEPT ![r] = None] /\ sessions' = [sessions EXCEPT ![s] = row]
    BY DEF SaveSession, Answer
<1>2. /\ s \in Requests /\ row \in SessionRow /\ row # None
      /\ row.status = "active" => s = r /\ sessions[r] = None
      /\ row.status # "active" => sessions[s] # None /\ row.roles = sessions[s].roles
    BY <1>1, AccessAssumption DEF AccessInv, SaveFits
<1> HIDE DEF s, row
<1>3. SessionsKept
    BY <1>1, <1>2 DEF AccessInv, SessionsKept
<1>4. /\ pc' = [q \in Requests |-> pc'[q]] /\ job' = [q \in Requests |-> job'[q]]
      /\ sessions' \in [Requests -> SessionRow \union {None}]
    BY <1>1, <1>2 DEF AccessInv
<1>5. ASSUME NEW q \in Requests, pc'[q] = "idle"
      PROVE  sessions'[q] = None
  <2>1. q # r /\ pc[q] = "idle" /\ sessions[q] = None
      BY <1>1, <1>5 DEF AccessInv
  <2> QED BY <1>1, <1>2, <2>1 DEF AccessInv
<1>6. ASSUME NEW q \in Requests, pc'[q] = "saveSession"
      PROVE  SaveFits(q)'
  <2>1. q # r /\ pc[q] = "saveSession" /\ SaveFits(q) /\ job'[q] = job[q]
      BY <1>1, <1>6 DEF AccessInv
  <2>2. sessions[q] = None => s # q
      BY <1>2, <2>1
  <2>3. \A p \in Requests : sessions[p] # None =>
            sessions'[p] # None /\ sessions'[p].roles = sessions[p].roles
      BY <1>1, <1>2 DEF AccessInv
  <2> QED BY <1>1, <2>1, <2>2, <2>3 DEF AccessInv, SaveFits
<1> QED BY <1>3, <1>4, <1>5, <1>6 DEF AccessInv

-----------------------------------------------------------------------------

LEMMA AccessStepKeeps == AccessInv /\ [AccessNext]_accessState => AccessInv' /\ [SessionsKept]_accessState
<1> SUFFICES ASSUME AccessInv, [AccessNext]_accessState
             PROVE  AccessInv' /\ [SessionsKept]_accessState
    OBVIOUS
<1>1. CASE UNCHANGED accessState
    BY <1>1 DEF accessState, accessVars, handling, AccessInv, SaveFits
<1>2. ASSUME NEW r \in Requests, AccessStep(r)
      PROVE  AccessInv' /\ SessionsKept
  <2>1. CASE SessionExpires(r)
      BY <2>1 DEF SessionExpires, handling, AccessInv, SaveFits, SessionsKept
  <2> QED BY <1>2, <2>1, RequestKeeps, HandlerKeeps, LoginKeeps, LogoutKeeps, SaveSessionKeeps
      DEF AccessStep
<1> QED BY <1>1, <1>2, HandlerKeeps, AccessCrashKeeps DEF AccessNext

\* Sessions are opened by their own login, and whoever saves one later keeps its roles.
THEOREM AccessInvariantHolds == AccessSpec => []AccessInv
<1>1. HandlingInit /\ AccessInit => AccessInv
  <2> SUFFICES ASSUME HandlingInit, AccessInit PROVE AccessInv
      OBVIOUS
  <2>1. sessions \in [Requests -> SessionRow \union {None}]
      BY AccessAssumption, HandlingAssumption DEF AccessInit, SessionRow, Requests
  <2> QED BY <2>1, AccessAssumption, HandlingAssumption
      DEF HandlingInit, AccessInit, AccessInv, Requests
<1> QED BY <1>1, AccessStepKeeps, PTL DEF AccessSpec

\* However logouts, expiry and requests of one session overlap, what has ended is never
\* active again, and no session gains or loses a role.
THEOREM SessionsEnd == AccessSpec => EndedSessionsStayEnded
<1>1. [SessionsKept]_accessState =>
          [\A s \in Requests : sessions[s] # None =>
              /\ sessions'[s].roles = sessions[s].roles
              /\ sessions[s].status # "active" => sessions'[s].status # "active"]_accessState
    BY DEF SessionsKept
<1> QED BY <1>1, AccessStepKeeps, AccessInvariantHolds, PTL DEF AccessSpec, EndedSessionsStayEnded

-----------------------------------------------------------------------------
(* AccessControl: an assignment is accounted for by the audit event of the *)
(* request that wrote it.                                                  *)

Asking == { "findNewRole", "findOrganization", "findCurrent", "findActive", "findAssignment",
            "revokeCurrent", "saveAssignment", "recordAssignment" }

\* What a handler at this step keeps of a request about an assignment.
Asks(step, j) ==
    step \in Asking =>
        /\ j.user \in Users /\ j.role \in RoleCodes
        /\ j.action \in {"create", "remove", "change"}
        /\ j.action = "change" => j.old \in RoleCodes \ {j.role}
        /\ step \in {"findCurrent", "revokeCurrent"} => j.action = "change"
        /\ step = "findOrganization" => j.action = "create"
        /\ step = "findAssignment" => j.action = "remove"
        /\ step \in {"findNewRole", "findActive"} => j.action # "remove"

\* The row is what this request, or the event of it, does.
Accounts(e, user, role, status) ==
    /\ e.user = user
    /\ status = "active" => e.action # "remove" /\ e.role = role
    /\ status = "revoked" => ((e.action = "remove") <=> (e.role = role))

WrittenBy(r, user, role) ==
    assignments[<<user, role>>] # None /\ assignments[<<user, role>>].by = r

\* The rows a request has written, by how far it has come.
RowAccounted(r, user, role) ==
    WrittenBy(r, user, role) =>
        LET status == assignments[<<user, role>>].status
        IN  /\ pc[r] \in {"saveAssignment", "recordAssignment", "done", "failed"}
            /\ pc[r] = "saveAssignment" =>
                   /\ job[r].action = "change" /\ job[r].user = user /\ job[r].old = role
                   /\ status = "revoked"
            /\ pc[r] = "recordAssignment" => Accounts(job[r], user, role, status)
            /\ pc[r] = "done" => events[r] # None /\ Accounts(events[r], user, role, status)

\* What request r asked is how the table is, or a later request has written.
LastWord(r, e) ==
    \/ /\ assignments[<<e.user, e.role>>] # None
       /\ assignments[<<e.user, e.role>>].by > r
    \/ /\ IsActive(e.user, e.role) <=> (e.action # "remove")
       /\ e.action = "change" =>
              \E old \in RoleCodes \ {e.role} :
                  /\ assignments[<<e.user, old>>] # None
                  /\ assignments[<<e.user, old>>].by >= r
                  /\ WrittenBy(r, e.user, old) => assignments[<<e.user, old>>].status = "revoked"

SerialFits(r) ==
    limit = 1 =>
        /\ events[r] # None => LastWord(r, events[r])
        /\ pc[r] = "recordAssignment" => LastWord(r, job[r])
        /\ pc[r] = "saveAssignment" /\ job[r].action = "change" =>
               /\ WrittenBy(r, job[r].user, job[r].old)
               /\ assignments[<<job[r].user, job[r].old>>].status = "revoked"

AccountTypeOK ==
    /\ HandlingOK
    /\ refusals = [r \in Requests |-> refusals[r]]
    /\ assignments \in [Users \X RoleCodes -> Assignment \union {None}]
    /\ events \in [Requests -> AccessEvent \union {None}]

AnswersFit(r) ==
    /\ events[r] # None => pc[r] = "done"
    /\ refusals[r] # None => pc[r] = "refused"

AccountInv ==
    /\ AccountTypeOK
    /\ InTurn
    /\ \A r \in Requests :
           /\ Asks(pc[r], job[r])
           /\ \A user \in Users, role \in RoleCodes : RowAccounted(r, user, role)
           /\ AnswersFit(r)
           /\ SerialFits(r)

-----------------------------------------------------------------------------
(* What others may write.                                                  *)

LEMMA KeysOfRows ==
    ASSUME NEW k \in Users \X RoleCodes
    PROVE  k[1] \in Users /\ k[2] \in RoleCodes /\ k = <<k[1], k[2]>>
OBVIOUS

LEMMA RowType ==
    ASSUME AccountTypeOK, NEW user \in Users, NEW role \in RoleCodes
    PROVE  assignments[<<user, role>>] \in Assignment \union {None}
BY DEF AccountTypeOK

\* Each row is as it was, or of a request after r.
LaterWrites(r) ==
    \A user \in Users, role \in RoleCodes :
        \/ assignments'[<<user, role>>] = assignments[<<user, role>>]
        \/ /\ assignments'[<<user, role>>] # None
           /\ assignments'[<<user, role>>].by > r
           /\ assignments'[<<user, role>>].by >= r
           /\ assignments'[<<user, role>>].by # r

LEMMA LastWordStays ==
    ASSUME NEW r \in Requests, LaterWrites(r),
           NEW e, e.user \in Users, e.role \in RoleCodes, LastWord(r, e)
    PROVE  LastWord(r, e)'
<1>2. CASE assignments'[<<e.user, e.role>>] # assignments[<<e.user, e.role>>]
    BY <1>2 DEF LaterWrites, LastWord
<1>3. CASE assignments'[<<e.user, e.role>>] = assignments[<<e.user, e.role>>]
  <2>1. CASE assignments[<<e.user, e.role>>] # None /\ assignments[<<e.user, e.role>>].by > r
      BY <1>3, <2>1 DEF LastWord
  <2>2. CASE ~(assignments[<<e.user, e.role>>] # None /\ assignments[<<e.user, e.role>>].by > r)
    <3>1. IsActive(e.user, e.role) <=> (e.action # "remove")
        BY <2>2 DEF LastWord
    <3>2. IsActive(e.user, e.role)' <=> (e.action # "remove")
        BY <1>3, <3>1 DEF IsActive
    <3>3. ASSUME e.action = "change"
          PROVE  \E old \in RoleCodes \ {e.role} :
                     /\ assignments'[<<e.user, old>>] # None
                     /\ assignments'[<<e.user, old>>].by >= r
                     /\ WrittenBy(r, e.user, old)' => assignments'[<<e.user, old>>].status = "revoked"
      <4>1. PICK old \in RoleCodes \ {e.role} :
                     /\ assignments[<<e.user, old>>] # None
                     /\ assignments[<<e.user, old>>].by >= r
                     /\ WrittenBy(r, e.user, old) => assignments[<<e.user, old>>].status = "revoked"
          BY <2>2, <3>3 DEF LastWord
      <4>2. CASE assignments'[<<e.user, old>>] = assignments[<<e.user, old>>]
          BY <4>1, <4>2 DEF WrittenBy
      <4>3. CASE assignments'[<<e.user, old>>] # assignments[<<e.user, old>>]
        <5>1. /\ assignments'[<<e.user, old>>] # None
              /\ assignments'[<<e.user, old>>].by >= r /\ assignments'[<<e.user, old>>].by # r
            BY <4>1, <4>3 DEF LaterWrites
        <5> QED BY <4>1, <5>1 DEF WrittenBy
      <4> QED BY <4>2, <4>3
    <3> QED BY <3>2, <3>3 DEF LastWord
  <2> QED BY <2>1, <2>2
<1> QED BY <1>2, <1>3

\* A step of r writes nothing, or a row of its own while it is in flight.
WritesOwn(r) ==
    \/ UNCHANGED assignments
    \/ /\ pc[r] \in {"revokeCurrent", "saveAssignment"}
       /\ \A user \in Users, role \in RoleCodes :
              \/ assignments'[<<user, role>>] = assignments[<<user, role>>]
              \/ assignments'[<<user, role>>] # None /\ assignments'[<<user, role>>].by = r

OthersAnswersStay(r) ==
    \A q \in Requests \ {r} : events'[q] = events[q] /\ refusals'[q] = refusals[q]

LEMMA AccountStepKeeps ==
    ASSUME AccountInv, NEW r \in Requests, NEW step, NEW j, Goes(r, step, j),
           AccountTypeOK', WritesOwn(r), OthersAnswersStay(r), Asks(step, j),
           \A user \in Users, role \in RoleCodes : RowAccounted(r, user, role)',
           AnswersFit(r)', SerialFits(r)'
    PROVE  AccountInv'
<1>1. InTurn'
    BY TurnsKept DEF AccountInv, Goes
<1>2. Asks(pc'[r], job'[r])
    BY DEF Goes
<1>3. ASSUME NEW q \in Requests \ {r}
      PROVE  /\ Asks(pc'[q], job'[q])
             /\ \A user \in Users, role \in RoleCodes : RowAccounted(q, user, role)'
             /\ AnswersFit(q)'
             /\ SerialFits(q)'
  <2>1. /\ pc'[q] = pc[q] /\ job'[q] = job[q] /\ limit' = limit
        /\ events'[q] = events[q] /\ refusals'[q] = refusals[q]
      BY DEF Goes, Moves, OthersAnswersStay
  <2>2. /\ Asks(pc[q], job[q]) /\ AnswersFit(q) /\ SerialFits(q)
        /\ \A user \in Users, role \in RoleCodes : RowAccounted(q, user, role)
      BY DEF AccountInv
  <2>3. ASSUME NEW user \in Users, NEW role \in RoleCodes PROVE RowAccounted(q, user, role)'
    <3>1. WrittenBy(q, user, role)' => assignments'[<<user, role>>] = assignments[<<user, role>>]
        BY DEF WritesOwn, WrittenBy
    <3> QED BY <2>1, <2>2, <3>1 DEF RowAccounted, WrittenBy
  <2>4. AnswersFit(q)'
      BY <2>1, <2>2 DEF AnswersFit
  <2>5. ASSUME limit = 1, pc[q] # "idle" PROVE LaterWrites(q)
    <3>1. CASE UNCHANGED assignments
        BY <3>1 DEF LaterWrites
    <3>2. CASE pc[r] \in {"revokeCurrent", "saveAssignment"}
      <4>1. q < r
        <5>1. q < r \/ r < q
            BY HandlingAssumption DEF Requests
        <5> QED BY <2>5, <3>2, <5>1 DEF AccountInv, InTurn, Answered
      <4>2. r > q /\ r >= q /\ r # q
          BY <4>1, HandlingAssumption DEF Requests
      <4>3. ASSUME NEW user \in Users, NEW role \in RoleCodes
            PROVE  \/ assignments'[<<user, role>>] = assignments[<<user, role>>]
                   \/ assignments'[<<user, role>>] # None /\ assignments'[<<user, role>>].by = r
          BY DEF WritesOwn
      <4> QED BY <4>2, <4>3 DEF LaterWrites
    <3> QED BY <3>1, <3>2 DEF WritesOwn
  <2>6. ASSUME limit = 1, events[q] # None PROVE LastWord(q, events[q])'
    <3>1. events[q].user \in Users /\ events[q].role \in RoleCodes
        BY <2>6 DEF AccountInv, AccountTypeOK, AccessEvent
    <3>2. LaterWrites(q) /\ LastWord(q, events[q])
        BY <2>2, <2>5, <2>6 DEF AnswersFit, SerialFits
    <3>3. PICK e : e = events[q]
        OBVIOUS
    <3>4. LastWord(q, e)'
        BY <3>1, <3>2, <3>3, LastWordStays
    <3> QED BY <2>1, <3>3, <3>4
  <2>7. ASSUME limit = 1, pc[q] \in {"saveAssignment", "recordAssignment"}
        PROVE  UNCHANGED assignments
    <3>1. q < r \/ r < q
        BY HandlingAssumption DEF Requests
    <3>2. pc[r] \notin {"revokeCurrent", "saveAssignment"}
        BY <2>7, <3>1 DEF AccountInv, InTurn, Answered
    <3> QED BY <3>2 DEF WritesOwn
  <2>8. SerialFits(q)'
    <3>1. ASSUME limit = 1, pc[q] = "recordAssignment" PROVE LastWord(q, job[q])'
      <4>1. UNCHANGED assignments /\ LastWord(q, job[q])
          BY <2>2, <2>7, <3>1 DEF SerialFits
      <4> QED BY <2>1, <4>1 DEF LastWord, IsActive, WrittenBy
    <3>2. ASSUME limit = 1, pc[q] = "saveAssignment", job[q].action = "change"
          PROVE  /\ WrittenBy(q, job[q].user, job[q].old)'
                 /\ assignments'[<<job[q].user, job[q].old>>].status = "revoked"
        BY <2>1, <2>2, <2>7, <3>2 DEF SerialFits, WrittenBy
    <3> QED BY <2>1, <2>6, <3>1, <3>2 DEF SerialFits
  <2> QED BY <2>1, <2>2, <2>3, <2>4, <2>8
<1>4. ASSUME NEW q \in Requests
      PROVE  /\ Asks(pc[q], job[q])'
             /\ \A user \in Users, role \in RoleCodes : RowAccounted(q, user, role)'
             /\ AnswersFit(q)' /\ SerialFits(q)'
  <2>1. CASE q = r
      BY <1>2, <2>1 DEF Asks
  <2>2. CASE q # r
      BY <1>3, <2>2 DEF Asks
  <2> QED BY <2>1, <2>2
<1> QED BY <1>1, <1>4 DEF AccountInv

\* The handler has written nothing so far.
Unwritten(r) ==
    \/ NextToArrive(r)
    \/ InFlight(r) /\ pc[r] \notin {"saveAssignment", "recordAssignment"}

\* A handler that has written nothing may get to this step.
Reaches(step, j) ==
    /\ Asks(step, j)
    /\ step = "recordAssignment" => j.action = "remove" /\ ~IsActive(j.user, j.role)
    /\ step = "saveAssignment" => j.action # "change"

\* A step of a handler that has written nothing, and writes nothing.
LEMMA AccountQuietStep ==
    ASSUME AccountInv, NEW r \in Requests, NEW step, NEW j, Goes(r, step, j), HandlingOK',
           UNCHANGED <<assignments, events>>,
           \/ UNCHANGED refusals
           \/ step = "refused" /\ \E o : refusals' = [refusals EXCEPT ![r] = o],
           pc[r] \notin {"saveAssignment", "recordAssignment"} \/ step = "failed",
           Reaches(step, j)
    PROVE  AccountInv'
<1>1. AccountTypeOK' /\ WritesOwn(r) /\ OthersAnswersStay(r)
    BY DEF AccountInv, AccountTypeOK, WritesOwn, OthersAnswersStay
<1>2. pc'[r] = step /\ job'[r] = j /\ pc[r] \notin Answered
    BY DEF Goes, Moves
<1>3. events[r] = None /\ refusals[r] = None
    BY <1>2 DEF AccountInv, AnswersFit, Answered
<1>4. AnswersFit(r)'
    BY <1>2, <1>3 DEF AnswersFit
<1>5. ASSUME NEW user \in Users, NEW role \in RoleCodes PROVE RowAccounted(r, user, role)'
  <2>1. RowAccounted(r, user, role)
      BY DEF AccountInv
  <2> QED BY <1>2, <2>1 DEF RowAccounted, WrittenBy, Answered
<1>6. SerialFits(r)'
  <2>1. step = "recordAssignment" => LastWord(r, j)
      BY DEF LastWord, Reaches
  <2>2. step = "recordAssignment" => LastWord(r, j)'
      BY <2>1 DEF LastWord, IsActive, WrittenBy
  <2> QED BY <1>2, <1>3, <2>2 DEF SerialFits, Reaches
<1> QED BY <1>1, <1>4, <1>5, <1>6, AccountStepKeeps DEF Reaches

LEMMA AccountAwaits ==
    ASSUME AccountInv, NEW r \in Requests,
           Unwritten(r), NEW step, NEW j, Await(r, step, j), UNCHANGED <<assignments, events>>,
           Reaches(step, j)
    PROVE  AccountInv'
<1>1. Goes(r, step, j) /\ HandlingOK'
    BY AwaitGoes DEF AccountInv, AccountTypeOK, Unwritten
<1>2. UNCHANGED refusals /\ pc[r] \notin {"saveAssignment", "recordAssignment"}
    BY DEF Await, NextToArrive, Unwritten
<1> QED BY <1>1, <1>2, AccountQuietStep

LEMMA AccountAnswers ==
    ASSUME AccountInv, NEW r \in Requests, InFlight(r), NEW how \in Answered, Answer(r, how),
           pc[r] \notin {"saveAssignment", "recordAssignment"} \/ how = "failed",
           UNCHANGED <<assignments, events>>
    PROVE  AccountInv'
<1>1. Goes(r, how, None) /\ HandlingOK'
    BY AnswerGoes DEF AccountInv, AccountTypeOK
<1>2. UNCHANGED refusals /\ Reaches(how, None)
    BY DEF Answer, Answered, Asks, Asking, Reaches
<1> QED BY <1>1, <1>2, AccountQuietStep

-----------------------------------------------------------------------------
(* Steps that write no assignment.                                         *)

LEMMA AuthenticatedAsks ==
    ASSUME AccountInv, NEW r \in Requests, NEW s, NEW step, NEW j, Authenticate(r, s, step, j),
           Reaches(step, j)
    PROVE  AccountInv'
<1>1. Unwritten(r) /\ UNCHANGED <<assignments, events>>
    BY DEF Authenticate, accessVars, Unwritten
<1>2. PICK row : \/ Await(r, "saveSession", [ id |-> s, row |-> row ])
                 \/ Await(r, step, j)
                 \/ Refuse(r, "forbidden")
    BY DEF Authenticate
<1>3. \A k : Reaches("saveSession", k) /\ Reaches("recordRefusal", k)
    BY DEF Asks, Asking, Reaches
<1> QED BY <1>1, <1>2, <1>3, AccountAwaits DEF Refuse

LEMMA ArrivalsKeepAccounts ==
    ASSUME AccountInv, NEW r \in Requests, NEW s, AccessRequest(r, s)
    PROVE  AccountInv'
<1>1. ASSUME NEW role, NEW status, CreateRole(r, s, role, status) PROVE AccountInv'
  <2>1. Reaches("findRoleCode", [ role |-> role, status |-> status, text |-> r ])
      BY DEF Asks, Asking, Reaches
  <2> QED BY <1>1, <2>1, AuthenticatedAsks DEF CreateRole
<1>2. ASSUME NEW role, NEW change, UpdateRole(r, s, role, change) PROVE AccountInv'
  <2>1. Reaches("findRole", [ role |-> role, status |-> change.status, text |-> change.text ])
      BY DEF Asks, Asking, Reaches
  <2> QED BY <1>2, <2>1, AuthenticatedAsks DEF UpdateRole
<1>3. ASSUME NEW user \in Users, NEW role \in RoleCodes, NEW member,
             CreateAssignment(r, s, user, role, member)
      PROVE  AccountInv'
  <2> DEFINE j == [ action |-> "create", user |-> user, role |-> role, member |-> member ]
  <2>1. j.action = "create" /\ j.user = user /\ j.role = role
      OBVIOUS
  <2>2. Authenticate(r, s, "findNewRole", j)
      BY <1>3 DEF CreateAssignment
  <2> HIDE DEF j
  <2>3. Reaches("findNewRole", j)
      BY <2>1 DEF Asks, Reaches
  <2> QED BY <2>2, <2>3, AuthenticatedAsks
<1>4. ASSUME NEW user \in Users, NEW role \in RoleCodes, RemoveAssignment(r, s, user, role)
      PROVE  AccountInv'
  <2> DEFINE j == [ action |-> "remove", user |-> user, role |-> role ]
  <2>1. j.action = "remove" /\ j.user = user /\ j.role = role
      OBVIOUS
  <2>2. Authenticate(r, s, "findAssignment", j)
      BY <1>4 DEF RemoveAssignment
  <2> HIDE DEF j
  <2>3. Reaches("findAssignment", j)
      BY <2>1 DEF Asks, Reaches
  <2> QED BY <2>2, <2>3, AuthenticatedAsks
<1>5. ASSUME NEW user \in Users, NEW role \in RoleCodes, NEW old \in RoleCodes,
             ChangeAssignment(r, s, user, role, old)
      PROVE  AccountInv'
  <2>1. CASE role = old
    <3>1. Reaches("recordRefusal", [ outcome |-> ChangeReply.sameRole ])
        BY DEF Asks, Asking, Reaches
    <3> QED BY <1>5, <2>1, <3>1, AuthenticatedAsks DEF ChangeAssignment
  <2>2. CASE role # old
    <3> DEFINE j == [ action |-> "change", user |-> user, role |-> role, old |-> old ]
    <3>1. j.action = "change" /\ j.user = user /\ j.role = role /\ j.old = old
        OBVIOUS
    <3>2. Authenticate(r, s, "findNewRole", j)
        BY <1>5, <2>2 DEF ChangeAssignment
    <3> HIDE DEF j
    <3>3. Reaches("findNewRole", j)
        BY <2>2, <3>1 DEF Asks, Reaches
    <3> QED BY <3>2, <3>3, AuthenticatedAsks
  <2> QED BY <2>1, <2>2
<1> QED BY <1>1, <1>2, <1>3, <1>4, <1>5 DEF AccessRequest

LEMMA SessionsAndRolesKeepAccounts ==
    ASSUME AccountInv, NEW r \in Requests,
           \/ \E user \in Users : Login(r, user)
           \/ \E s \in Requests : Logout(r, s)
           \/ SaveSession(r) \/ FindRoleCode(r) \/ FindRole(r) \/ SaveRole(r) \/ RecordRole(r)
    PROVE  AccountInv'
<1>1. \A step, j : step \notin Asking => Asks(step, j)
    BY DEF Asks
<1>2. ASSUME NEW step, NEW j, Await(r, step, j), step \notin Asking,
             UNCHANGED <<assignments, events>>,
             NextToArrive(r) \/ pc[r] \in {"saveSession", "findRoleCode", "findRole", "saveRole"}
      PROVE  AccountInv'
  <2>1. Reaches(step, j)
      BY <1>1, <1>2 DEF Asking, Reaches
  <2>2. Unwritten(r)
      BY <1>2 DEF InFlight, Unwritten
  <2> QED BY <1>2, <2>1, <2>2, AccountAwaits
<1>3. ASSUME pc[r] \in {"saveSession", "recordRole"}, Answer(r, "done"),
             UNCHANGED <<assignments, events>>
      PROVE  AccountInv'
    BY <1>3, AccountAnswers DEF InFlight, Answered
<1>4. \A step \in {"saveSession", "saveRole", "recordRole", "recordRefusal"} : step \notin Asking
    BY DEF Asking
<1>5. ASSUME NEW user, Login(r, user) PROVE AccountInv'
    BY <1>2, <1>4, <1>5 DEF Login, accessVars
<1>6. ASSUME NEW s, Logout(r, s) PROVE AccountInv'
    BY <1>2, <1>4, <1>6 DEF Logout, accessVars
<1>7. CASE SaveSession(r)
    BY <1>3, <1>7 DEF SaveSession
<1>8. CASE FindRoleCode(r)
    BY <1>2, <1>4, <1>8 DEF FindRoleCode, Refuse, accessVars
<1>9. CASE FindRole(r)
  <2>1. PICK j : Await(r, "saveRole", j) \/ Await(r, "recordRefusal", j)
      BY <1>9 DEF FindRole, Refuse
  <2> QED BY <1>2, <1>4, <1>9, <2>1 DEF FindRole, accessVars
<1>10. CASE SaveRole(r)
    BY <1>2, <1>4, <1>10 DEF SaveRole
<1>11. CASE RecordRole(r)
    BY <1>3, <1>11 DEF RecordRole, accessVars
<1> QED BY <1>5, <1>6, <1>7, <1>8, <1>9, <1>10, <1>11

LEMMA LookupsKeepAccounts ==
    ASSUME AccountInv, NEW r \in Requests,
           \/ FindNewRole(r) \/ FindOrganization(r) \/ FindCurrent(r) \/ FindActive(r)
           \/ FindAssignment(r)
    PROVE  AccountInv'
<1>1. /\ pc[r] \in {"findNewRole", "findOrganization", "findCurrent", "findActive", "findAssignment"}
      /\ UNCHANGED <<assignments, events>>
    BY DEF FindNewRole, FindOrganization, FindCurrent, FindActive, FindAssignment, accessVars
<1>2. Unwritten(r)
    BY <1>1 DEF InFlight, Unwritten
<1>3. Asks(pc[r], job[r]) /\ pc[r] \in Asking
    BY <1>1 DEF AccountInv, Asking
<1>4. /\ job[r].user \in Users /\ job[r].role \in RoleCodes
      /\ job[r].action \in {"create", "remove", "change"}
      /\ job[r].action = "change" => job[r].old \in RoleCodes \ {job[r].role}
      /\ pc[r] \in {"findCurrent", "revokeCurrent"} => job[r].action = "change"
      /\ pc[r] = "findOrganization" => job[r].action = "create"
      /\ pc[r] = "findAssignment" => job[r].action = "remove"
      /\ pc[r] \in {"findNewRole", "findActive"} => job[r].action # "remove"
    BY <1>3 DEF Asks
<1>5. ASSUME NEW outcome, Refuse(r, outcome) PROVE AccountInv'
  <2>1. Reaches("recordRefusal", [ outcome |-> outcome ])
      BY DEF Asks, Asking, Reaches
  <2> QED BY <1>1, <1>2, <1>5, <2>1, AccountAwaits DEF Refuse
<1>6. ASSUME NEW step, Await(r, step, job[r]), step # "findAssignment",
             step \in {"findCurrent", "revokeCurrent"} => job[r].action = "change",
             step = "findOrganization" => job[r].action = "create",
             step = "recordAssignment" =>
                 job[r].action = "remove" /\ ~IsActive(job[r].user, job[r].role),
             step = "saveAssignment" => job[r].action # "change",
             step = "findActive" => job[r].action # "remove", step # "findNewRole"
      PROVE  AccountInv'
  <2>1. Reaches(step, job[r])
      BY <1>4, <1>6 DEF Asks, Reaches
  <2> QED BY <1>1, <1>2, <1>6, <2>1, AccountAwaits
<1>7. CASE FindNewRole(r)
  <2>1. CASE roles[job[r].role] # None /\ job[r].action = "create"
    <3>1. Await(r, "findOrganization", job[r])
        BY <1>7, <2>1 DEF FindNewRole
    <3> QED BY <1>6, <2>1, <3>1
  <2>2. CASE roles[job[r].role] # None /\ job[r].action # "create"
    <3>1. Await(r, "findCurrent", job[r]) /\ pc[r] = "findNewRole"
        BY <1>7, <2>2 DEF FindNewRole
    <3>2. job[r].action = "change"
        BY <1>4, <2>2, <3>1
    <3> QED BY <1>6, <3>1, <3>2
  <2>3. CASE roles[job[r].role] = None
      BY <1>5, <1>7, <2>3 DEF FindNewRole
  <2> QED BY <2>1, <2>2, <2>3
<1>8. CASE FindOrganization(r)
    BY <1>4, <1>5, <1>6, <1>8 DEF FindOrganization
<1>9. CASE FindCurrent(r)
    BY <1>4, <1>5, <1>6, <1>9 DEF FindCurrent
<1>10. CASE FindActive(r)
  <2>1. CASE ~IsActive(job[r].user, job[r].role) /\ job[r].action = "create"
    <3>1. Await(r, "saveAssignment", job[r])
        BY <1>10, <2>1 DEF FindActive
    <3> QED BY <1>6, <2>1, <3>1
  <2>2. CASE ~IsActive(job[r].user, job[r].role) /\ job[r].action # "create"
    <3>1. Await(r, "revokeCurrent", job[r]) /\ pc[r] = "findActive"
        BY <1>10, <2>2 DEF FindActive
    <3>2. job[r].action = "change"
        BY <1>4, <2>2, <3>1
    <3> QED BY <1>6, <3>1, <3>2
  <2>3. CASE IsActive(job[r].user, job[r].role)
      BY <1>5, <1>10, <2>3 DEF FindActive
  <2> QED BY <2>1, <2>2, <2>3
<1>11. CASE FindAssignment(r)
  <2>1. pc[r] = "findAssignment" /\ job[r].action = "remove"
      BY <1>4, <1>11 DEF FindAssignment
  <2>2. \/ Refuse(r, RemoveReply.notFound)
        \/ /\ assignments[<<job[r].user, job[r].role>>].status = "revoked"
           /\ Await(r, "recordAssignment", job[r])
        \/ Await(r, "saveAssignment", job[r])
      BY <1>11 DEF FindAssignment
  <2> QED BY <1>5, <1>6, <2>1, <2>2 DEF IsActive
<1> QED BY <1>7, <1>8, <1>9, <1>10, <1>11

LEMMA RefusalsKeepAccounts ==
    ASSUME AccountInv, NEW r \in Requests, RecordRefusal(r), UNCHANGED accessVars
    PROVE  AccountInv'
<1>1. Goes(r, "refused", None) /\ HandlingOK' /\ pc[r] = "recordRefusal"
    BY DEF RecordRefusal, AccountInv, AccountTypeOK, HandlingOK, Goes, Moves, Answered
<1>2. /\ UNCHANGED <<assignments, events>>
      /\ \E o : refusals' = [refusals EXCEPT ![r] = o]
    BY DEF RecordRefusal, accessVars
<1>3. Reaches("refused", None)
    BY DEF Asks, Asking, Reaches
<1> QED BY <1>1, <1>2, <1>3, AccountQuietStep

-----------------------------------------------------------------------------
(* Steps that write.                                                       *)

\* One row is written, of the handler that writes.
OneRowPut(r, user, role, status) ==
    /\ assignments' \in [Users \X RoleCodes -> Assignment \union {None}]
    /\ UNCHANGED events
    /\ assignments'[<<user, role>>] # None
    /\ assignments'[<<user, role>>].by = r
    /\ assignments'[<<user, role>>].status = status
    /\ \A u \in Users, o \in RoleCodes :
           u # user \/ o # role => assignments'[<<u, o>>] = assignments[<<u, o>>]

LEMMA PutWrites ==
    ASSUME AccountInv, NEW r \in Requests, NEW user \in Users, NEW role \in RoleCodes,
           NEW status \in {"active", "revoked"}, Put(r, user, role, status)
    PROVE  OneRowPut(r, user, role, status)
<1> DEFINE row == [ status |-> status, by |-> r ]
<1>1. row \in Assignment /\ row.by = r /\ row.status = status
    BY DEF Assignment
<1>2. row # None
    BY <1>1, AccessAssumption
<1>3. assignments' = [assignments EXCEPT ![<<user, role>>] = row] /\ UNCHANGED events
    BY DEF Put
<1> HIDE DEF row
<1>4. <<user, role>> \in Users \X RoleCodes
    OBVIOUS
<1>5. \A u \in Users, o \in RoleCodes : u # user \/ o # role => <<u, o>> # <<user, role>>
    OBVIOUS
<1>6. assignments'[<<user, role>>] = row
    BY <1>3, <1>4 DEF AccountInv, AccountTypeOK
<1>7. \A u \in Users, o \in RoleCodes :
          u # user \/ o # role => assignments'[<<u, o>>] = assignments[<<u, o>>]
    BY <1>3, <1>5 DEF AccountInv, AccountTypeOK
<1>8. assignments' \in [Users \X RoleCodes -> Assignment \union {None}]
    BY <1>1, <1>3, <1>4 DEF AccountInv, AccountTypeOK
<1> QED BY <1>1, <1>2, <1>3, <1>6, <1>7, <1>8 DEF OneRowPut

LEMMA RevokeKeeps ==
    ASSUME AccountInv, NEW r \in Requests, RevokeCurrent(r)
    PROVE  AccountInv'
<1> DEFINE u == job[r].user
           old == job[r].old
<1>1. /\ pc[r] = "revokeCurrent" /\ Put(r, u, old, "revoked")
      /\ Await(r, "saveAssignment", job[r]) /\ UNCHANGED refusals
    BY DEF RevokeCurrent, Await
<1>2. /\ u \in Users /\ old \in RoleCodes /\ job[r].action = "change" /\ job[r].role \in RoleCodes
      /\ Asks("saveAssignment", job[r])
    BY <1>1 DEF AccountInv, Asks, Asking
<1>3. Goes(r, "saveAssignment", job[r]) /\ HandlingOK'
    BY <1>1, AwaitGoes DEF AccountInv, AccountTypeOK, InFlight
<1>4. pc'[r] = "saveAssignment" /\ job'[r] = job[r]
    BY <1>3 DEF Goes
<1>5. /\ assignments' \in [Users \X RoleCodes -> Assignment \union {None}]
      /\ UNCHANGED events
      /\ assignments'[<<u, old>>] # None
      /\ assignments'[<<u, old>>].by = r /\ assignments'[<<u, old>>].status = "revoked"
      /\ \A v \in Users, o \in RoleCodes :
             v # u \/ o # old => assignments'[<<v, o>>] = assignments[<<v, o>>]
  <2>1. OneRowPut(r, u, old, "revoked")
      BY <1>1, <1>2, PutWrites
  <2> HIDE DEF u, old
  <2> QED BY ONLY <2>1 DEF OneRowPut
<1> HIDE DEF u, old
<1>6. AccountTypeOK' /\ OthersAnswersStay(r)
    BY <1>1, <1>3, <1>5 DEF AccountInv, AccountTypeOK, OthersAnswersStay
<1>7. WritesOwn(r)
    BY <1>1, <1>5 DEF WritesOwn
<1>8. ASSUME NEW v \in Users, NEW o \in RoleCodes PROVE RowAccounted(r, v, o)'
  <2>1. ~WrittenBy(r, v, o)
      BY <1>1 DEF AccountInv, RowAccounted
  <2>2. WrittenBy(r, v, o)' => v = u /\ o = old
      BY <1>5, <2>1 DEF WrittenBy
  <2> QED BY <1>2, <1>4, <1>5, <2>2 DEF RowAccounted, u, old
<1>9. events[r] = None /\ refusals[r] = None
    BY <1>1 DEF AccountInv, AnswersFit
<1>10. AnswersFit(r)'
    BY <1>1, <1>5, <1>9 DEF AnswersFit
<1>11. SerialFits(r)'
    BY <1>4, <1>5, <1>9 DEF SerialFits, WrittenBy, u, old
<1> QED BY <1>2, <1>3, <1>6, <1>7, <1>8, <1>10, <1>11, AccountStepKeeps

LEMMA SaveAssignmentKeeps ==
    ASSUME AccountInv, NEW r \in Requests, SaveAssignment(r)
    PROVE  AccountInv'
<1> DEFINE u == job[r].user
           role == job[r].role
           status == IF job[r].action = "remove" THEN "revoked" ELSE "active"
<1>1. /\ pc[r] = "saveAssignment" /\ Put(r, u, role, status)
      /\ Await(r, "recordAssignment", job[r]) /\ UNCHANGED refusals
    BY DEF SaveAssignment, Await
<1>2. /\ u \in Users /\ role \in RoleCodes /\ status \in {"active", "revoked"}
      /\ job[r].action = "change" => job[r].old \in RoleCodes \ {role}
      /\ Asks("recordAssignment", job[r])
    BY <1>1 DEF AccountInv, Asks, Asking
<1>3. Goes(r, "recordAssignment", job[r]) /\ HandlingOK'
    BY <1>1, AwaitGoes DEF AccountInv, AccountTypeOK, InFlight
<1>4. pc'[r] = "recordAssignment" /\ job'[r] = job[r]
    BY <1>3 DEF Goes
<1>5. /\ assignments' \in [Users \X RoleCodes -> Assignment \union {None}]
      /\ UNCHANGED events
      /\ assignments'[<<u, role>>] # None
      /\ assignments'[<<u, role>>].by = r /\ assignments'[<<u, role>>].status = status
      /\ \A v \in Users, o \in RoleCodes :
             v # u \/ o # role => assignments'[<<v, o>>] = assignments[<<v, o>>]
  <2>1. OneRowPut(r, u, role, status)
      BY <1>1, <1>2, PutWrites
  <2> HIDE DEF u, role, status
  <2> QED BY ONLY <2>1 DEF OneRowPut
<1>6. /\ job[r].action = "remove" => status = "revoked"
      /\ job[r].action # "remove" => status = "active"
      /\ r \in Int
    BY HandlingAssumption DEF Requests
<1> HIDE DEF u, role, status
<1>7. AccountTypeOK' /\ OthersAnswersStay(r)
    BY <1>1, <1>3, <1>5 DEF AccountInv, AccountTypeOK, OthersAnswersStay
<1>8. WritesOwn(r)
    BY <1>1, <1>5 DEF WritesOwn
<1>9. ASSUME NEW v \in Users, NEW o \in RoleCodes PROVE RowAccounted(r, v, o)'
  <2>1. CASE v = u /\ o = role
      BY <1>4, <1>5, <1>6, <2>1 DEF RowAccounted, Accounts, u, role
  <2>2. CASE v # u \/ o # role
    <3>1. assignments'[<<v, o>>] = assignments[<<v, o>>] /\ RowAccounted(r, v, o)
        BY <1>5, <2>2 DEF AccountInv
    <3> QED BY <1>1, <1>2, <1>4, <3>1 DEF RowAccounted, WrittenBy, Accounts, u, role
  <2> QED BY <2>1, <2>2
<1>10. events[r] = None /\ refusals[r] = None
    BY <1>1 DEF AccountInv, AnswersFit
<1>11. AnswersFit(r)'
    BY <1>1, <1>5, <1>10 DEF AnswersFit
<1>12. ASSUME limit = 1 PROVE LastWord(r, job[r])'
  <2>1. (assignments'[<<u, role>>].status = "active") <=> (job[r].action # "remove")
      BY <1>2, <1>5, <1>6
  <2>2. ASSUME job[r].action = "change"
        PROVE  /\ job[r].old \in RoleCodes \ {role}
               /\ assignments'[<<u, job[r].old>>] # None
               /\ assignments'[<<u, job[r].old>>].by >= r
               /\ assignments'[<<u, job[r].old>>].status = "revoked"
    <3>1. /\ WrittenBy(r, u, job[r].old)
          /\ assignments[<<u, job[r].old>>].status = "revoked"
        BY <1>1, <1>12, <2>2 DEF AccountInv, SerialFits, u
    <3>2. assignments'[<<u, job[r].old>>] = assignments[<<u, job[r].old>>]
        BY <1>2, <1>5, <2>2
    <3> QED BY <1>2, <1>6, <2>2, <3>1, <3>2 DEF WrittenBy
  <2> QED BY <1>4, <1>5, <2>1, <2>2 DEF LastWord, IsActive, u, role
<1>13. SerialFits(r)'
    BY <1>3, <1>4, <1>5, <1>10, <1>12 DEF SerialFits, Goes
<1> QED BY <1>2, <1>3, <1>7, <1>8, <1>9, <1>11, <1>13, AccountStepKeeps

LEMMA RecordAssignmentKeeps ==
    ASSUME AccountInv, NEW r \in Requests, RecordAssignment(r)
    PROVE  AccountInv'
<1> DEFINE e == [ action |-> job[r].action, user |-> job[r].user, role |-> job[r].role ]
<1>1. /\ pc[r] = "recordAssignment" /\ events' = [events EXCEPT ![r] = e]
      /\ Answer(r, "done") /\ UNCHANGED <<assignments, refusals>>
    BY DEF RecordAssignment, Answer
<1>2. /\ job[r].user \in Users /\ job[r].role \in RoleCodes
      /\ job[r].action \in {"create", "remove", "change"}
    BY <1>1 DEF AccountInv, Asks, Asking
<1>3. /\ e \in AccessEvent /\ e.action = job[r].action /\ e.user = job[r].user
      /\ e.role = job[r].role
    BY <1>2 DEF AccessEvent
<1> HIDE DEF e
<1>4. e # None
    BY <1>3, AccessAssumption
<1>5. Goes(r, "done", None) /\ HandlingOK'
    BY <1>1, AnswerGoes DEF AccountInv, AccountTypeOK, InFlight
<1>6. pc'[r] = "done" /\ limit' = limit
    BY <1>5 DEF Goes
<1>7. events'[r] = e /\ \A q \in Requests \ {r} : events'[q] = events[q]
    BY <1>1 DEF AccountInv, AccountTypeOK
<1>8. AccountTypeOK' /\ OthersAnswersStay(r) /\ WritesOwn(r)
    BY <1>1, <1>3, <1>5, <1>7 DEF AccountInv, AccountTypeOK, OthersAnswersStay, WritesOwn
<1>9. ASSUME NEW v \in Users, NEW o \in RoleCodes PROVE RowAccounted(r, v, o)'
  <2>1. RowAccounted(r, v, o)
      BY DEF AccountInv
  <2> QED BY <1>1, <1>3, <1>4, <1>6, <1>7, <2>1 DEF RowAccounted, WrittenBy, Accounts
<1>10. refusals[r] = None
    BY <1>1 DEF AccountInv, AnswersFit
<1>11. AnswersFit(r)'
    BY <1>1, <1>6, <1>10 DEF AnswersFit
<1>12. ASSUME limit = 1 PROVE LastWord(r, events[r])'
  <2>1. LastWord(r, job[r])
      BY <1>1, <1>12 DEF AccountInv, SerialFits
  <2>2. PICK c : c = e
      OBVIOUS
  <2>3. LastWord(r, c)
      BY <1>3, <2>1, <2>2 DEF LastWord, IsActive, WrittenBy
  <2>4. LastWord(r, c)'
      BY <1>1, <2>3 DEF LastWord, IsActive, WrittenBy
  <2> QED BY <1>7, <2>2, <2>4
<1>13. SerialFits(r)'
    BY <1>6, <1>12 DEF SerialFits
<1>14. Asks("done", None)
    BY DEF Asks, Asking
<1> QED BY <1>5, <1>8, <1>9, <1>11, <1>13, <1>14, AccountStepKeeps

LEMMA AccountCrashKeeps ==
    ASSUME AccountInv, Crash, UNCHANGED accessVars
    PROVE  AccountInv'
<1>1. /\ Stopped /\ HandlingOK' /\ UNCHANGED <<assignments, events, refusals>>
      /\ InTurn'
    BY CrashStops, TurnsKeptByCrash DEF AccountInv, Crash, accessVars
<1>2. ASSUME NEW r \in Requests
      PROVE  /\ Asks(pc[r], job[r])'
             /\ \A user \in Users, role \in RoleCodes : RowAccounted(r, user, role)'
             /\ AnswersFit(r)' /\ SerialFits(r)'
  <2>1. /\ \/ pc'[r] = pc[r]
           \/ pc'[r] = "failed" /\ InFlight(r)
        /\ pc'[r] \in Answered \union {"idle"}
        /\ limit' = limit
      BY <1>1 DEF Stopped, InFlight, Answered
  <2>2. Asks(pc[r], job[r])'
      BY <2>1 DEF Asks, Asking, Answered
  <2>3. ASSUME NEW user \in Users, NEW role \in RoleCodes PROVE RowAccounted(r, user, role)'
    <3>1. RowAccounted(r, user, role)
        BY DEF AccountInv
    <3> QED BY <1>1, <2>1, <3>1 DEF RowAccounted, WrittenBy, Answered
  <2>4. AnswersFit(r)'
      BY <1>1, <2>1 DEF AccountInv, AnswersFit, InFlight
  <2>5. SerialFits(r)'
    <3>1. limit = 1 /\ events[r] # None => LastWord(r, events[r])
        BY DEF AccountInv, SerialFits
    <3>2. limit = 1 /\ events[r] # None => LastWord(r, events[r])'
        BY <1>1, <3>1 DEF LastWord, IsActive, WrittenBy
    <3> QED BY <1>1, <2>1, <3>2 DEF SerialFits, Answered
  <2> QED BY <2>2, <2>3, <2>4, <2>5
<1>3. AccountTypeOK'
    BY <1>1 DEF AccountInv, AccountTypeOK
<1> QED BY <1>1, <1>2, <1>3 DEF AccountInv

LEMMA AccountInvStutters ==
    ASSUME AccountInv, UNCHANGED <<limit, pc, job, refusals, assignments, events>>
    PROVE  AccountInv'
<1>1. AccountTypeOK' /\ InTurn'
    BY DEF AccountInv, AccountTypeOK, HandlingOK, InTurn
<1>2. ASSUME NEW r \in Requests
      PROVE  /\ Asks(pc[r], job[r])'
             /\ \A user \in Users, role \in RoleCodes : RowAccounted(r, user, role)'
             /\ AnswersFit(r)' /\ SerialFits(r)'
  <2>1. Asks(pc[r], job[r])' /\ AnswersFit(r)'
      BY DEF AccountInv, Asks, AnswersFit
  <2>2. \A user \in Users, role \in RoleCodes : RowAccounted(r, user, role)'
      BY DEF AccountInv, RowAccounted, WrittenBy, Accounts
  <2>3. SerialFits(r)'
      BY DEF AccountInv, SerialFits, LastWord, IsActive, WrittenBy
  <2> QED BY <2>1, <2>2, <2>3
<1> QED BY <1>1, <1>2 DEF AccountInv

-----------------------------------------------------------------------------
\* Every row of the assignments is as the request that wrote it asked, and handled
\* one at a time every request's last word stands.
THEOREM AccountInvariantHolds == AccessSpec => []AccountInv
<1>1. HandlingInit /\ AccessInit => AccountInv
  <2> SUFFICES ASSUME HandlingInit, AccessInit PROVE AccountInv
      OBVIOUS
  <2>1. HandlingOK /\ InTurn /\ \A r \in Requests : pc[r] \in {"idle", "done"}
      BY InitialTurns
  <2>2. refusals = [r \in Requests |-> refusals[r]] /\ \A r \in Requests : refusals[r] = None
      BY DEF HandlingInit
  <2>3. events \in [Requests -> AccessEvent \union {None}] /\ \A r \in Requests : events[r] = None
      BY DEF AccessInit
  <2>4. [ status |-> "active", by |-> 0 ] \in Assignment
      BY DEF Assignment
  <2>5. assignments \in [Users \X RoleCodes -> Assignment \union {None}]
      BY <2>4 DEF AccessInit
  <2>6. ASSUME NEW r \in Requests, NEW user \in Users, NEW role \in RoleCodes
        PROVE  ~WrittenBy(r, user, role)
    <3>1. \/ assignments[<<user, role>>] = None
          \/ assignments[<<user, role>>] = [ status |-> "active", by |-> 0 ]
        BY DEF AccessInit
    <3>2. [ status |-> "active", by |-> 0 ].by = 0 /\ r # 0
        BY HandlingAssumption DEF Requests
    <3> QED BY <3>1, <3>2 DEF WrittenBy
  <2>7. ASSUME NEW r \in Requests
        PROVE  /\ Asks(pc[r], job[r]) /\ AnswersFit(r) /\ SerialFits(r)
               /\ \A user \in Users, role \in RoleCodes : RowAccounted(r, user, role)
      BY <2>1, <2>2, <2>3, <2>6 DEF Asks, Asking, AnswersFit, SerialFits, RowAccounted
  <2> QED BY <2>1, <2>2, <2>3, <2>5, <2>7 DEF AccountInv, AccountTypeOK
<1>2. AccountInv /\ [AccessNext]_accessState => AccountInv'
  <2> SUFFICES ASSUME AccountInv, [AccessNext]_accessState PROVE AccountInv'
      OBVIOUS
  <2>1. CASE UNCHANGED accessState
    <3>1. UNCHANGED <<limit, pc, job, refusals, assignments, events>>
        BY <2>1 DEF accessState, handling, accessVars
    <3> QED BY <3>1, AccountInvStutters
  <2>2. ASSUME NEW s, SessionExpires(s) PROVE AccountInv'
    <3>1. UNCHANGED <<limit, pc, job, refusals, assignments, events>>
        BY <2>2 DEF SessionExpires, handling
    <3> QED BY <3>1, AccountInvStutters
  <2>3. ASSUME NEW r \in Requests, QueryFails(r), UNCHANGED accessVars PROVE AccountInv'
      BY <2>3, AccountAnswers DEF QueryFails, accessVars, Answered
  <2>4. ASSUME Crash, UNCHANGED accessVars PROVE AccountInv'
      BY <2>4, AccountCrashKeeps
  <2>5. ASSUME NEW r \in Requests, AccessStep(r) PROVE AccountInv'
      BY <2>2, <2>5, SessionsAndRolesKeepAccounts, ArrivalsKeepAccounts, LookupsKeepAccounts,
         RefusalsKeepAccounts, RevokeKeeps, SaveAssignmentKeeps, RecordAssignmentKeeps
         DEF AccessStep
  <2> QED BY <2>1, <2>3, <2>4, <2>5 DEF AccessNext
<1> QED BY <1>1, <1>2, PTL DEF AccessSpec

\* Whatever overlaps or fails, an assignment is accounted for by the event of the
\* request that wrote it, which was not refused, and handled one at a time an event
\* says how the table is until a later request writes.
THEOREM AssignmentsAreTold == AccessSpec => []AssignmentsAreAccounted
<1>1. AccountInv => AssignmentsAreAccounted
  <2> SUFFICES ASSUME AccountInv PROVE AssignmentsAreAccounted
      OBVIOUS
  <2>1. ASSUME NEW k \in Users \X RoleCodes, assignments[k] # None, assignments[k].by # 0
        PROVE  /\ assignments[k].by \in Requests
               /\ RowAccounted(assignments[k].by, k[1], k[2])
               /\ WrittenBy(assignments[k].by, k[1], k[2])
    <3>1. assignments[k].by \in Requests
        BY <2>1 DEF AccountInv, AccountTypeOK, Assignment
    <3> QED BY <2>1, <3>1, KeysOfRows DEF AccountInv, WrittenBy
  <2>2. ASSUME NEW k \in Users \X RoleCodes, assignments[k] # None, assignments[k].by # 0,
               pc[assignments[k].by] = "done"
        PROVE  /\ events[assignments[k].by] # None
               /\ Accounts(events[assignments[k].by], k[1], k[2], assignments[k].status)
      BY <2>1, <2>2, KeysOfRows DEF RowAccounted
  <2>3. ASSUME NEW k \in Users \X RoleCodes, NEW r \in Requests, assignments[k] # None,
               assignments[k].by = r
        PROVE  refusals[r] = None
    <3>1. r # 0
        BY HandlingAssumption DEF Requests
    <3>2. pc[r] # "refused"
        BY <2>1, <2>3, <3>1 DEF RowAccounted
    <3> QED BY <3>2 DEF AccountInv, AnswersFit
  <2>4. ASSUME limit = 1, NEW r \in Requests, events[r] # None
        PROVE  LastWord(r, events[r])
      BY <2>4 DEF AccountInv, SerialFits
  <2>5. limit = 1 => \A r \in Requests : events[r] # None =>
            LET e == events[r]
                Stored(role) == assignments[<<e.user, role>>]
            IN  \/ Stored(e.role) # None /\ Stored(e.role).by > r
                \/ /\ IsActive(e.user, e.role) = (e.action # "remove")
                   /\ e.action = "change" =>
                          \E old \in RoleCodes \ {e.role} :
                              /\ Stored(old) # None
                              /\ Stored(old).by >= r
                              /\ Stored(old).by = r => Stored(old).status = "revoked"
      BY <2>4 DEF LastWord, WrittenBy, IsActive
  <2>6. \A k \in Users \X RoleCodes :
            LET row == assignments[k]
            IN  row # None /\ row.by # 0 /\ pc[row.by] = "done" =>
                    /\ events[row.by] # None
                    /\ events[row.by].user = k[1]
                    /\ row.status = "active" =>
                           events[row.by].action # "remove" /\ events[row.by].role = k[2]
                    /\ row.status = "revoked" =>
                           (events[row.by].action = "remove") = (events[row.by].role = k[2])
      BY <2>2 DEF Accounts
  <2> QED BY ONLY <2>3, <2>5, <2>6 DEF AssignmentsAreAccounted
<1> QED BY <1>1, AccountInvariantHolds, PTL

-----------------------------------------------------------------------------
(* Membership: however registrations and status changes overlap and fail,  *)
(* what the audit trail tells of them is true.                             *)

StatusChange == [ member : Requests, status : MemberStatuses ]

\* What the handler of a request keeps while it awaits a query.
MembershipJobFits(r) ==
    /\ pc[r] \in {"findByNumber", "saveDraft"} => job[r] = registers[r] /\ job[r] # None
    /\ pc[r] = "findById" => job[r] \in Requests
    /\ pc[r] = "updateStatus" => job[r] \in StatusChange
    /\ pc[r] = "recordRefusal" => job[r].outcome \in Refusals

MembershipTypeOK ==
    /\ pc \in [Requests -> { "idle", "done", "refused", "failed", "findByNumber", "saveDraft",
                             "findAll", "findById", "updateStatus", "recordAccess",
                             "recordRefusal" }]
    /\ job = [r \in Requests |-> job[r]]
    /\ trail \subseteq Requests
    /\ refusals \in [Requests -> Refusals \union {None}]
    /\ members \in [Requests -> MemberRows \union {None}]
    /\ registers \in [Requests -> RegistrationNumbers \union {None}]
    /\ \A r \in Requests : MembershipJobFits(r)

\* What a request has written, by how far it has come.
RequestFits(r) ==
    /\ pc[r] \in {"idle", "findAll", "findById", "updateStatus"} => registers[r] = None
    /\ pc[r] \in {"idle", "findByNumber", "saveDraft"} => members[r] = None
    /\ r \in trail => pc[r] = "done"
    /\ refusals[r] # None => pc[r] = "refused"
    /\ registers[r] # None /\ (pc[r] = "recordAccess" \/ r \in trail) =>
           members[r] # None /\ members[r].number = registers[r]
    /\ registers[r] # None /\ (pc[r] = "recordRefusal" \/ refusals[r] # None) =>
           Holders(registers[r]) # {}

NumbersAreUnique ==
    \A m, n \in Requests :
        members[m] # None /\ members[n] # None /\ members[m].number = members[n].number => m = n

\* Who last wrote a row has written it already, and audits it before it answers.
WritersAreKnown ==
    \A m \in Requests : members[m] # None =>
        LET by == members[m].by
        IN  /\ pc[by] \in {"recordAccess", "done", "failed"}
            /\ pc[by] = "done" => by \in trail

MembershipInv ==
    /\ MembershipTypeOK
    /\ \A r \in Requests : RequestFits(r)
    /\ NumbersAreUnique
    /\ WritersAreKnown

-----------------------------------------------------------------------------
(* Steps that write no row.                                                *)

Terminal == {"done", "refused", "failed"}

\* A handler that moves to another query, or is answered, without writing.
LEMMA MembershipQuietStep ==
    ASSUME MembershipInv, NEW r \in Requests, MembershipTypeOK',
           UNCHANGED <<members, registers, trail, refusals>>,
           \A q \in Requests \ {r} : pc'[q] = pc[q],
           RequestFits(r)',
           pc[r] \notin {"recordAccess", "done", "failed"}
    PROVE  MembershipInv'
<1>1. \A q \in Requests \ {r} : RequestFits(q)'
    BY DEF MembershipInv, RequestFits, Holders
<1>2. WritersAreKnown'
    BY DEF MembershipInv, MembershipTypeOK, WritersAreKnown, MemberRows
<1> QED BY <1>1, <1>2 DEF MembershipInv, NumbersAreUnique

LEMMA AsAdministratorKeeps ==
    ASSUME MembershipInv, NEW r \in Requests, NEW admin, NEW step, NEW ask,
           AsAdministrator(r, admin, step, ask),
           \/ step = "findAll"
           \/ step = "findById" /\ ask \in Requests
           \/ step = "updateStatus" /\ ask \in StatusChange
           \/ step = "recordRefusal" /\ ask = [ outcome |-> "validationError" ]
    PROVE  MembershipInv'
<1>1. pc[r] = "idle"
    BY DEF AsAdministrator, NextToArrive
<1>2. UNCHANGED <<members, registers, trail, refusals>>
    BY DEF AsAdministrator, Await, Refuse, memberVars
<1>3. MembershipTypeOK'
    BY <1>1 DEF MembershipInv, MembershipTypeOK, MembershipJobFits, AsAdministrator, Await, Refuse, Refusals, memberVars
<1>4. RequestFits(r)'
    BY <1>1 DEF MembershipInv, MembershipTypeOK, RequestFits, AsAdministrator, Await, Refuse, memberVars
<1>5. \A q \in Requests \ {r} : pc'[q] = pc[q]
    BY DEF MembershipInv, MembershipTypeOK, AsAdministrator, Await, Refuse
<1> QED BY <1>1, <1>2, <1>3, <1>4, <1>5, MembershipQuietStep

LEMMA FindKeeps ==
    ASSUME MembershipInv, NEW r \in Requests,
           FindByRegistrationNumber(r) \/ FindAllMembers(r) \/ FindMember(r)
    PROVE  MembershipInv'
<1>1. pc[r] \in {"findByNumber", "findAll", "findById"}
      /\ UNCHANGED <<members, registers, trail, refusals>>
    BY DEF FindByRegistrationNumber, FindAllMembers, FindMember, Await, Answer, Refuse, memberVars
<1>2. MembershipTypeOK'
    BY <1>1 DEF MembershipInv, MembershipTypeOK, MembershipJobFits, FindByRegistrationNumber, FindAllMembers, FindMember,
                Await, Answer, Refuse, Refusals, memberVars
<1>3. RequestFits(r)'
    BY <1>1 DEF MembershipInv, MembershipTypeOK, MembershipJobFits, RequestFits, Holders, FindByRegistrationNumber,
                FindAllMembers, FindMember, Await, Answer, Refuse, memberVars
<1>4. \A q \in Requests \ {r} : pc'[q] = pc[q]
    BY DEF MembershipInv, MembershipTypeOK, FindByRegistrationNumber, FindAllMembers, FindMember, Await, Answer, Refuse
<1> QED BY <1>1, <1>2, <1>3, <1>4, MembershipQuietStep

LEMMA QueryFailsKeeps ==
    ASSUME MembershipInv, NEW r \in Requests, QueryFails(r), UNCHANGED memberVars
    PROVE  MembershipInv'
<1>1. pc' = [pc EXCEPT ![r] = "failed"] /\ job' = [job EXCEPT ![r] = None]
      /\ UNCHANGED <<members, registers, trail, refusals>> /\ InFlight(r)
    BY DEF QueryFails, Answer, memberVars
<1>2. MembershipTypeOK'
    BY <1>1 DEF MembershipInv, MembershipTypeOK, MembershipJobFits
<1>3. \A q \in Requests : RequestFits(q)'
    BY <1>1 DEF MembershipInv, MembershipTypeOK, RequestFits, Holders, InFlight
<1>4. WritersAreKnown'
    BY <1>1 DEF MembershipInv, MembershipTypeOK, WritersAreKnown, MemberRows
<1> QED BY <1>1, <1>2, <1>3, <1>4 DEF MembershipInv, NumbersAreUnique

LEMMA MembershipCrashKeeps ==
    ASSUME MembershipInv, Crash, UNCHANGED memberVars
    PROVE  MembershipInv'
<1>1. pc' = [r \in Requests |-> IF InFlight(r) THEN "failed" ELSE pc[r]]
      /\ job' = [r \in Requests |-> None]
      /\ UNCHANGED <<members, registers, trail, refusals>>
    BY DEF Crash, memberVars
<1>2. MembershipTypeOK'
    BY <1>1 DEF MembershipInv, MembershipTypeOK, MembershipJobFits, InFlight
<1>3. \A q \in Requests : RequestFits(q)'
    BY <1>1 DEF MembershipInv, MembershipTypeOK, RequestFits, Holders, InFlight
<1>4. WritersAreKnown'
    BY <1>1 DEF MembershipInv, MembershipTypeOK, WritersAreKnown, MemberRows, InFlight
<1> QED BY <1>1, <1>2, <1>3, <1>4 DEF MembershipInv, NumbersAreUnique

-----------------------------------------------------------------------------
(* Steps that record or write.                                             *)

LEMMA CreateKeeps ==
    ASSUME MembershipInv, NEW r \in Requests, NEW number \in RegistrationNumbers, NEW valid \in BOOLEAN,
           CreateMemberOrganization(r, number, valid)
    PROVE  MembershipInv'
<1>1. pc[r] = "idle" /\ registers[r] = None /\ r \notin trail /\ refusals[r] = None
    BY DEF MembershipInv, MembershipTypeOK, RequestFits, CreateMemberOrganization, NextToArrive
<1>2. CASE valid
  <2>1. /\ registers' = [registers EXCEPT ![r] = number]
        /\ pc' = [pc EXCEPT ![r] = "findByNumber"] /\ job' = [job EXCEPT ![r] = number]
        /\ UNCHANGED <<members, trail, refusals>>
      BY <1>2 DEF CreateMemberOrganization, Await
  <2>2. number # None
      BY MembershipAssumption
  <2>3. MembershipTypeOK'
      BY <1>1, <2>1, <2>2 DEF MembershipInv, MembershipTypeOK, MembershipJobFits
  <2>4. \A q \in Requests : RequestFits(q)'
      BY <1>1, <2>1 DEF MembershipInv, MembershipTypeOK, RequestFits, Holders
  <2>5. WritersAreKnown'
      BY <1>1, <2>1 DEF MembershipInv, MembershipTypeOK, WritersAreKnown, MemberRows
  <2> QED BY <2>1, <2>3, <2>4, <2>5 DEF MembershipInv, NumbersAreUnique
<1>3. CASE ~valid
  <2>1. AsAdministrator(r, FALSE, "recordRefusal", [ outcome |-> "validationError" ])
        \/ /\ pc' = [pc EXCEPT ![r] = "recordRefusal"]
           /\ job' = [job EXCEPT ![r] = [ outcome |-> "validationError" ]]
           /\ UNCHANGED <<members, registers, trail, refusals>>
      BY <1>3 DEF CreateMemberOrganization, Await, Refuse
  <2>2. pc' = [pc EXCEPT ![r] = "recordRefusal"]
        /\ job' = [job EXCEPT ![r] = [ outcome |-> "validationError" ]]
        /\ UNCHANGED <<members, registers, trail, refusals>>
      BY <1>3 DEF CreateMemberOrganization, Await, Refuse
  <2>3. MembershipTypeOK'
      BY <1>1, <2>2 DEF MembershipInv, MembershipTypeOK, MembershipJobFits, Refusals
  <2>4. RequestFits(r)'
      BY <1>1, <2>2 DEF MembershipInv, MembershipTypeOK, RequestFits
  <2>5. \A q \in Requests \ {r} : pc'[q] = pc[q]
      BY <2>2 DEF MembershipInv, MembershipTypeOK
  <2> QED BY <1>1, <2>2, <2>3, <2>4, <2>5, MembershipQuietStep
<1> QED BY <1>2, <1>3

LEMMA RecordsKeep ==
    ASSUME MembershipInv, NEW r \in Requests, RecordAccess(r) \/ RecordRefusal(r), UNCHANGED memberVars
    PROVE  MembershipInv'
<1>1. CASE RecordAccess(r)
  <2>1. /\ pc[r] = "recordAccess" /\ trail' = trail \union {r}
        /\ pc' = [pc EXCEPT ![r] = "done"] /\ job' = [job EXCEPT ![r] = None]
        /\ UNCHANGED <<members, registers, refusals>>
      BY <1>1 DEF RecordAccess, memberVars
  <2>2. MembershipTypeOK'
      BY <2>1 DEF MembershipInv, MembershipTypeOK, MembershipJobFits
  <2>3. \A q \in Requests : RequestFits(q)'
      BY <2>1 DEF MembershipInv, MembershipTypeOK, RequestFits, Holders
  <2>4. WritersAreKnown'
      BY <2>1 DEF MembershipInv, MembershipTypeOK, WritersAreKnown, MemberRows
  <2> QED BY <2>1, <2>2, <2>3, <2>4 DEF MembershipInv, NumbersAreUnique
<1>2. CASE RecordRefusal(r)
  <2>1. /\ pc[r] = "recordRefusal" /\ refusals' = [refusals EXCEPT ![r] = job[r].outcome]
        /\ pc' = [pc EXCEPT ![r] = "refused"] /\ job' = [job EXCEPT ![r] = None]
        /\ UNCHANGED <<members, registers, trail>>
      BY <1>2 DEF RecordRefusal, memberVars
  <2>2. MembershipTypeOK'
      BY <2>1 DEF MembershipInv, MembershipTypeOK, MembershipJobFits
  <2>3. \A q \in Requests : RequestFits(q)'
      BY <2>1 DEF MembershipInv, MembershipTypeOK, RequestFits, Holders
  <2>4. WritersAreKnown'
      BY <2>1 DEF MembershipInv, MembershipTypeOK, WritersAreKnown, MemberRows
  <2> QED BY <2>1, <2>2, <2>3, <2>4 DEF MembershipInv, NumbersAreUnique
<1> QED BY <1>1, <1>2

LEMMA SaveDraftKeeps ==
    ASSUME MembershipInv, NEW r \in Requests, SaveDraft(r)
    PROVE  MembershipInv'
<1>1. pc[r] = "saveDraft" /\ job[r] = registers[r] /\ registers[r] \in RegistrationNumbers
      /\ r \notin trail /\ refusals[r] = None
    BY DEF MembershipInv, MembershipTypeOK, MembershipJobFits, RequestFits, SaveDraft
<1>2. CASE RegistrationAdmits(job[r])
  <2> DEFINE row == MemberRow(job[r], "pendingReview", r)
  <2>1. /\ members' = [members EXCEPT ![r] = row]
        /\ pc' = [pc EXCEPT ![r] = "recordAccess"] /\ job' = [job EXCEPT ![r] = None]
        /\ UNCHANGED <<registers, trail, refusals>>
      BY <1>2 DEF SaveDraft, Await
  <2>2. row \in MemberRows /\ row # None /\ row.number = registers[r] /\ row.by = r
      BY <1>1, MembershipAssumption DEF MemberRow, MemberRows, MemberStatuses
  <2> HIDE DEF row
  <2>3. MembershipTypeOK'
      BY <1>1, <2>1, <2>2 DEF MembershipInv, MembershipTypeOK, MembershipJobFits
  <2>4. members[r] = None
      BY <1>1 DEF MembershipInv, RequestFits
  <2>5. \A m \in Requests : members[m] # None => members[m].number # registers[r]
      BY <1>1, <1>2 DEF RegistrationAdmits, Holders
  <2>6. \A q \in Requests : RequestFits(q)'
    <3>1. /\ members'[r] = row
          /\ \A q \in Requests \ {r} : members'[q] = members[q] /\ pc'[q] = pc[q]
          /\ pc'[r] = "recordAccess"
        BY <2>1 DEF MembershipInv, MembershipTypeOK
    <3>2. ASSUME NEW n, Holders(n) # {}
          PROVE  Holders(n)' # {}
        BY <1>1, <2>4, <2>5, <3>1, <3>2 DEF Holders, MembershipInv
    <3>3. RequestFits(r)'
        BY <1>1, <2>1, <2>2, <3>1 DEF RequestFits
    <3>4. ASSUME NEW q \in Requests \ {r}
          PROVE  RequestFits(q)'
      <4>1. RequestFits(q) /\ registers'[q] = registers[q] /\ refusals'[q] = refusals[q]
            /\ trail' = trail
          BY <2>1 DEF MembershipInv
      <4> QED BY <3>1, <3>2, <4>1 DEF RequestFits
    <3> QED BY <3>3, <3>4
  <2>7. NumbersAreUnique'
      BY <2>1, <2>2, <2>5 DEF MembershipInv, MembershipTypeOK, NumbersAreUnique
  <2>8. WritersAreKnown'
      BY <1>1, <2>1, <2>2 DEF MembershipInv, MembershipTypeOK, WritersAreKnown, MemberRows
  <2> QED BY <2>3, <2>6, <2>7, <2>8 DEF MembershipInv
<1>3. CASE ~RegistrationAdmits(job[r])
  <2>1. /\ pc' = [pc EXCEPT ![r] = "failed"] /\ job' = [job EXCEPT ![r] = None]
        /\ UNCHANGED <<members, registers, trail, refusals>>
      BY <1>3 DEF SaveDraft, Answer
  <2>2. MembershipTypeOK'
      BY <2>1 DEF MembershipInv, MembershipTypeOK, MembershipJobFits
  <2>3. RequestFits(r)'
      BY <1>1, <2>1 DEF MembershipInv, MembershipTypeOK, RequestFits
  <2>4. \A q \in Requests \ {r} : pc'[q] = pc[q]
      BY <2>1 DEF MembershipInv, MembershipTypeOK
  <2> QED BY <1>1, <2>1, <2>2, <2>3, <2>4, MembershipQuietStep
<1> QED BY <1>2, <1>3

LEMMA UpdateStatusKeeps ==
    ASSUME MembershipInv, NEW r \in Requests, UpdateStatus(r)
    PROVE  MembershipInv'
<1> DEFINE m == job[r].member
<1>1. pc[r] = "updateStatus" /\ m \in Requests /\ job[r].status \in MemberStatuses
      /\ registers[r] = None /\ r \notin trail /\ refusals[r] = None
    BY DEF MembershipInv, MembershipTypeOK, MembershipJobFits, RequestFits, StatusChange, UpdateStatus
<1>2. CASE members[m] = None
  <2>1. /\ pc' = [pc EXCEPT ![r] = "recordRefusal"]
        /\ job' = [job EXCEPT ![r] = [ outcome |-> "notFound" ]]
        /\ UNCHANGED <<members, registers, trail, refusals>>
      BY <1>2 DEF UpdateStatus, Refuse, Await
  <2>2. MembershipTypeOK'
      BY <2>1 DEF MembershipInv, MembershipTypeOK, MembershipJobFits, Refusals
  <2>3. RequestFits(r)'
      BY <1>1, <2>1 DEF MembershipInv, MembershipTypeOK, RequestFits
  <2>4. \A q \in Requests \ {r} : pc'[q] = pc[q]
      BY <2>1 DEF MembershipInv, MembershipTypeOK
  <2> QED BY <1>1, <2>1, <2>2, <2>3, <2>4, MembershipQuietStep
<1>3. CASE members[m] # None
  <2> DEFINE row == MemberRow(members[m].number, job[r].status, r)
  <2>1. /\ members' = [members EXCEPT ![m] = row]
        /\ pc' = [pc EXCEPT ![r] = "recordAccess"] /\ job' = [job EXCEPT ![r] = None]
        /\ UNCHANGED <<registers, trail, refusals>>
      BY <1>3 DEF UpdateStatus, Await
  <2>2. row \in MemberRows /\ row # None /\ row.number = members[m].number /\ row.by = r
      BY <1>1, <1>3, MembershipAssumption DEF MembershipInv, MembershipTypeOK, MemberRow, MemberRows
  <2> HIDE DEF row, m
  <2>3. MembershipTypeOK'
      BY <1>1, <2>1, <2>2 DEF MembershipInv, MembershipTypeOK, MembershipJobFits
  <2>4. \A q \in Requests :
            /\ (members'[q] = None) = (members[q] = None)
            /\ members[q] # None => members'[q].number = members[q].number
      BY <1>1, <1>3, <2>1, <2>2 DEF MembershipInv, MembershipTypeOK
  <2>5. \A q \in Requests : RequestFits(q)'
    <3>1. pc'[r] = "recordAccess" /\ \A q \in Requests \ {r} : pc'[q] = pc[q]
        BY <2>1 DEF MembershipInv, MembershipTypeOK
    <3>2. ASSUME NEW n
          PROVE  Holders(n)' = Holders(n)
      <4>1. \A q \in Requests : q \in Holders(n)' <=> q \in Holders(n)
          BY <2>4 DEF Holders
      <4>2. Holders(n)' \subseteq Requests /\ Holders(n) \subseteq Requests
          BY DEF Holders
      <4> QED BY <4>1, <4>2
    <3>3. ASSUME NEW q \in Requests
          PROVE  RequestFits(q)'
      <4>1. RequestFits(q) /\ RequestFits(r) /\ registers'[q] = registers[q]
            /\ refusals'[q] = refusals[q] /\ trail' = trail
          BY <2>1 DEF MembershipInv
      <4>2. /\ (members'[q] = None) = (members[q] = None)
            /\ members[q] # None => members'[q].number = members[q].number
          BY <2>4
      <4> QED BY <1>1, <3>1, <3>2, <4>1, <4>2 DEF RequestFits
    <3> QED BY <3>3
  <2>6. NumbersAreUnique'
      BY <2>4 DEF MembershipInv, NumbersAreUnique
  <2>7. WritersAreKnown'
      BY <1>1, <2>1, <2>2 DEF MembershipInv, MembershipTypeOK, WritersAreKnown, MemberRows
  <2> QED BY <2>3, <2>5, <2>6, <2>7 DEF MembershipInv
<1> QED BY <1>2, <1>3

-----------------------------------------------------------------------------
\* Types, unique numbers and known writers, in every state.
THEOREM MembershipInvariantHolds == MembershipSpec => []MembershipInv
<1>1. HandlingInit /\ MembershipInit => MembershipInv
  <2> SUFFICES ASSUME HandlingInit, MembershipInit PROVE MembershipInv
      OBVIOUS
  <2>1. MembershipTypeOK
      BY HandlingAssumption DEF HandlingInit, MembershipInit, MembershipTypeOK, MembershipJobFits, Requests
  <2>2. \A r \in Requests : RequestFits(r)
      BY HandlingAssumption DEF HandlingInit, MembershipInit, RequestFits, Requests
  <2> QED BY <2>1, <2>2 DEF MembershipInit, MembershipInv, NumbersAreUnique, WritersAreKnown
<1>2. MembershipInv /\ [MembershipNext]_membershipState => MembershipInv'
  <2> SUFFICES ASSUME MembershipInv, [MembershipNext]_membershipState PROVE MembershipInv'
      OBVIOUS
  <2>1. CASE UNCHANGED membershipState
      BY <2>1 DEF membershipState, handling, memberVars, MembershipInv, MembershipTypeOK, MembershipJobFits, RequestFits,
                  Holders, NumbersAreUnique, WritersAreKnown
  <2>2. ASSUME NEW r \in Requests, MembershipStep(r)
        PROVE  MembershipInv'
    <3>1. ASSUME NEW admin \in BOOLEAN, NEW m \in Requests,
                 NEW status \in MemberStatuses \union {"unknown"},
                 UpdateMemberStatus(r, admin, m, status)
          PROVE  MembershipInv'
        BY <3>1, AsAdministratorKeeps DEF UpdateMemberStatus, StatusChange
    <3>2. ASSUME NEW admin \in BOOLEAN, NEW m \in Requests,
                 GetMemberOrganization(r, admin, m) \/ ListMemberOrganizations(r, admin)
          PROVE  MembershipInv'
        BY <3>2, AsAdministratorKeeps DEF GetMemberOrganization, ListMemberOrganizations
    <3> QED BY <2>2, <3>1, <3>2, CreateKeeps, FindKeeps, SaveDraftKeeps, UpdateStatusKeeps,
              RecordsKeep DEF MembershipStep
  <2> QED BY <2>1, <2>2, QueryFailsKeeps, MembershipCrashKeeps DEF MembershipNext
<1> QED BY <1>1, <1>2, PTL DEF MembershipSpec

\* Whatever overlaps and fails, a number is registered by at most one of those
\* who are told so, a conflict is about a number in use, and what was written is
\* in the audit trail as a success.
THEOREM TrailIsTrue == MembershipSpec => []MembersAreAccounted
<1>1. MembershipInv => MembersAreAccounted
  <2> SUFFICES ASSUME MembershipInv PROVE MembersAreAccounted
      OBVIOUS
  <2>1. ASSUME NEW q \in Requests, NEW r \in Requests, registers[q] # None,
               registers[q] = registers[r], {q, r} \subseteq trail
        PROVE  q = r
      BY <2>1 DEF MembershipInv, RequestFits, NumbersAreUnique
  <2>2. ASSUME NEW r \in Requests, registers[r] # None
        PROVE  /\ r \in trail => members[r] # None
               /\ refusals[r] = "conflict" => Holders(registers[r]) # {}
    <3>1. refusals[r] = "conflict" => refusals[r] # None
        BY MembershipAssumption DEF Refusals
    <3> QED BY <2>2, <3>1 DEF MembershipInv, RequestFits
  <2>3. ASSUME NEW m \in Requests, members[m] # None
        PROVE  LET by == members[m].by
               IN  refusals[by] = None /\ (pc[by] = "done" => by \in trail)
    <3>1. members[m].by \in Requests
        BY <2>3 DEF MembershipInv, MembershipTypeOK, MemberRows
    <3> QED BY <2>3, <3>1 DEF MembershipInv, RequestFits, WritersAreKnown
  <2> QED BY <2>1, <2>2, <2>3 DEF MembersAreAccounted
<1> QED BY <1>1, MembershipInvariantHolds, PTL

-----------------------------------------------------------------------------
(* Documents: wherever uploads fail between their three writes, and        *)
(* whoever reads meanwhile, the three agree and nobody reads what is not   *)
(* theirs.                                                                 *)

Upload == [ owner : Orgs, content : Contents, signature : Signatures ]
Read == [ actor : Actors, document : Requests, part : {"metadata", "extraction"} ]
ReadReply == [ actor : Actors, document : Requests, part : {"metadata", "extraction"},
               status : {"found", "notFound", "forbidden"} ]

\* What the handler of a request keeps while it awaits a query.
DocumentsJobFits(r) ==
    /\ pc[r] = "storeObject" => job[r] \in Upload
    /\ pc[r] \in {"saveDocument", "saveExtraction"} => job[r] \in DocumentRow
    /\ pc[r] \in {"findDocument", "findExtraction"} => job[r] \in Read

DocumentsTypeOK ==
    /\ pc \in [Requests -> { "idle", "done", "refused", "failed", "storeObject", "saveDocument",
                             "saveExtraction", "findDocument", "findExtraction" }]
    /\ job = [r \in Requests |-> job[r]]
    /\ objects \in [Requests -> Contents \union {None}]
    /\ documents \in [Requests -> DocumentRow \union {None}]
    /\ extractions \in [Requests -> Extractions \union {None}]
    /\ replies \in [Requests -> ReadReply \union {None}]
    /\ \A r \in Requests : DocumentsJobFits(r)

\* How far an upload has come, by what it has written.
UploadFits(r) ==
    /\ pc[r] \in {"idle", "storeObject", "findDocument", "findExtraction"} => objects[r] = None
    /\ pc[r] = "saveDocument" => objects[r] = job[r].sha256 /\ documents[r] = None
    /\ pc[r] = "saveExtraction" => documents[r] = job[r] /\ extractions[r] = None
    /\ objects[r] = None => documents[r] = None
    /\ documents[r] = None => extractions[r] = None
    /\ documents[r] # None => objects[r] = documents[r].sha256
    /\ extractions[r] # None => extractions[r] = documents[r].extraction
    /\ objects[r] # None /\ pc[r] = "done" => extractions[r] # None

\* A read that is told of a document, or goes on to its extraction, may.
ReadIsAllowed(actor, d) == documents[d] # None /\ CanReadDocument(actor, documents[d])

MissedRightly(d, r) == d >= r \/ objects[d] = None \/ pc[d] # "done"

ReadFits(r) ==
    /\ pc[r] = "findExtraction" => ReadIsAllowed(job[r].actor, job[r].document)
    /\ replies[r] # None =>
           /\ pc[r] # "idle"
           /\ replies[r].status = "found" => ReadIsAllowed(replies[r].actor, replies[r].document)
           /\ limit = 1 /\ replies[r].status = "notFound" => MissedRightly(replies[r].document, r)

DocumentsInv ==
    /\ DocumentsTypeOK
    /\ \A r \in Requests : UploadFits(r) /\ ReadFits(r)
    /\ InTurn

-----------------------------------------------------------------------------
(* Steps.                                                                  *)

\* What is true of the tables stays true of them, when rows are only added, by the
\* request that moves.
RowsStay(r) ==
    /\ \A q \in Requests \ {r} : /\ objects'[q] = objects[q]
                                 /\ documents'[q] = documents[q]
                                 /\ extractions'[q] = extractions[q]
                                 /\ replies'[q] = replies[q]
                                 /\ job'[q] = job[q]
    /\ documents[r] # None => documents'[r] = documents[r]

LEMMA OthersStillFit ==
    ASSUME DocumentsInv, NEW r \in Requests, Moves(r), RowsStay(r), UNCHANGED limit,
           NEW q \in Requests \ {r}
    PROVE  UploadFits(q)' /\ ReadFits(q)'
<1>1. UploadFits(q)'
    BY DEF DocumentsInv, UploadFits, Moves, RowsStay
<1>2. ASSUME NEW actor, NEW d \in Requests, ReadIsAllowed(actor, d)
      PROVE  ReadIsAllowed(actor, d)'
    BY <1>2 DEF ReadIsAllowed, RowsStay, CanReadDocument
<1>3. ASSUME NEW d \in Requests, limit = 1, pc[q] # "idle", MissedRightly(d, q)
      PROVE  MissedRightly(d, q)'
  <2>1. CASE d >= q
      BY <2>1 DEF MissedRightly
  <2>2. CASE ~(d >= q)
    <3>1. d < q
        BY <2>2, HandlingAssumption DEF Requests
    <3>2. pc[d] \in Answered
        BY <1>3, <3>1 DEF DocumentsInv, InTurn
    <3>3. d # r
        BY <3>2 DEF Moves
    <3> QED BY <1>3, <2>2, <3>3 DEF Moves, RowsStay, MissedRightly
  <2> QED BY <2>1, <2>2
<1>4. pc[q] = "findExtraction" => job[q].document \in Requests
    BY DEF DocumentsInv, DocumentsTypeOK, DocumentsJobFits, Read
<1>5. replies[q] # None => replies[q].document \in Requests
    BY DEF DocumentsInv, DocumentsTypeOK, ReadReply
<1>6. ReadFits(q)'
  <2>1. pc'[q] = pc[q] /\ job'[q] = job[q] /\ replies'[q] = replies[q] /\ limit' = limit
      BY DEF Moves, RowsStay
  <2> QED BY <1>2, <1>3, <1>4, <1>5, <2>1 DEF DocumentsInv, ReadFits
<1> QED BY <1>1, <1>6

LEMMA DocumentsStepKeeps ==
    ASSUME DocumentsInv, NEW r \in Requests, Moves(r), RowsStay(r), UNCHANGED limit, DocumentsTypeOK',
           UploadFits(r)', ReadFits(r)'
    PROVE  DocumentsInv'
BY OthersStillFit, TurnsKept DEF DocumentsInv

-----------------------------------------------------------------------------
(* The actions.                                                            *)

LEMMA RowHasType ==
    ASSUME NEW j \in Upload
    PROVE  /\ [ owner |-> j.owner, sha256 |-> j.content,
                extraction |-> ExtractionStatus(j.content),
                signature |-> Verify(j.signature, j.content) ] \in DocumentRow
           /\ j.content # None
BY DocumentAssumption DEF Upload, DocumentRow, ExtractionStatus, Extractions, Verify, Signatures

LEMMA DocumentsArriveKeeps ==
    ASSUME DocumentsInv, NEW r \in Requests, NextToArrive(r), UNCHANGED documentVars,
           \/ \E j \in Upload : Await(r, "storeObject", j)
           \/ \E j \in Read : Await(r, "findDocument", j)
           \/ Answer(r, "refused")
    PROVE  DocumentsInv'
<1>1. /\ pc[r] = "idle"
      /\ \/ /\ pc' = [pc EXCEPT ![r] = "storeObject"]
            /\ \E j \in Upload : job' = [job EXCEPT ![r] = j]
         \/ /\ pc' = [pc EXCEPT ![r] = "findDocument"]
            /\ \E j \in Read : job' = [job EXCEPT ![r] = j]
         \/ pc' = [pc EXCEPT ![r] = "refused"] /\ job' = [job EXCEPT ![r] = None]
      /\ UNCHANGED <<limit, objects, documents, extractions, replies>>
    BY DEF NextToArrive, Await, Answer, documentVars
<1>2. DocumentsTypeOK'
    BY <1>1 DEF DocumentsInv, DocumentsTypeOK, DocumentsJobFits
<1>3. Moves(r) /\ RowsStay(r)
    BY <1>1 DEF DocumentsInv, DocumentsTypeOK, Moves, RowsStay, Answered
<1>4. UploadFits(r)' /\ ReadFits(r)'
    BY <1>1 DEF DocumentsInv, DocumentsTypeOK, UploadFits, ReadFits
<1> QED BY <1>1, <1>2, <1>3, <1>4, DocumentsStepKeeps

LEMMA StoreObjectKeeps ==
    ASSUME DocumentsInv, NEW r \in Requests, StoreObject(r)
    PROVE  DocumentsInv'
<1> DEFINE row == [ owner |-> job[r].owner, sha256 |-> job[r].content,
                    extraction |-> ExtractionStatus(job[r].content),
                    signature |-> Verify(job[r].signature, job[r].content) ]
<1>1. /\ pc[r] = "storeObject" /\ pc' = [pc EXCEPT ![r] = "saveDocument"]
      /\ job' = [job EXCEPT ![r] = row]
      /\ objects' = [objects EXCEPT ![r] = job[r].content]
      /\ UNCHANGED <<limit, documents, extractions, replies>>
    BY DEF StoreObject, Await
<1>2. job[r] \in Upload
    BY <1>1 DEF DocumentsInv, DocumentsTypeOK, DocumentsJobFits
<1>3. row \in DocumentRow /\ row.sha256 = job[r].content /\ job[r].content \in Contents
      /\ job[r].content # None
    BY <1>2, RowHasType DEF Upload
<1> HIDE DEF row
<1>4. DocumentsTypeOK'
    BY <1>1, <1>3 DEF DocumentsInv, DocumentsTypeOK, DocumentsJobFits
<1>5. Moves(r) /\ RowsStay(r)
    BY <1>1 DEF DocumentsInv, DocumentsTypeOK, Moves, RowsStay, Answered
<1>6. UploadFits(r)'
    BY <1>1, <1>3 DEF DocumentsInv, DocumentsTypeOK, UploadFits
<1>7. ReadFits(r)'
    BY <1>1 DEF DocumentsInv, DocumentsTypeOK, ReadFits, ReadReply, ReadIsAllowed, MissedRightly
<1> QED BY <1>1, <1>4, <1>5, <1>6, <1>7, DocumentsStepKeeps

LEMMA SaveDocumentKeeps ==
    ASSUME DocumentsInv, NEW r \in Requests, SaveDocument(r)
    PROVE  DocumentsInv'
<1>1. /\ pc[r] = "saveDocument" /\ pc' = [pc EXCEPT ![r] = "saveExtraction"]
      /\ job' = [job EXCEPT ![r] = job[r]]
      /\ documents' = [documents EXCEPT ![r] = job[r]]
      /\ UNCHANGED <<limit, objects, extractions, replies>>
    BY DEF SaveDocument, Await
<1>2. job[r] \in DocumentRow /\ job[r] # None
    BY <1>1, DocumentAssumption DEF DocumentsInv, DocumentsTypeOK, DocumentsJobFits
<1>3. DocumentsTypeOK'
    BY <1>1, <1>2 DEF DocumentsInv, DocumentsTypeOK, DocumentsJobFits
<1>4. documents[r] = None /\ objects[r] = job[r].sha256 /\ objects[r] # None
    BY <1>1, <1>2, DocumentAssumption DEF DocumentsInv, UploadFits, DocumentRow
<1>5. Moves(r) /\ RowsStay(r)
    BY <1>1, <1>4 DEF DocumentsInv, DocumentsTypeOK, Moves, RowsStay, Answered
<1>6. UploadFits(r)'
    BY <1>1, <1>2, <1>4 DEF DocumentsInv, DocumentsTypeOK, UploadFits
<1>7. ReadFits(r)'
    BY <1>1, <1>4 DEF DocumentsInv, DocumentsTypeOK, ReadFits, ReadReply, ReadIsAllowed, MissedRightly
<1> QED BY <1>1, <1>3, <1>5, <1>6, <1>7, DocumentsStepKeeps

LEMMA SaveExtractionKeeps ==
    ASSUME DocumentsInv, NEW r \in Requests, SaveExtraction(r)
    PROVE  DocumentsInv'
<1>1. /\ pc[r] = "saveExtraction"
      /\ \/ /\ Storable(job[r].sha256) /\ pc' = [pc EXCEPT ![r] = "done"]
            /\ extractions' = [extractions EXCEPT ![r] = job[r].extraction]
         \/ pc' = [pc EXCEPT ![r] = "failed"] /\ UNCHANGED extractions
      /\ job' = [job EXCEPT ![r] = None]
      /\ UNCHANGED <<limit, objects, documents, replies>>
    BY DEF SaveExtraction, Answer
<1>2. job[r] \in DocumentRow /\ job[r] # None /\ job[r].extraction \in Extractions
      /\ job[r].extraction # None
    BY <1>1, DocumentAssumption DEF DocumentsInv, DocumentsTypeOK, DocumentsJobFits, DocumentRow
<1>3. DocumentsTypeOK'
    BY <1>1, <1>2 DEF DocumentsInv, DocumentsTypeOK, DocumentsJobFits
<1>4. documents[r] = job[r] /\ extractions[r] = None
    BY <1>1 DEF DocumentsInv, UploadFits
<1>5. Moves(r) /\ RowsStay(r)
    BY <1>1 DEF DocumentsInv, DocumentsTypeOK, Moves, RowsStay, Answered
<1>6. UploadFits(r)'
    BY <1>1, <1>2, <1>4 DEF DocumentsInv, DocumentsTypeOK, UploadFits
<1>7. replies' = replies /\ pc[r] # "idle"
    BY <1>1
<1>8. \A d \in Requests \ {r} : MissedRightly(d, r) => MissedRightly(d, r)'
    BY <1>1 DEF DocumentsInv, DocumentsTypeOK, MissedRightly
<1>9. MissedRightly(r, r)'
    BY HandlingAssumption DEF MissedRightly, Requests
<1>10. ReadFits(r)'
    BY <1>1, <1>7, <1>8, <1>9 DEF DocumentsInv, DocumentsTypeOK, ReadFits, ReadReply, ReadIsAllowed
<1> QED BY <1>1, <1>3, <1>5, <1>6, <1>10, DocumentsStepKeeps

\* A read that ends with this status.
LEMMA ReplyKeeps ==
    ASSUME DocumentsInv, NEW r \in Requests, pc[r] \in {"findDocument", "findExtraction"},
           NEW status \in {"found", "notFound", "forbidden"}, Reply(r, status),
           UNCHANGED <<objects, documents, extractions>>,
           status = "found" => ReadIsAllowed(job[r].actor, job[r].document),
           status = "notFound" => extractions[job[r].document] = None
    PROVE  DocumentsInv'
<1> DEFINE reply == [ actor |-> job[r].actor, document |-> job[r].document,
                      part |-> job[r].part, status |-> status ]
<1>1. /\ pc' = [pc EXCEPT ![r] = IF status = "found" THEN "done" ELSE "refused"]
      /\ job' = [job EXCEPT ![r] = None] /\ replies' = [replies EXCEPT ![r] = reply]
      /\ UNCHANGED <<limit, objects, documents, extractions>>
    BY DEF Reply, Answer
<1>2. job[r] \in Read
    BY DEF DocumentsInv, DocumentsTypeOK, DocumentsJobFits
<1>3. reply \in ReadReply /\ job[r].document \in Requests
    BY <1>2 DEF Read, ReadReply
<1>4. DocumentsTypeOK'
    BY <1>1, <1>3 DEF DocumentsInv, DocumentsTypeOK, DocumentsJobFits
<1>5. Moves(r) /\ RowsStay(r)
    BY <1>1 DEF DocumentsInv, DocumentsTypeOK, Moves, RowsStay, Answered
<1>6. UploadFits(r)'
    BY <1>1 DEF DocumentsInv, DocumentsTypeOK, UploadFits
<1>7. ASSUME NEW d \in Requests, d = job[r].document, status = "notFound"
      PROVE  MissedRightly(d, r)'
  <2>1. ASSUME ~(d >= r), objects[d] # None
        PROVE  pc[d] # "done" /\ d # r
    <3>1. extractions[d] = None
        BY <1>7
    <3> QED BY <2>1, <3>1, HandlingAssumption DEF DocumentsInv, UploadFits, Requests
  <2> QED BY <1>1, <2>1 DEF DocumentsInv, DocumentsTypeOK, MissedRightly
<1>8. ReadFits(r)'
  <2>1. pc'[r] \in {"done", "refused"} /\ replies'[r] = reply
      BY <1>1 DEF DocumentsInv, DocumentsTypeOK
  <2>2. ASSUME NEW actor, NEW d, ReadIsAllowed(actor, d)
        PROVE  ReadIsAllowed(actor, d)'
      BY <1>1, <2>2 DEF ReadIsAllowed, CanReadDocument
  <2>3. replies'[r].document \in Requests /\ replies'[r].document = job[r].document
        /\ replies'[r].actor = job[r].actor /\ replies'[r].status = status
      BY <1>3, <2>1
  <2> QED BY <1>7, <2>1, <2>2, <2>3 DEF ReadFits
<1> QED BY <1>1, <1>4, <1>5, <1>6, <1>8, DocumentsStepKeeps

LEMMA FindDocumentKeeps ==
    ASSUME DocumentsInv, NEW r \in Requests, FindDocument(r)
    PROVE  DocumentsInv'
<1> DEFINE d == job[r].document
<1>1. pc[r] = "findDocument" /\ UNCHANGED <<objects, documents, extractions>>
    BY DEF FindDocument
<1>2. job[r] \in Read /\ d \in Requests
    BY <1>1 DEF DocumentsInv, DocumentsTypeOK, DocumentsJobFits, Read
<1>3. CASE documents[d] = None /\ Reply(r, "notFound")
    BY <1>1, <1>2, <1>3, ReplyKeeps DEF DocumentsInv, UploadFits
<1>4. CASE Reply(r, "forbidden")
    BY <1>1, <1>4, ReplyKeeps
<1>5. CASE ReadIsAllowed(job[r].actor, d) /\ Reply(r, "found")
    BY <1>1, <1>5, ReplyKeeps
<1>6. CASE ReadIsAllowed(job[r].actor, d) /\ Await(r, "findExtraction", job[r])
           /\ UNCHANGED replies
  <2>1. /\ pc' = [pc EXCEPT ![r] = "findExtraction"] /\ job' = [job EXCEPT ![r] = job[r]]
        /\ UNCHANGED <<limit, objects, documents, extractions, replies>>
      BY <1>1, <1>6 DEF Await
  <2>2. DocumentsTypeOK'
      BY <1>2, <2>1 DEF DocumentsInv, DocumentsTypeOK, DocumentsJobFits
  <2>3. Moves(r) /\ RowsStay(r)
      BY <1>1, <2>1 DEF DocumentsInv, DocumentsTypeOK, Moves, RowsStay, Answered
  <2>4. UploadFits(r)'
      BY <1>1, <2>1 DEF DocumentsInv, DocumentsTypeOK, UploadFits
  <2>5. ReadFits(r)'
      BY <1>1, <1>6, <2>1 DEF DocumentsInv, DocumentsTypeOK, ReadFits, ReadIsAllowed, MissedRightly,
                              CanReadDocument
  <2> QED BY <2>1, <2>2, <2>3, <2>4, <2>5, DocumentsStepKeeps
<1> QED BY <1>1, <1>3, <1>4, <1>5, <1>6 DEF FindDocument, ReadIsAllowed

LEMMA FindExtractionKeeps ==
    ASSUME DocumentsInv, NEW r \in Requests, FindExtraction(r)
    PROVE  DocumentsInv'
<1>1. pc[r] = "findExtraction" /\ UNCHANGED <<objects, documents, extractions>>
      /\ Reply(r, IF extractions[job[r].document] = None THEN "notFound" ELSE "found")
    BY DEF FindExtraction
<1>2. ReadIsAllowed(job[r].actor, job[r].document)
    BY <1>1 DEF DocumentsInv, ReadFits
<1> QED BY <1>1, <1>2, ReplyKeeps

LEMMA FailuresKeep ==
    ASSUME DocumentsInv, UNCHANGED documentVars,
           Crash \/ \E r \in Requests : QueryFails(r)
    PROVE  DocumentsInv'
<1> DEFINE Fails(q) == InFlight(q) /\ pc'[q] = "failed"
           Waits(q) == pc'[q] = pc[q] /\ (job'[q] = job[q] \/ ~InFlight(q))
<1>1. /\ pc' = [q \in Requests |-> pc'[q]] /\ job' = [q \in Requests |-> job'[q]]
      /\ \A q \in Requests : Fails(q) \/ Waits(q)
  <2>1. CASE Crash
      BY <2>1 DEF DocumentsInv, DocumentsTypeOK, Crash
  <2>2. ASSUME NEW r \in Requests, QueryFails(r)
        PROVE  /\ pc' = [q \in Requests |-> pc'[q]] /\ job' = [q \in Requests |-> job'[q]]
               /\ \A q \in Requests : Fails(q) \/ Waits(q)
    <3>1. /\ pc' = [pc EXCEPT ![r] = "failed"] /\ job' = [job EXCEPT ![r] = None]
          /\ InFlight(r)
        BY <2>2 DEF QueryFails, Answer
    <3>2. pc' = [q \in Requests |-> pc'[q]] /\ job' = [q \in Requests |-> job'[q]]
        BY <3>1 DEF DocumentsInv, DocumentsTypeOK
    <3>3. Fails(r) /\ \A q \in Requests \ {r} : Waits(q)
        BY <3>1 DEF DocumentsInv, DocumentsTypeOK
    <3> QED BY <3>2, <3>3
  <2> QED BY <2>1, <2>2
<1>2. UNCHANGED <<limit, objects, documents, extractions, replies>>
    BY DEF Crash, QueryFails, Answer, documentVars
<1>5. DocumentsTypeOK'
    BY <1>1, <1>2 DEF DocumentsInv, DocumentsTypeOK, DocumentsJobFits, InFlight
<1>3. ASSUME NEW q \in Requests
      PROVE  UploadFits(q)' /\ ReadFits(q)'
  <2>1. UploadFits(q)'
      BY <1>1, <1>2 DEF DocumentsInv, UploadFits, InFlight
  <2>2. \A d \in Requests : MissedRightly(d, q) => MissedRightly(d, q)'
      BY <1>1, <1>2 DEF MissedRightly, InFlight
  <2>3. \A actor, d : ReadIsAllowed(actor, d)' = ReadIsAllowed(actor, d)
      BY <1>2 DEF ReadIsAllowed, CanReadDocument
  <2>4. replies[q] # None => replies[q].document \in Requests
      BY DEF DocumentsInv, DocumentsTypeOK, ReadReply
  <2> QED BY <1>1, <1>2, <2>1, <2>2, <2>3, <2>4 DEF DocumentsInv, ReadFits, InFlight
<1>4. InTurn'
    BY <1>1, <1>2 DEF DocumentsInv, InTurn, Answered, InFlight
<1> QED BY <1>3, <1>4, <1>5 DEF DocumentsInv

-----------------------------------------------------------------------------
\* Types, how far each upload and read has come, and turns.
THEOREM DocumentsInvariantHolds == DocumentSpec => []DocumentsInv
<1>1. HandlingInit /\ DocumentInit => DocumentsInv
  <2> SUFFICES ASSUME HandlingInit, DocumentInit PROVE DocumentsInv
      OBVIOUS
  <2>1. DocumentsTypeOK
      BY DEF HandlingInit, DocumentInit, DocumentsTypeOK, DocumentsJobFits
  <2>2. \A r \in Requests : UploadFits(r) /\ ReadFits(r)
      BY DEF HandlingInit, DocumentInit, UploadFits, ReadFits
  <2>3. InTurn
      BY HandlingAssumption DEF HandlingInit, InTurn, Answered, Requests
  <2> QED BY <2>1, <2>2, <2>3 DEF DocumentsInv
<1>2. DocumentsInv /\ [DocumentNext]_documentState => DocumentsInv'
  <2> SUFFICES ASSUME DocumentsInv, [DocumentNext]_documentState PROVE DocumentsInv'
      OBVIOUS
  <2>1. CASE UNCHANGED documentState
      BY <2>1 DEF documentState, handling, documentVars, DocumentsInv, DocumentsTypeOK, DocumentsJobFits, UploadFits,
                  ReadFits, ReadIsAllowed, CanReadDocument, MissedRightly, InTurn
  <2>2. ASSUME NEW r \in Requests, DocumentStep(r)
        PROVE  DocumentsInv'
    <3>1. ASSUME NEW actor \in Actors, NEW content \in Contents, NEW signature \in Signatures,
                 NEW valid \in BOOLEAN, UploadDocument(r, actor, content, signature, valid)
          PROVE  DocumentsInv'
      <4>1. [ owner |-> actor.org, content |-> content, signature |-> signature ] \in Upload
          BY DEF Actors, Upload
      <4> QED BY <3>1, <4>1, DocumentsArriveKeeps DEF UploadDocument
    <3>2. ASSUME NEW actor \in Actors, NEW d \in Requests, NEW part \in {"metadata", "extraction"},
                 ReadDocument(r, actor, d, part)
          PROVE  DocumentsInv'
      <4>1. [ actor |-> actor, document |-> d, part |-> part ] \in Read
          BY DEF Read
      <4> QED BY <3>2, <4>1, DocumentsArriveKeeps DEF ReadDocument
    <3> QED BY <2>2, <3>1, <3>2, StoreObjectKeeps, SaveDocumentKeeps, SaveExtractionKeeps,
              FindDocumentKeeps, FindExtractionKeeps DEF DocumentStep
  <2> QED BY <2>1, <2>2, FailuresKeep DEF DocumentNext
<1> QED BY <1>1, <1>2, PTL DEF DocumentSpec

\* The three writes of an upload agree wherever it stops, reading tells nobody of a
\* document that is not theirs, and one at a time nothing stored is missed.
THEOREM UploadsAreWhole == DocumentSpec => []DocumentsAreWhole
<1>1. DocumentsInv => DocumentsAreWhole
  <2> SUFFICES ASSUME DocumentsInv PROVE DocumentsAreWhole
      OBVIOUS
  <2>1. ASSUME NEW d \in Requests
        PROVE  /\ documents[d] # None => objects[d] = documents[d].sha256
               /\ extractions[d] # None =>
                      documents[d] # None /\ extractions[d] = documents[d].extraction
               /\ objects[d] # None /\ pc[d] = "done" => extractions[d] # None
      BY DEF DocumentsInv, UploadFits
  <2>2. ASSUME NEW r \in Requests, replies[r] # None
        PROVE  LET d == replies[r].document
               IN  /\ replies[r].status = "found" =>
                          documents[d] # None /\ CanReadDocument(replies[r].actor, documents[d])
                   /\ limit = 1 /\ replies[r].status = "notFound" =>
                          d >= r \/ objects[d] = None \/ pc[d] # "done"
      BY <2>2 DEF DocumentsInv, ReadFits, ReadIsAllowed, MissedRightly
  <2> QED BY <2>1, <2>2 DEF DocumentsAreWhole
<1> QED BY <1>1, DocumentsInvariantHolds, PTL

-----------------------------------------------------------------------------
(* ExternalApi: a key and an answer stand for work that is complete,       *)
(* whoever else asks under the same key.                                   *)

ExternalTypeOK ==
    /\ HandlingOK
    /\ call \in [Requests -> ApiKey \union ErpKey \union {None}]
    /\ replays \in [ApiKey -> Requests \union {None}]
    /\ proof \in [Requests -> Progress \union {None}]
    /\ erpJob \in [Requests -> ErpKey \union {None}]
    /\ told \in [Requests -> Requests \union {None}]

Working == {"findOrder", "saveEvidence", "recordEvent", "linkEvidence"}

\* What a request has asked for and done, by how far it has come.
CallFits(r) ==
    /\ pc[r] = "idle" => call[r] = None
    /\ pc[r] \in {"findClient", "findReplay", "saveKey", "auditAccepted"} \union Working =>
           call[r] \in ApiKey
    /\ pc[r] \in {"findSource", "findAgain", "saveJob"} => call[r] \in ErpKey
    /\ pc[r] \in Working \union {"saveKey"} => job[r] = r
    /\ pc[r] \in {"recordEvent", "linkEvidence"} => proof[r] \notin {"linked", None}
    /\ proof[r] # None =>
           /\ call[r] \in ApiKey
           /\ pc[r] \in {"recordEvent", "linkEvidence", "saveKey", "auditAccepted", "done", "failed"}
    /\ erpJob[r] # None => erpJob[r] = call[r] /\ pc[r] = "done"

\* What a request is about to store or to tell is the result of its key.
ResultsFit(r) ==
    /\ pc[r] = "saveKey" => HasResult(r, call[r])
    /\ pc[r] = "auditAccepted" => job[r] \in Requests /\ HasResult(job[r], call[r])
    /\ told[r] # None => call[r] # None /\ HasResult(told[r], call[r])

\* Evidence that was submitted to the end is found under its key.
KeyIsStored(r) ==
    proof[r] # None /\ pc[r] \in {"auditAccepted", "done"} => replays[call[r]] # None

KeysHaveResults == \A k \in ApiKey : replays[k] # None => HasResult(replays[k], k)

JobsAreSingle ==
    \A q, r \in Requests :
        erpJob[q] # None /\ erpJob[q] = erpJob[r] => q = r \/ erpJob[q].key = None

\* The request has found no replay of its key.
Begun(r) == pc[r] \in {"findOrder", "saveEvidence"} \/ proof[r] # None

WorkIsRepeatedAfterFailure ==
    limit = 1 => \A q, r \in Requests :
        q < r /\ call[q] = call[r] /\ proof[q] # None /\ Begun(r) => pc[q] = "failed"

ExternalInv ==
    /\ ExternalTypeOK
    /\ InTurn
    /\ \A r \in Requests : CallFits(r) /\ ResultsFit(r) /\ KeyIsStored(r)
    /\ KeysHaveResults
    /\ JobsAreSingle
    /\ WorkIsRepeatedAfterFailure

-----------------------------------------------------------------------------
(* What a step may do to the tables, and what therefore stays true.        *)

LEMMA KindsOfKeys == ApiKey \intersect ErpKey = {}
BY DEF ApiKey, ErpKey

ResultsGrow ==
    \A q \in Requests : /\ call[q] # None => call'[q] = call[q]
                        /\ proof[q] = "linked" => proof'[q] = "linked"
                        /\ erpJob[q] # None => erpJob'[q] = erpJob[q]

LEMMA ResultStays ==
    ASSUME ResultsGrow, NEW q \in Requests, NEW k \in ApiKey \union ErpKey, HasResult(q, k)
    PROVE  HasResult(q, k)'
BY ExternalAssumption DEF ResultsGrow, HasResult

OthersCallsStay(r) ==
    \A q \in Requests \ {r} : /\ call'[q] = call[q] /\ proof'[q] = proof[q]
                              /\ erpJob'[q] = erpJob[q] /\ told'[q] = told[q]

ReplaysGrow == \A k \in ApiKey : replays[k] # None => replays'[k] # None

\* No request has this key, or the step does not begin the work.
BeginsOnce(r) == Begun(r)' => Begun(r) \/ (call[r] \in ApiKey /\ replays[call[r]] = None)

LEMMA ExternalGoesKeeps ==
    ASSUME ExternalInv, NEW r \in Requests, NEW step, NEW j, Goes(r, step, j),
           ExternalTypeOK', ResultsGrow, OthersCallsStay(r), ReplaysGrow, BeginsOnce(r),
           CallFits(r)', ResultsFit(r)', KeyIsStored(r)', KeysHaveResults', JobsAreSingle'
    PROVE  ExternalInv'
<1>1. InTurn'
    BY TurnsKept DEF ExternalInv, Goes
<1>2. ASSUME NEW q \in Requests \ {r}
      PROVE  CallFits(q)' /\ ResultsFit(q)' /\ KeyIsStored(q)'
  <2>1. /\ pc'[q] = pc[q] /\ job'[q] = job[q] /\ call'[q] = call[q] /\ proof'[q] = proof[q]
        /\ erpJob'[q] = erpJob[q] /\ told'[q] = told[q]
        /\ CallFits(q) /\ ResultsFit(q) /\ KeyIsStored(q)
      BY DEF Goes, Moves, OthersCallsStay, ExternalInv
  <2>2. CallFits(q)'
      BY <2>1 DEF CallFits
  <2>3. ResultsFit(q)'
    <3>1. ASSUME pc[q] = "saveKey" PROVE HasResult(q, call[q])'
        BY <2>1, <3>1, ResultStays DEF CallFits, ResultsFit
    <3>2. ASSUME pc[q] = "auditAccepted" PROVE job[q] \in Requests /\ HasResult(job[q], call[q])'
        BY <2>1, <3>2, ResultStays DEF CallFits, ResultsFit
    <3>3. ASSUME told[q] # None PROVE call[q] # None /\ HasResult(told[q], call[q])'
        BY <2>1, <3>3, ResultStays DEF ExternalInv, ExternalTypeOK, ResultsFit
    <3> QED BY <2>1, <3>1, <3>2, <3>3 DEF ResultsFit, HasResult
  <2>4. KeyIsStored(q)'
      BY <2>1 DEF KeyIsStored, CallFits, ReplaysGrow
  <2> QED BY <2>2, <2>3, <2>4
<1>3. ASSUME limit = 1, NEW p \in Requests, NEW q \in Requests, p < q, call'[p] = call'[q],
             proof'[p] # None, Begun(q)'
      PROVE  pc'[p] = "failed"
  <2>1. p # q
      BY <1>3, HandlingAssumption DEF Requests
  <2>2. pc'[q] # "idle" /\ pc[q] # "idle"
    <3>1. CallFits(q) /\ (CallFits(q)')
        BY <1>2 DEF ExternalInv
    <3>2. pc'[q] # "idle"
        BY <1>3, <3>1 DEF Begun, CallFits
    <3>3. CASE q = r
        BY <1>3, <3>1, <3>3, ExternalAssumption DEF BeginsOnce, CallFits, Begun
    <3>4. CASE q # r
        BY <3>2, <3>4 DEF Goes, Moves
    <3> QED BY <3>2, <3>3, <3>4
  <2>3. pc[p] \in Answered
      BY <1>3, <2>2 DEF ExternalInv, InTurn
  <2>4. p # r /\ pc'[p] = pc[p] /\ call'[p] = call[p] /\ proof'[p] = proof[p]
      BY <2>3 DEF Goes, Moves, OthersCallsStay
  <2>5. CASE Begun(q) /\ call'[q] = call[q]
      BY <1>3, <2>4, <2>5 DEF ExternalInv, WorkIsRepeatedAfterFailure
  <2>6. CASE q # r
    <3>1. call'[q] = call[q] /\ Begun(q)
        BY <1>3, <2>6 DEF Goes, Moves, OthersCallsStay, Begun
    <3> QED BY <3>1, <2>5
  <2>7. CASE q = r
    <3>1. CASE Begun(q)
      <4>1. call[q] # None
          BY <2>7, <3>1, ExternalAssumption DEF ExternalInv, CallFits, Begun, Working
      <4> QED BY <3>1, <4>1, <2>5 DEF ResultsGrow
    <3>2. CASE call[q] \in ApiKey /\ replays[call[q]] = None
      <4>1. call[p] = call[q]
          BY <1>3, <2>4, <3>2, ExternalAssumption DEF ResultsGrow
      <4>2. pc[p] # "done" /\ pc[p] # "refused"
          BY <1>3, <2>4, <3>2, <4>1 DEF ExternalInv, KeyIsStored, CallFits
      <4> QED BY <2>3, <2>4, <4>2 DEF Answered
    <3> QED BY <1>3, <2>7, <3>1, <3>2 DEF BeginsOnce
  <2> QED BY <2>6, <2>7
<1>4. WorkIsRepeatedAfterFailure'
    BY <1>3 DEF WorkIsRepeatedAfterFailure, Goes
<1> QED BY <1>1, <1>2, <1>4 DEF ExternalInv

\* A step that changes no table.
LEMMA ExternalQuietStep ==
    ASSUME ExternalInv, NEW r \in Requests, NEW step, NEW j, Goes(r, step, j), HandlingOK',
           UNCHANGED externalVars, BeginsOnce(r), CallFits(r)', ResultsFit(r)', KeyIsStored(r)'
    PROVE  ExternalInv'
<1>1. ExternalTypeOK' /\ ResultsGrow /\ OthersCallsStay(r) /\ ReplaysGrow
    BY DEF ExternalInv, ExternalTypeOK, externalVars, ResultsGrow, OthersCallsStay, ReplaysGrow
<1>2. KeysHaveResults' /\ JobsAreSingle'
    BY DEF ExternalInv, externalVars, KeysHaveResults, JobsAreSingle, HasResult
<1> QED BY <1>1, <1>2, ExternalGoesKeeps

-----------------------------------------------------------------------------
(* Steps that write no row.                                                *)

LEMMA ExternalArriveKeeps ==
    ASSUME ExternalInv, NEW r \in Requests, NEW k \in ApiKey \union ErpKey, Arrive(r, k),
           UNCHANGED <<replays, proof, erpJob>>,
           \/ /\ \/ k \in ApiKey /\ \E step \in {"findClient", "auditRejected"} : Await(r, step, None)
                 \/ k \in ErpKey /\ \E step \in {"findSource", "findAgain"} : Await(r, step, None)
              /\ UNCHANGED told
           \/ \E q \in JobsOf(k) : k \in ErpKey /\ Tell(r, q)
    PROVE  ExternalInv'
<1>1. /\ pc[r] = "idle" /\ NextToArrive(r) /\ call' = [call EXCEPT ![r] = k]
      /\ call[r] = None /\ proof[r] = None /\ erpJob[r] = None /\ k # None
    BY ExternalAssumption DEF Arrive, NextToArrive, ExternalInv, CallFits
<1>2. call'[r] = k /\ \A q \in Requests \ {r} : call'[q] = call[q]
    BY <1>1 DEF ExternalInv, ExternalTypeOK
<1>3. ResultsGrow /\ ReplaysGrow
    BY <1>1, <1>2 DEF ResultsGrow, ReplaysGrow
<1>4. KeysHaveResults'
    BY <1>3, ResultStays DEF ExternalInv, ExternalTypeOK, KeysHaveResults
<1>5. JobsAreSingle'
    BY DEF ExternalInv, JobsAreSingle
<1>6. CASE UNCHANGED told /\ \E step \in {"findClient", "auditRejected", "findSource", "findAgain"} :
               /\ Await(r, step, None)
               /\ step = "findClient" => k \in ApiKey
               /\ step \in {"findSource", "findAgain"} => k \in ErpKey
  <2>1. PICK step \in {"findClient", "auditRejected", "findSource", "findAgain"} :
               /\ Await(r, step, None)
               /\ step = "findClient" => k \in ApiKey
               /\ step \in {"findSource", "findAgain"} => k \in ErpKey
      BY <1>6
  <2>2. Goes(r, step, None) /\ HandlingOK'
      BY <1>1, <2>1, AwaitGoes DEF ExternalInv, ExternalTypeOK
  <2>3. ExternalTypeOK' /\ OthersCallsStay(r)
      BY <1>1, <1>2, <1>6, <2>2 DEF ExternalInv, ExternalTypeOK, OthersCallsStay
  <2>4. pc'[r] = step
      BY <2>2 DEF Goes
  <2>5. CallFits(r)' /\ KeyIsStored(r)' /\ BeginsOnce(r)
      BY <1>1, <1>2, <2>1, <2>4 DEF CallFits, KeyIsStored, BeginsOnce, Begun, Working
  <2>6. told[r] = None
      BY <1>1 DEF ExternalInv, ResultsFit
  <2>7. ResultsFit(r)'
      BY <1>6, <2>1, <2>4, <2>6 DEF ResultsFit
  <2> QED BY <1>3, <1>4, <1>5, <2>2, <2>3, <2>5, <2>7, ExternalGoesKeeps
<1>7. CASE \E q \in JobsOf(k) : k \in ErpKey /\ Tell(r, q)
  <2>1. PICK q \in JobsOf(k) : k \in ErpKey /\ Tell(r, q)
      BY <1>7
  <2>2. q \in Requests /\ erpJob[q] = k /\ call[q] = k /\ Answer(r, "done")
        /\ told' = [told EXCEPT ![r] = q]
      BY <1>1, <2>1 DEF JobsOf, Tell, ExternalInv, CallFits
  <2>3. Goes(r, "done", None) /\ HandlingOK'
      BY <1>1, <2>2, AnswerGoes DEF ExternalInv, ExternalTypeOK
  <2>4. ExternalTypeOK' /\ OthersCallsStay(r) /\ told'[r] = q /\ pc'[r] = "done"
      BY <1>1, <1>2, <2>2, <2>3 DEF ExternalInv, ExternalTypeOK, OthersCallsStay, Goes
  <2>5. CallFits(r)' /\ KeyIsStored(r)' /\ BeginsOnce(r)
      BY <1>1, <1>2, <2>4 DEF CallFits, KeyIsStored, BeginsOnce, Begun, Working
  <2>6. HasResult(q, k)
      BY <2>1, <2>2, KindsOfKeys DEF HasResult
  <2>7. HasResult(q, k)'
      BY <1>3, <2>2, <2>6, ResultStays
  <2>8. ResultsFit(r)'
      BY <1>1, <1>2, <2>4, <2>7 DEF ResultsFit, HasResult
  <2> QED BY <1>3, <1>4, <1>5, <2>3, <2>4, <2>5, <2>8, ExternalGoesKeeps
<1> QED BY <1>6, <1>7

LEMMA ExternalQueriesKeep ==
    ASSUME ExternalInv, NEW r \in Requests,
           \/ FindClient(r) \/ FindReplay(r) \/ FindProofReplay(r) \/ FindOrder(r)
           \/ FindSource(r)
           \/ QueryFails(r) /\ UNCHANGED externalVars
    PROVE  ExternalInv'
<1>1. CallFits(r) /\ ResultsFit(r) /\ KeyIsStored(r) /\ HandlingOK
    BY DEF ExternalInv, ExternalTypeOK
<1> DEFINE failing == QueryFails(r) /\ UNCHANGED externalVars
<1>2. UNCHANGED externalVars /\ InFlight(r)
    BY DEF FindClient, FindReplay, FindProofReplay, FindOrder, FindSource, QueryFails, InFlight
<1>3. ASSUME NEW step, NEW j, Goes(r, step, j), HandlingOK',
             step \in {"auditRejected", "findReplay", "findOrder", "saveEvidence", "findAgain",
                       "refused", "failed"},
             step = "findReplay" => pc[r] = "findClient",
             step = "findOrder" => call[r] \in ApiKey /\ replays[call[r]] = None /\ j = r,
             step = "saveEvidence" => pc[r] = "findOrder" /\ j = job[r],
             step = "findAgain" => pc[r] = "findSource",
             step # "failed" => pc[r] \in {"findClient", "findReplay", "findOrder", "findSource"}
      PROVE  ExternalInv'
  <2>1. pc'[r] = step /\ job'[r] = j /\ UNCHANGED <<call, replays, proof, erpJob, told>>
      BY <1>2, <1>3 DEF Goes, externalVars
  <2>2. BeginsOnce(r)
      BY <1>1, <1>3, <2>1 DEF BeginsOnce, Begun
  <2>3. CallFits(r)'
    <3>1. step # "failed" => proof[r] = None
        BY <1>1, <1>3 DEF CallFits
    <3>2. erpJob[r] = None
        BY <1>1, <1>2 DEF CallFits, InFlight
    <3> QED BY <1>1, <1>3, <2>1, <3>1, <3>2 DEF CallFits, Working
  <2>4. KeyIsStored(r)'
      BY <1>3, <2>1 DEF KeyIsStored
  <2>5. ResultsFit(r)'
      BY <1>1, <1>3, <2>1 DEF ResultsFit, HasResult
  <2> QED BY <1>2, <1>3, <2>2, <2>3, <2>4, <2>5, ExternalQuietStep
<1>4. ASSUME NEW q, pc[r] = "findReplay", call[r] \in ApiKey, replays[call[r]] = q, q # None,
             Await(r, "auditAccepted", q)
      PROVE  ExternalInv'
  <2>1. Goes(r, "auditAccepted", q) /\ HandlingOK'
      BY <1>1, <1>2, <1>4, AwaitGoes
  <2>2. q \in Requests /\ HasResult(q, call[r])
      BY <1>4 DEF ExternalInv, ExternalTypeOK, KeysHaveResults
  <2>3. pc'[r] = "auditAccepted" /\ job'[r] = q /\ UNCHANGED <<call, replays, proof, erpJob, told>>
      BY <1>2, <2>1 DEF Goes, externalVars
  <2>4. CallFits(r)' /\ KeyIsStored(r)' /\ BeginsOnce(r)
      BY <1>1, <1>4, <2>3 DEF CallFits, KeyIsStored, BeginsOnce, Begun, Working
  <2>5. ResultsFit(r)'
      BY <1>1, <2>2, <2>3 DEF ResultsFit, HasResult
  <2> QED BY <1>2, <2>1, <2>4, <2>5, ExternalQuietStep
<1>5. ASSUME NEW q, pc[r] = "findReplay", call[r].route = "proofVerify", Await(r, "saveKey", r)
      PROVE  ExternalInv'
  <2>1. Goes(r, "saveKey", r) /\ HandlingOK'
      BY <1>1, <1>2, AwaitGoes, <1>5
  <2>2. call[r] \in ApiKey /\ HasResult(r, call[r])
      BY <1>1, <1>5, KindsOfKeys DEF CallFits, HasResult
  <2>3. pc'[r] = "saveKey" /\ job'[r] = r /\ UNCHANGED <<call, replays, proof, erpJob, told>>
      BY <1>2, <2>1 DEF Goes, externalVars
  <2>4. CallFits(r)' /\ KeyIsStored(r)' /\ BeginsOnce(r)
      BY <1>1, <1>5, <2>2, <2>3 DEF CallFits, KeyIsStored, BeginsOnce, Begun, Working
  <2>5. ResultsFit(r)'
      BY <1>1, <2>2, <2>3 DEF ResultsFit, HasResult
  <2> QED BY <1>2, <2>1, <2>4, <2>5, ExternalQuietStep
<1>6. CASE FindClient(r)
    BY <1>1, <1>2, <1>3, <1>6, AwaitGoes DEF FindClient, MapBody
<1>7. CASE FindReplay(r)
    BY <1>1, <1>2, <1>3, <1>4, <1>7, AwaitGoes DEF FindReplay, CallFits
<1>8. CASE FindProofReplay(r)
    BY <1>1, <1>4, <1>5, <1>8 DEF FindProofReplay, CallFits
<1>9. CASE FindOrder(r)
    BY <1>1, <1>2, <1>3, <1>9, AwaitGoes DEF FindOrder, RejectEvidence
<1>10. CASE FindSource(r)
    BY <1>1, <1>2, <1>3, <1>10, AwaitGoes, AnswerGoes DEF FindSource
<1>11. CASE failing
    BY <1>1, <1>2, <1>3, <1>11, AnswerGoes DEF QueryFails
<1> QED BY <1>6, <1>7, <1>8, <1>9, <1>10, <1>11

-----------------------------------------------------------------------------
(* Steps that write.                                                       *)

LEMMA ProofStepKeeps ==
    ASSUME ExternalInv, NEW r \in Requests,
           NEW step \in Working \ {"findOrder"}, NEW reached \in Progress,
           NEW next \in {"recordEvent", "linkEvidence", "saveKey"},
           (next = "saveKey") = (reached = "linked"), ProofStep(r, step, reached, next)
    PROVE  ExternalInv'
<1>2. /\ pc[r] = step /\ proof' = [proof EXCEPT ![r] = reached] /\ Await(r, next, job[r])
      /\ UNCHANGED <<call, replays, erpJob, told>>
      /\ CallFits(r) /\ ResultsFit(r) /\ HandlingOK
    BY DEF ProofStep, ExternalInv, ExternalTypeOK
<1>3. Goes(r, next, job[r]) /\ HandlingOK'
    BY <1>2, AwaitGoes DEF InFlight, Working
<1>4. /\ pc'[r] = next /\ job'[r] = job[r] /\ job[r] = r /\ call[r] \in ApiKey
      /\ proof'[r] = reached /\ \A q \in Requests \ {r} : proof'[q] = proof[q]
    BY <1>2, <1>3 DEF Goes, CallFits, ExternalInv, ExternalTypeOK
<1>5. proof[r] # "linked"
    BY <1>2, ExternalAssumption DEF CallFits, Working, Progress
<1>6. ExternalTypeOK' /\ OthersCallsStay(r) /\ ReplaysGrow /\ ResultsGrow
    BY <1>2, <1>3, <1>4, <1>5 DEF ExternalInv, ExternalTypeOK, OthersCallsStay, ReplaysGrow,
                                  ResultsGrow
<1>7. KeysHaveResults' /\ JobsAreSingle'
    BY <1>2, <1>6, ResultStays DEF ExternalInv, ExternalTypeOK, KeysHaveResults, JobsAreSingle
<1>8. erpJob[r] = None
    BY <1>2 DEF CallFits, Working
<1>9. CallFits(r)' /\ KeyIsStored(r)'
    BY <1>2, <1>4, <1>8, ExternalAssumption DEF CallFits, KeyIsStored, Working
<1>10. BeginsOnce(r)
    BY <1>2, ExternalAssumption DEF BeginsOnce, Begun, CallFits, Working
<1>11. HasResult(r, call[r])' \/ next # "saveKey"
    BY <1>2, <1>4, KindsOfKeys DEF HasResult
<1>12. told[r] # None => HasResult(told[r], call[r])'
    BY <1>2, <1>4, <1>6, ResultStays DEF ResultsFit, ExternalInv, ExternalTypeOK
<1>13. ResultsFit(r)'
    BY <1>2, <1>4, <1>11, <1>12 DEF ResultsFit, HasResult, Working
<1> QED BY <1>3, <1>6, <1>7, <1>9, <1>10, <1>13, ExternalGoesKeeps

LEMMA SaveKeyKeeps ==
    ASSUME ExternalInv, NEW r \in Requests, SaveKey(r)
    PROVE  ExternalInv'
<1>1. /\ pc[r] = "saveKey" /\ Await(r, "auditAccepted", job[r])
      /\ replays' = [replays EXCEPT ![call[r]] = IF @ = None THEN r ELSE @]
      /\ UNCHANGED <<call, proof, erpJob, told>>
      /\ CallFits(r) /\ ResultsFit(r) /\ HandlingOK
    BY DEF SaveKey, ExternalInv, ExternalTypeOK
<1>2. Goes(r, "auditAccepted", job[r]) /\ HandlingOK'
    BY <1>1, AwaitGoes DEF InFlight
<1>3. /\ pc'[r] = "auditAccepted" /\ job'[r] = r /\ call[r] \in ApiKey /\ r # None
      /\ HasResult(r, call[r])
    BY <1>1, <1>2, ExternalAssumption DEF Goes, CallFits, ResultsFit
<1>4. /\ replays'[call[r]] \in {r, replays[call[r]]} /\ replays'[call[r]] # None
      /\ \A k \in ApiKey \ {call[r]} : replays'[k] = replays[k]
    BY <1>1, <1>3 DEF ExternalInv, ExternalTypeOK
<1>5. ExternalTypeOK' /\ OthersCallsStay(r) /\ ReplaysGrow /\ ResultsGrow
    BY <1>1, <1>2, <1>3, <1>4 DEF ExternalInv, ExternalTypeOK, OthersCallsStay, ReplaysGrow,
                                  ResultsGrow
<1>6. \A k \in ApiKey : replays'[k] # None => HasResult(replays'[k], k)
    BY <1>3, <1>4 DEF ExternalInv, KeysHaveResults
<1>7. KeysHaveResults' /\ JobsAreSingle'
    BY <1>1, <1>6 DEF ExternalInv, KeysHaveResults, JobsAreSingle, HasResult
<1>8. CallFits(r)' /\ KeyIsStored(r)' /\ BeginsOnce(r)
    BY <1>1, <1>3, <1>4 DEF CallFits, KeyIsStored, BeginsOnce, Begun, Working
<1>9. ResultsFit(r)'
    BY <1>1, <1>3 DEF ResultsFit, HasResult
<1> QED BY <1>2, <1>5, <1>7, <1>8, <1>9, ExternalGoesKeeps

LEMMA AuditCallKeeps ==
    ASSUME ExternalInv, NEW r \in Requests, AuditCall(r)
    PROVE  ExternalInv'
<1>1. /\ UNCHANGED <<call, replays, proof, erpJob>>
      /\ CallFits(r) /\ ResultsFit(r) /\ KeyIsStored(r) /\ HandlingOK
    BY DEF AuditCall, ExternalInv, ExternalTypeOK
<1>2. CASE pc[r] = "auditAccepted" /\ Tell(r, job[r])
  <2>1. Goes(r, "done", None) /\ HandlingOK' /\ told' = [told EXCEPT ![r] = job[r]]
      BY <1>1, <1>2, AnswerGoes DEF InFlight, Tell
  <2>2. /\ job[r] \in Requests /\ HasResult(job[r], call[r]) /\ call[r] \in ApiKey
        /\ pc'[r] = "done"
      BY <1>1, <1>2, <2>1 DEF Goes, CallFits, ResultsFit
  <2>3. /\ ExternalTypeOK' /\ OthersCallsStay(r) /\ ReplaysGrow /\ ResultsGrow
        /\ told'[r] = job[r]
      BY <1>1, <2>1, <2>2 DEF ExternalInv, ExternalTypeOK, OthersCallsStay, ReplaysGrow, ResultsGrow
  <2>4. KeysHaveResults' /\ JobsAreSingle'
      BY <1>1 DEF ExternalInv, KeysHaveResults, JobsAreSingle, HasResult
  <2>5. CallFits(r)' /\ KeyIsStored(r)' /\ BeginsOnce(r)
      BY <1>1, <1>2, <2>2 DEF CallFits, KeyIsStored, BeginsOnce, Begun, Working
  <2>6. ResultsFit(r)'
      BY <1>1, <2>2, <2>3, ExternalAssumption DEF ResultsFit, HasResult
  <2> QED BY <2>1, <2>3, <2>4, <2>5, <2>6, ExternalGoesKeeps
<1>3. CASE pc[r] = "auditRejected" /\ Answer(r, "refused") /\ UNCHANGED told
  <2>1. Goes(r, "refused", None) /\ HandlingOK' /\ UNCHANGED externalVars
      BY <1>1, <1>3, AnswerGoes DEF InFlight, externalVars
  <2>2. pc'[r] = "refused"
      BY <2>1 DEF Goes
  <2>3. CallFits(r)' /\ KeyIsStored(r)' /\ BeginsOnce(r)
      BY <1>1, <1>3, <2>2 DEF CallFits, KeyIsStored, BeginsOnce, Begun, Working
  <2>4. ResultsFit(r)'
      BY <1>1, <1>3, <2>2 DEF ResultsFit, HasResult
  <2> QED BY <2>1, <2>3, <2>4, ExternalQuietStep
<1> QED BY <1>2, <1>3 DEF AuditCall

\* The second lookup of the job of a key, and the INSERT of the job.
LEMMA JobsKeep ==
    ASSUME ExternalInv, NEW r \in Requests, FindAgain(r) \/ SaveJob(r)
    PROVE  ExternalInv'
<1>1. /\ pc[r] \in {"findAgain", "saveJob"} /\ UNCHANGED <<call, replays, proof>>
      /\ CallFits(r) /\ ResultsFit(r) /\ KeyIsStored(r) /\ HandlingOK
    BY DEF FindAgain, SaveJob, ExternalInv, ExternalTypeOK
<1>2. /\ call[r] \in ErpKey /\ proof[r] = None /\ erpJob[r] = None /\ InFlight(r)
    BY <1>1 DEF CallFits, InFlight
<1>3. ASSUME UNCHANGED externalVars, NEW step \in {"saveJob", "failed"},
             Await(r, step, None) \/ Answer(r, step), step = "failed" => Answer(r, step)
      PROVE  ExternalInv'
  <2>1. Goes(r, step, None) /\ HandlingOK'
      BY <1>1, <1>2, <1>3, AwaitGoes, AnswerGoes
  <2>2. pc'[r] = step
      BY <2>1 DEF Goes
  <2>3. CallFits(r)' /\ KeyIsStored(r)' /\ BeginsOnce(r)
      BY <1>1, <1>2, <1>3, <2>2 DEF CallFits, KeyIsStored, BeginsOnce, Begun, Working, externalVars
  <2>4. ResultsFit(r)'
      BY <1>1, <1>3, <2>2 DEF ResultsFit, HasResult, externalVars
  <2> QED BY <1>3, <2>1, <2>3, <2>4, ExternalQuietStep
<1>4. ASSUME NEW q \in Requests, Tell(r, q), HasResult(q, call[r])',
             \/ UNCHANGED erpJob
             \/ JobKeyAdmits(call[r]) /\ erpJob' = [erpJob EXCEPT ![r] = call[r]]
      PROVE  ExternalInv'
  <2>1. Goes(r, "done", None) /\ HandlingOK' /\ told' = [told EXCEPT ![r] = q]
      BY <1>1, <1>2, <1>4, AnswerGoes DEF Tell
  <2>2. pc'[r] = "done" /\ told'[r] = q
      BY <2>1 DEF Goes, ExternalInv, ExternalTypeOK
  <2>3. /\ erpJob'[r] \in {call[r], None} /\ \A p \in Requests \ {r} : erpJob'[p] = erpJob[p]
        /\ erpJob' \in [Requests -> ErpKey \union {None}]
      BY <1>2, <1>4 DEF ExternalInv, ExternalTypeOK
  <2>4. ExternalTypeOK' /\ OthersCallsStay(r) /\ ReplaysGrow /\ ResultsGrow
      BY <1>1, <1>2, <2>1, <2>3 DEF ExternalInv, ExternalTypeOK, OthersCallsStay, ReplaysGrow,
                                    ResultsGrow
  <2>5. KeysHaveResults'
      BY <1>1, <2>4, ResultStays DEF ExternalInv, ExternalTypeOK, KeysHaveResults
  <2>6. JobsAreSingle'
    <3>1. CASE UNCHANGED erpJob
        BY <3>1 DEF ExternalInv, JobsAreSingle
    <3>2. CASE JobKeyAdmits(call[r]) /\ erpJob' = [erpJob EXCEPT ![r] = call[r]]
      <4>1. erpJob'[r] = call[r]
          BY <3>2 DEF ExternalInv, ExternalTypeOK
      <4>2. \A p \in Requests \ {r} : erpJob[p] = call[r] => call[r].key = None
          BY <3>2 DEF JobKeyAdmits, JobsOf
      <4> QED BY <2>3, <4>1, <4>2 DEF ExternalInv, JobsAreSingle
    <3> QED BY <1>4, <3>1, <3>2
  <2>7. CallFits(r)' /\ KeyIsStored(r)' /\ BeginsOnce(r)
      BY <1>1, <1>2, <2>2, <2>3 DEF CallFits, KeyIsStored, BeginsOnce, Begun, Working
  <2>8. ResultsFit(r)'
      BY <1>1, <1>2, <1>4, <2>2, ExternalAssumption DEF ResultsFit, HasResult
  <2> QED BY <2>1, <2>4, <2>5, <2>6, <2>7, <2>8, ExternalGoesKeeps
<1>5. ASSUME NEW q \in JobsOf(call[r]), Tell(r, q), UNCHANGED erpJob
      PROVE  ExternalInv'
  <2>1. q \in Requests /\ erpJob[q] = call[r] /\ call[q] = call[r]
      BY <1>2, <1>5, ExternalAssumption DEF JobsOf, ExternalInv, CallFits
  <2>2. HasResult(q, call[r])'
      BY <1>1, <1>2, <1>5, <2>1, KindsOfKeys DEF HasResult
  <2> QED BY <1>4, <1>5, <2>1, <2>2
<1>6. ASSUME Tell(r, r), JobKeyAdmits(call[r]), erpJob' = [erpJob EXCEPT ![r] = call[r]]
      PROVE  ExternalInv'
  <2>1. erpJob'[r] = call[r]
      BY <1>6 DEF ExternalInv, ExternalTypeOK
  <2>2. HasResult(r, call[r])'
      BY <1>1, <1>2, <2>1, KindsOfKeys DEF HasResult
  <2> QED BY <1>4, <1>6, <2>2
<1>7. CASE FindAgain(r)
  <2>1. CASE \E q \in JobsOf(call[r]) : Tell(r, q)
      BY <1>5, <1>7, <2>1 DEF FindAgain
  <2>2. CASE Await(r, "saveJob", None) /\ UNCHANGED told
    <3>1. UNCHANGED externalVars
        BY <1>7, <2>2 DEF FindAgain, externalVars
    <3> QED BY <1>3, <2>2, <3>1
  <2> QED BY <1>7, <2>1, <2>2 DEF FindAgain
<1>8. CASE SaveJob(r)
  <2>1. CASE JobKeyAdmits(call[r])
      BY <1>6, <1>8, <2>1 DEF SaveJob
  <2>2. CASE ~JobKeyAdmits(call[r])
      BY <1>3, <1>8, <2>2 DEF SaveJob, externalVars
  <2> QED BY <2>1, <2>2
<1> QED BY <1>7, <1>8

LEMMA ExternalCrashKeeps ==
    ASSUME ExternalInv, Crash, UNCHANGED externalVars
    PROVE  ExternalInv'
<1>1. Stopped /\ HandlingOK' /\ UNCHANGED <<call, replays, proof, erpJob, told>>
    BY CrashStops DEF externalVars
<1>2. ExternalTypeOK' /\ InTurn' /\ KeysHaveResults' /\ JobsAreSingle'
    BY <1>1, TurnsKeptByCrash DEF ExternalInv, ExternalTypeOK, KeysHaveResults, JobsAreSingle,
                                  HasResult
<1>3. ASSUME NEW r \in Requests
      PROVE  CallFits(r)' /\ ResultsFit(r)' /\ KeyIsStored(r)'
  <2>1. /\ \/ pc'[r] = pc[r]
           \/ pc'[r] = "failed" /\ InFlight(r)
        /\ pc'[r] \in {"idle", "done", "refused", "failed"}
        /\ CallFits(r) /\ ResultsFit(r) /\ KeyIsStored(r)
      BY <1>1 DEF Stopped, InFlight, ExternalInv
  <2>2. CallFits(r)'
      BY <1>1, <2>1 DEF CallFits, InFlight, Working
  <2>3. ResultsFit(r)' /\ KeyIsStored(r)'
      BY <1>1, <2>1 DEF ResultsFit, KeyIsStored, HasResult
  <2> QED BY <2>2, <2>3
<1>4. WorkIsRepeatedAfterFailure'
  <2>1. ASSUME limit = 1, NEW q \in Requests, NEW r \in Requests, q < r, call[q] = call[r],
               proof[q] # None, Begun(r)'
        PROVE  pc'[q] = "failed"
    <3>1. Begun(r)
        BY <1>1, <2>1 DEF Begun, Stopped
    <3>2. pc[q] = "failed"
        BY <2>1, <3>1 DEF ExternalInv, WorkIsRepeatedAfterFailure
    <3> QED BY <1>1, <3>2 DEF Stopped, InFlight
  <2> QED BY <1>1, <2>1 DEF WorkIsRepeatedAfterFailure, Stopped
<1> QED BY <1>2, <1>3, <1>4 DEF ExternalInv

-----------------------------------------------------------------------------
\* Keys, answers and jobs stand for finished work, and what each handler is
\* about to store or to tell does.
THEOREM ExternalInvariantHolds == ExternalSpec => []ExternalInv
<1>1. HandlingInit /\ ExternalInit => ExternalInv
  <2> SUFFICES ASSUME HandlingInit, ExternalInit PROVE ExternalInv
      OBVIOUS
  <2>1. HandlingOK /\ InTurn /\ \A r \in Requests : pc[r] \in {"idle", "done"}
      BY InitialTurns
  <2>2. ExternalTypeOK /\ KeysHaveResults /\ JobsAreSingle
      BY <2>1 DEF ExternalInit, ExternalTypeOK, KeysHaveResults, JobsAreSingle
  <2>3. \A r \in Requests : CallFits(r) /\ ResultsFit(r) /\ KeyIsStored(r)
      BY <2>1 DEF ExternalInit, CallFits, ResultsFit, KeyIsStored, Working
  <2>4. WorkIsRepeatedAfterFailure
      BY DEF ExternalInit, WorkIsRepeatedAfterFailure
  <2> QED BY <2>1, <2>2, <2>3, <2>4 DEF ExternalInv
<1>2. ExternalInv /\ [ExternalNext]_externalState => ExternalInv'
  <2> SUFFICES ASSUME ExternalInv, [ExternalNext]_externalState PROVE ExternalInv'
      OBVIOUS
  <2>1. CASE UNCHANGED externalState
    <3>1. UNCHANGED <<limit, pc, job, call, replays, proof, erpJob, told>>
        BY <2>1 DEF externalState, handling, externalVars
    <3>2. ExternalTypeOK' /\ InTurn' /\ KeysHaveResults' /\ JobsAreSingle'
          /\ WorkIsRepeatedAfterFailure'
        BY <3>1 DEF ExternalInv, ExternalTypeOK, HandlingOK, InTurn, KeysHaveResults,
                    JobsAreSingle, HasResult, WorkIsRepeatedAfterFailure, Begun
    <3>3. \A r \in Requests : CallFits(r)' /\ ResultsFit(r)' /\ KeyIsStored(r)'
        BY <3>1 DEF ExternalInv, CallFits, ResultsFit, KeyIsStored, HasResult
    <3> QED BY <3>2, <3>3 DEF ExternalInv
  <2>2. ASSUME NEW r \in Requests, NEW k \in ApiKey, ReceiveExternal(r, k)
        PROVE  ExternalInv'
      BY <2>2, ExternalArriveKeeps DEF ReceiveExternal
  <2>3. ASSUME NEW r \in Requests, NEW k \in ErpKey, ExportErpArtifact(r, k) \/ ImportErpArtifact(r, k)
        PROVE  ExternalInv'
    <3>1. PICK step \in {"findSource", "findAgain"} : ErpRequest(r, k, step)
        BY <2>3 DEF ExportErpArtifact, ImportErpArtifact
    <3> QED BY <3>1, ExternalArriveKeeps DEF ErpRequest
  <2>4. ASSUME NEW r \in Requests, SaveEvidence(r) \/ RecordEvent(r) \/ LinkEvidence(r)
        PROVE  ExternalInv'
      BY <2>4, ProofStepKeeps DEF SaveEvidence, RecordEvent, LinkEvidence, Working, Progress
  <2> QED BY <2>1, <2>2, <2>3, <2>4, ExternalQueriesKeep, SaveKeyKeeps, AuditCallKeeps,
            JobsKeep, ExternalCrashKeeps DEF ExternalNext, ExternalStep
<1> QED BY <1>1, <1>2, PTL DEF ExternalSpec

\* Whatever overlaps or fails, a stored key and a 2xx answer stand for complete
\* work of a request with that key, an ERP key has one job, and handled one at a
\* time only the work of a failed request is done again.
THEOREM KeysAreKept == ExternalSpec => []KeysStandForWork
<1>1. ExternalInv => KeysStandForWork
  <2> SUFFICES ASSUME ExternalInv PROVE KeysStandForWork
      OBVIOUS
  <2>1. ASSUME NEW q \in Requests, NEW r \in Requests, limit = 1, Repeated(q, r)
        PROVE  pc[q] = "failed"
      BY <2>1 DEF Repeated, ExternalInv, WorkIsRepeatedAfterFailure, Begun
  <2> QED BY <2>1 DEF KeysStandForWork, ExternalInv, KeysHaveResults, ResultsFit, JobsAreSingle
<1> QED BY <1>1, ExternalInvariantHolds, PTL

-----------------------------------------------------------------------------
(* AnchorProofs: whatever processes come and go, an auditor is told what   *)
(* is so.                                                                  *)

Own(e) == ToBlockchainHash(PayloadHash(e))

AnchorTypeOK ==
    /\ HandlingOK
    /\ remembered \in [Requests -> EventHash \union {None}]
    /\ world \in [Requests -> EventHash \union {None}]
    /\ ordered \subseteq Requests
    /\ proofRows = [e \in Requests |-> proofRows[e]]
    /\ shownProofs = [r \in Requests |-> shownProofs[r]]

\* An event is known by its own hash only, and a row tells what the ledger said.
EventFits(e) ==
    /\ remembered[e] \in {Own(e), None}
    /\ world[e] \in {Own(e), None}
    /\ Recorded(e) /\ OnLedger(proofRows[e]) => world[e] # None
    /\ proofRows[e] # None => proofRows[e].status \in {"pending", "anchored", "failed"}

AnchorJobFits(r) ==
    /\ pc[r] = "anchorEvent" => job[r].hash = Own(r)
    /\ pc[r] = "saveAnchor" =>
           /\ job[r].row.status \in {"anchored", "failed"}
           /\ job[r].row.status = "anchored" /\ job[r].row.chaincode => world[r] # None
    /\ pc[r] \in {"findProof", "verifyEvent"} => job[r].event \in Requests
    /\ pc[r] = "verifyEvent" => (job[r].known /\ Recorded(job[r].event) => world[job[r].event] # None)

Told(t) ==
    /\ t.event \in Requests
    /\ t.verdict = "verified" => t.hash = Own(t.event) /\ (~t.simulated => world[t.event] # None)
    /\ t.verdict = "mismatch" => t.hash # Own(t.event)
    /\ Recorded(t.event) =>
           /\ t.verdict = "notFound" => ~(t.known /\ t.by = "fabric")
           /\ t.verdict = "anchored" /\ ~t.simulated => world[t.event] # None

AnchorInv ==
    /\ AnchorTypeOK
    /\ \A e \in Requests : EventFits(e)
    /\ \A r \in Requests : AnchorJobFits(r)
    /\ \A r \in Requests : shownProofs[r] # None => Told(shownProofs[r])

-----------------------------------------------------------------------------

LEMMA OwnHash ==
    ASSUME NEW e \in Requests
    PROVE  Own(e) \in EventHash /\ Own(e) # None
<1>1. Own(e) = [ of |-> e, prefixed |-> TRUE ]
    BY DEF Own, ToBlockchainHash, PayloadHash
<1>2. [ of |-> e, prefixed |-> TRUE ] \in EventHash
    BY DEF EventHash
<1> QED BY <1>1, <1>2, AnchorAssumption

\* What the ledger has stays there.
WorldGrows == \A e \in Requests : world[e] # None => world'[e] # None

LEMMA ToldStays ==
    ASSUME WorldGrows, NEW t, Told(t)
    PROVE  Told(t)'
BY DEF WorldGrows, Told, Own, ToBlockchainHash, PayloadHash

LEMMA JobStaysTrue ==
    ASSUME WorldGrows, NEW q \in Requests, AnchorJobFits(q), pc'[q] = pc[q], job'[q] = job[q]
    PROVE  AnchorJobFits(q)'
BY DEF WorldGrows, AnchorJobFits, Own, ToBlockchainHash, PayloadHash

\* A step of the handler of r.
LEMMA AnchorGoesKeeps ==
    ASSUME AnchorInv, NEW r \in Requests, NEW step, NEW j, Goes(r, step, j), AnchorTypeOK',
           WorldGrows, \A e \in Requests : EventFits(e)', AnchorJobFits(r)',
           UNCHANGED shownProofs \/ \E t : Told(t)' /\ shownProofs' = [shownProofs EXCEPT ![r] = t]
    PROVE  AnchorInv'
<1>1. ASSUME NEW q \in Requests
      PROVE  AnchorJobFits(q)'
    BY <1>1, JobStaysTrue DEF AnchorInv, Goes, Moves
<1>2. ASSUME NEW q \in Requests, shownProofs'[q] # None
      PROVE  Told(shownProofs[q])'
  <2>1. CASE shownProofs'[q] = shownProofs[q]
      BY <1>2, <2>1, ToldStays DEF AnchorInv, Told, Own, ToBlockchainHash, PayloadHash
  <2>2. CASE shownProofs'[q] # shownProofs[q]
    <3>1. PICK t : Told(t)' /\ shownProofs' = [shownProofs EXCEPT ![r] = t]
        BY <2>2
    <3>2. shownProofs'[q] = t
        BY <2>2, <3>1 DEF AnchorInv, AnchorTypeOK
    <3> QED BY <3>1, <3>2 DEF Told, Own, ToBlockchainHash, PayloadHash
  <2> QED BY <2>1, <2>2
<1> QED BY <1>1, <1>2 DEF AnchorInv

\* Steps that leave the gateway and the tables alone.
LEMMA AnchorQuietStep ==
    ASSUME AnchorInv, NEW r \in Requests, NEW step, NEW j, Goes(r, step, j), HandlingOK',
           UNCHANGED <<remembered, world, ordered, proofRows, shownProofs>>, AnchorJobFits(r)'
    PROVE  AnchorInv'
<1>1. AnchorTypeOK' /\ WorldGrows /\ \A e \in Requests : EventFits(e)'
    BY DEF AnchorInv, AnchorTypeOK, WorldGrows, EventFits, Own, ToBlockchainHash, PayloadHash
<1> QED BY <1>1, AnchorGoesKeeps

LEMMA AnchorArriveKeeps ==
    ASSUME AnchorInv, NEW r \in Requests,
           \/ RecordLifecycleEvent(r)
           \/ \E role \in {"auditor", "buyer"}, e \in Earlier(r) :
                \/ GetAnchorProof(r, role, e)
                \/ \E h : VerifyProof(r, role, e, h)
           \/ QueryFails(r) /\ UNCHANGED anchorVars
    PROVE  AnchorInv'
<1> DEFINE failing == QueryFails(r) /\ UNCHANGED anchorVars
<1>1. UNCHANGED <<remembered, world, ordered, proofRows, shownProofs>> /\ HandlingOK
    BY DEF RecordLifecycleEvent, GetAnchorProof, VerifyProof, QueryFails, anchorVars, AnchorInv,
           AnchorTypeOK
<1>2. CASE RecordLifecycleEvent(r)
  <2> DEFINE j == [ event |-> r, hash |-> ToBlockchainHash(PayloadHash(r)) ]
  <2>1. Goes(r, "anchorEvent", j) /\ HandlingOK'
      BY <1>1, <1>2, AwaitGoes DEF RecordLifecycleEvent
  <2>2. AnchorJobFits(r)'
      BY <1>1, <2>1 DEF Goes, AnchorJobFits, Own, ToBlockchainHash, PayloadHash
  <2> QED BY <1>1, <2>1, <2>2, AnchorQuietStep
<1>3. ASSUME NextToArrive(r), Answer(r, "refused")
      PROVE  AnchorInv'
  <2>1. Goes(r, "refused", None) /\ HandlingOK'
      BY <1>1, <1>3, AnswerGoes
  <2>2. AnchorJobFits(r)'
      BY <1>1, <2>1 DEF Goes, AnchorJobFits
  <2> QED BY <1>1, <2>1, <2>2, AnchorQuietStep
<1>4. ASSUME NEW e \in Earlier(r), NextToArrive(r), Await(r, "findProof", [ event |-> e ])
      PROVE  AnchorInv'
  <2>1. Goes(r, "findProof", [ event |-> e ]) /\ HandlingOK' /\ e \in Requests
      BY <1>1, <1>4, AwaitGoes DEF Earlier
  <2>2. AnchorJobFits(r)'
      BY <1>1, <2>1 DEF Goes, AnchorJobFits
  <2> QED BY <1>1, <2>1, <2>2, AnchorQuietStep
<1>5. ASSUME NEW e \in Earlier(r), NEW h, NextToArrive(r),
             Await(r, "verifyEvent", [ event |-> e, hash |-> h, known |-> OnLedger(proofRows[e]) ])
      PROVE  AnchorInv'
  <2> DEFINE j == [ event |-> e, hash |-> h, known |-> OnLedger(proofRows[e]) ]
  <2>1. Goes(r, "verifyEvent", j) /\ HandlingOK' /\ e \in Requests
      BY <1>1, <1>5, AwaitGoes DEF Earlier
  <2>2. j.event = e /\ (j.known /\ Recorded(e) => world[e] # None)
      BY <2>1 DEF AnchorInv, EventFits
  <2> HIDE DEF j
  <2>3. AnchorJobFits(r)'
      BY <1>1, <2>1, <2>2 DEF Goes, AnchorJobFits
  <2> QED BY <1>1, <2>1, <2>3, AnchorQuietStep
<1>6. CASE failing
  <2>1. Goes(r, "failed", None) /\ HandlingOK'
      BY <1>1, <1>6, AnswerGoes DEF QueryFails
  <2>2. AnchorJobFits(r)'
      BY <1>1, <2>1 DEF Goes, AnchorJobFits
  <2> QED BY <1>1, <2>1, <2>2, AnchorQuietStep
<1> QED BY <1>2, <1>3, <1>4, <1>5, <1>6 DEF GetAnchorProof, VerifyProof

\* The gateway's answer, and what it has committed by then.
LEMMA AnchoringKeeps ==
    ASSUME AnchorInv, NEW r \in Requests, AnchorInMemory(r) \/ NotAnchored(r) \/ SubmitTransaction(r)
    PROVE  AnchorInv'
<1> DEFINE saved(s) == [ event |-> r, row |-> [ status |-> s,
                                                chaincode |-> RuntimeGateway(started).chaincode ] ]
<1>1. PICK s \in {"anchored", "failed"} :
          /\ Outcome(r, s) /\ pc[r] = "anchorEvent"
          /\ (s = "anchored" /\ RuntimeGateway(started).chaincode => world'[r] # None)
          /\ \A e \in Requests : world'[e] \in {world[e], Own(e)}
          /\ \A e \in Requests : remembered'[e] \in {remembered[e], Own(e)}
          /\ world' = [e \in Requests |-> world'[e]]
          /\ remembered' = [e \in Requests |-> remembered'[e]]
          /\ ordered' \subseteq Requests
          /\ UNCHANGED <<proofRows, shownProofs>>
  <2>1. CASE NotAnchored(r)
      BY <2>1 DEF NotAnchored, AnchorInv, AnchorTypeOK, anchorVars
  <2>2. CASE AnchorInMemory(r)
    <3>1. ~RuntimeGateway(started).chaincode
        BY <2>2 DEF AnchorInMemory, RuntimeGateway
    <3>2. job[r].hash = Own(r)
        BY <2>2 DEF AnchorInMemory, AnchorInv, AnchorJobFits
    <3> QED BY <2>2, <3>1, <3>2 DEF AnchorInMemory, AnchorInv, AnchorTypeOK
  <2>3. CASE SubmitTransaction(r)
    <3>1. job[r].hash = Own(r) /\ Own(r) # None
        BY <2>3, OwnHash DEF SubmitTransaction, AnchorInv, AnchorJobFits
    <3> QED BY <2>3, <3>1 DEF SubmitTransaction, Committed, AnchorInv, AnchorTypeOK
  <2> QED BY <2>1, <2>2, <2>3
<1>2. Goes(r, "saveAnchor", saved(s)) /\ HandlingOK'
    BY <1>1, AwaitGoes DEF Outcome, InFlight, AnchorInv, AnchorTypeOK
<1>3. AnchorTypeOK' /\ WorldGrows
    BY <1>1, <1>2, OwnHash DEF AnchorInv, AnchorTypeOK, WorldGrows
<1>4. ASSUME NEW e \in Requests
      PROVE  EventFits(e)'
    BY <1>1, <1>3, <1>4 DEF AnchorInv, EventFits, WorldGrows, Own, ToBlockchainHash, PayloadHash
<1>5. saved(s).row.status = s /\ saved(s).row.chaincode = RuntimeGateway(started).chaincode
    OBVIOUS
<1> HIDE DEF saved
<1>6. AnchorJobFits(r)'
    BY <1>1, <1>2, <1>5 DEF Goes, AnchorJobFits
<1> QED BY <1>1, <1>2, <1>3, <1>4, <1>6, AnchorGoesKeeps

LEMMA SaveAnchorKeeps ==
    ASSUME AnchorInv, NEW r \in Requests, SaveAnchor(r)
    PROVE  AnchorInv'
<1>1. /\ pc[r] = "saveAnchor" /\ proofRows' = [proofRows EXCEPT ![r] = job[r].row]
      /\ UNCHANGED <<remembered, world, ordered, shownProofs>> /\ HandlingOK /\ AnchorJobFits(r)
    BY DEF SaveAnchor, AnchorInv, AnchorTypeOK
<1>2. Goes(r, "done", None) /\ HandlingOK'
    BY <1>1, AnswerGoes DEF SaveAnchor, InFlight
<1>3. AnchorTypeOK' /\ WorldGrows /\ AnchorJobFits(r)'
    BY <1>1, <1>2 DEF AnchorInv, AnchorTypeOK, WorldGrows, Goes, AnchorJobFits
<1>4. ASSUME NEW e \in Requests
      PROVE  EventFits(e)'
  <2>1. proofRows'[e] = IF e = r THEN job[r].row ELSE proofRows[e]
      BY <1>1 DEF AnchorInv, AnchorTypeOK
  <2> QED BY <1>1, <2>1 DEF AnchorInv, EventFits, AnchorJobFits, OnLedger, Own, ToBlockchainHash,
                            PayloadHash
<1> QED BY <1>1, <1>2, <1>3, <1>4, AnchorGoesKeeps

\* The step ends with this answer.
LEMMA ShowKeeps ==
    ASSUME AnchorInv, NEW r \in Requests, InFlight(r), Answer(r, "done"), NEW t, Told(t),
           shownProofs' = [shownProofs EXCEPT ![r] = t],
           UNCHANGED <<remembered, world, ordered, proofRows>>
    PROVE  AnchorInv'
<1>1. Goes(r, "done", None) /\ HandlingOK'
    BY AnswerGoes DEF AnchorInv, AnchorTypeOK
<1>2. AnchorTypeOK' /\ WorldGrows /\ AnchorJobFits(r)' /\ \A e \in Requests : EventFits(e)'
    BY <1>1 DEF AnchorInv, AnchorTypeOK, WorldGrows, Goes, AnchorJobFits, EventFits, Own,
                ToBlockchainHash, PayloadHash
<1>3. Told(t)'
    BY <1>2, ToldStays
<1> QED BY <1>1, <1>2, <1>3, AnchorGoesKeeps

LEMMA FindProofKeeps ==
    ASSUME AnchorInv, NEW r \in Requests, FindProof(r)
    PROVE  AnchorInv'
<1> DEFINE row == proofRows[job[r].event]
           t == [ event |-> job[r].event, hash |-> None, by |-> "metadata", known |-> FALSE,
                  verdict |-> IF row = None THEN "notAnchored" ELSE row.status,
                  simulated |-> row # None /\ ~row.chaincode ]
<1>1. job[r].event \in Requests /\ InFlight(r) /\ Answer(r, "done")
      /\ shownProofs' = [shownProofs EXCEPT ![r] = t]
      /\ UNCHANGED <<remembered, world, ordered, proofRows>>
    BY DEF FindProof, AnchorInv, AnchorJobFits, InFlight
<1>2. Told(t)
    BY <1>1 DEF Told, AnchorInv, EventFits, OnLedger
<1> QED BY <1>1, <1>2, ShowKeeps

LEMMA EvaluateVerifyKeeps ==
    ASSUME AnchorInv, NEW r \in Requests, EvaluateVerify(r)
    PROVE  AnchorInv'
<1>1. PICK verdict \in Verdicts(job[r].event, job[r].hash) :
          shownProofs' = [shownProofs EXCEPT ![r] =
               [ event |-> job[r].event, hash |-> job[r].hash, by |-> RuntimeGateway(started).kind,
                 known |-> job[r].known, verdict |-> verdict,
                 simulated |-> AnchorReadiness(started).simulated ]]
    BY DEF EvaluateVerify
<1> DEFINE t == [ event |-> job[r].event, hash |-> job[r].hash,
                  by |-> RuntimeGateway(started).kind, known |-> job[r].known,
                  verdict |-> verdict, simulated |-> AnchorReadiness(started).simulated ]
           e == job[r].event
<1>2. e \in Requests /\ InFlight(r) /\ Answer(r, "done")
      /\ (job[r].known /\ Recorded(e) => world[e] # None)
      /\ UNCHANGED <<remembered, world, ordered, proofRows>> /\ EventFits(e)
    BY DEF EvaluateVerify, AnchorInv, AnchorJobFits, InFlight
<1>3. Own(e) # None
    BY <1>2, OwnHash
<1>4. Told(t)
  <2>1. CASE RuntimeGateway(started).kind = "in-memory"
    <3>1. AnchorReadiness(started).simulated
        BY <2>1 DEF RuntimeGateway, AnchorReadiness
    <3>2. verdict = Verdict(remembered[e], job[r].hash)
        BY <1>1, <2>1 DEF Verdicts
    <3> QED BY <1>2, <1>3, <2>1, <3>1, <3>2 DEF Told, Verdict, EventFits
  <2>2. CASE RuntimeGateway(started).kind = "fabric"
    <3>1. verdict = "unavailable" \/ verdict = Verdict(world[e], job[r].hash)
        BY <1>1, <2>2 DEF Verdicts, FabricVerdicts
    <3> QED BY <1>2, <1>3, <2>2, <3>1 DEF Told, Verdict, EventFits
  <2>3. CASE RuntimeGateway(started).kind \notin {"in-memory", "fabric"}
    <3>1. verdict = "unavailable"
        BY <1>1, <2>3 DEF Verdicts
    <3> QED BY <1>2, <3>1 DEF Told
  <2> QED BY <2>1, <2>2, <2>3
<1> QED BY <1>1, <1>2, <1>4, ShowKeeps

LEMMA CommitsLateKeeps ==
    ASSUME AnchorInv, NEW e \in Requests, CommitsLate(e), UNCHANGED handling
    PROVE  AnchorInv'
<1>1. /\ UNCHANGED <<pc, job, remembered, proofRows, shownProofs>> /\ ordered' = ordered \ {e}
      /\ world' = Committed(e, Own(e))
    BY DEF CommitsLate, handling, Own
<1>2. AnchorTypeOK' /\ WorldGrows
    BY <1>1, OwnHash DEF AnchorInv, AnchorTypeOK, HandlingOK, WorldGrows, Committed
<1>3. ASSUME NEW f \in Requests
      PROVE  EventFits(f)'
  <2>1. world'[f] = world[f] \/ world'[f] = Own(f)
      BY <1>1 DEF Committed, AnchorInv, AnchorTypeOK
  <2> QED BY <1>1, <1>2, <2>1 DEF AnchorInv, EventFits, WorldGrows, Own, ToBlockchainHash,
                                  PayloadHash
<1>4. ASSUME NEW r \in Requests
      PROVE  AnchorJobFits(r)' /\ (shownProofs'[r] # None => Told(shownProofs[r])')
  <2>1. AnchorJobFits(r)'
      BY <1>1, <1>2, JobStaysTrue DEF AnchorInv
  <2>2. ASSUME NEW t, t = shownProofs[r], t # None PROVE Told(t)'
      BY <1>2, <2>2, ToldStays DEF AnchorInv
  <2> QED BY <1>1, <2>1, <2>2 DEF Told, Own, ToBlockchainHash, PayloadHash
<1> QED BY <1>2, <1>3, <1>4 DEF AnchorInv

\* Another process, with no handler left of the one before.
LEMMA NewProcessKeeps ==
    ASSUME AnchorInv, NewProcess, HandlingOK',
           \A r \in Requests : pc'[r] \notin {"anchorEvent", "saveAnchor", "findProof", "verifyEvent"}
    PROVE  AnchorInv'
<1>1. /\ UNCHANGED <<world, ordered, proofRows, shownProofs>>
      /\ remembered' = [e \in Requests |-> None]
    BY DEF NewProcess
<1>2. AnchorTypeOK' /\ \A r \in Requests : EventFits(r)' /\ AnchorJobFits(r)'
    BY <1>1 DEF AnchorInv, AnchorTypeOK, EventFits, AnchorJobFits, Own, ToBlockchainHash,
                PayloadHash
<1>3. \A r \in Requests : shownProofs'[r] # None => Told(shownProofs[r])'
    BY <1>1 DEF AnchorInv, Told, Own, ToBlockchainHash, PayloadHash
<1> QED BY <1>2, <1>3 DEF AnchorInv

-----------------------------------------------------------------------------
\* The ledger, the rows about it and the answers agree, through every restart.
THEOREM AnchorInvariantHolds == AnchorSpec => []AnchorInv
<1>1. HandlingInit /\ AnchorInit => AnchorInv
  <2> SUFFICES ASSUME HandlingInit, AnchorInit PROVE AnchorInv
      OBVIOUS
  <2>1. HandlingOK /\ \A r \in Requests : pc[r] \in {"idle", "done"}
      BY InitialTurns
  <2> QED BY <2>1 DEF AnchorInit, AnchorInv, AnchorTypeOK, EventFits, AnchorJobFits, OnLedger,
                     SeededRow
<1>2. AnchorInv /\ [AnchorNext]_anchorState => AnchorInv'
  <2> SUFFICES ASSUME AnchorInv, [AnchorNext]_anchorState PROVE AnchorInv'
      OBVIOUS
  <2>1. CASE UNCHANGED anchorState
      BY <2>1 DEF anchorState, handling, anchorVars, AnchorInv, AnchorTypeOK, HandlingOK,
                  EventFits, AnchorJobFits, Told, Own, ToBlockchainHash, PayloadHash
  <2>2. CASE Crash /\ NewProcess
      BY <2>2, CrashStops, NewProcessKeeps DEF Stopped, InFlight
  <2>3. CASE UNCHANGED handling /\ ~(\E r \in Requests : InFlight(r)) /\ NewProcess
      BY <2>3, NewProcessKeeps DEF handling, AnchorInv, AnchorTypeOK, HandlingOK, InFlight
  <2>4. ASSUME NEW r \in Requests, AnchorStep(r)
        PROVE  AnchorInv'
      BY <2>4, AnchorArriveKeeps, AnchoringKeeps, SaveAnchorKeeps, FindProofKeeps,
         EvaluateVerifyKeeps DEF AnchorStep
  <2> QED BY <2>1, <2>2, <2>3, <2>4, AnchorArriveKeeps, CommitsLateKeeps DEF AnchorNext
<1> QED BY <1>1, <1>2, PTL DEF AnchorSpec

\* Whatever gateway a process has, however late the ledger commits: no verdict and
\* no proof an auditor is shown says more or less than the ledger holds.
THEOREM VerdictsAreTrue == AnchorSpec => []ProofsAreTold
<1>1. AnchorInv => ProofsAreTold
  <2> SUFFICES ASSUME AnchorInv PROVE ProofsAreTold
      OBVIOUS
  <2>1. ASSUME NEW r \in Requests, shownProofs[r] # None
        PROVE  LET t == shownProofs[r]
                   own == ToBlockchainHash(PayloadHash(t.event))
               IN  /\ t.verdict = "verified" =>
                          /\ t.hash = own
                          /\ ~t.simulated => world[t.event] = own
                   /\ t.verdict = "mismatch" => t.hash # own
                   /\ Recorded(t.event) =>
                          /\ t.verdict = "notFound" => ~(t.known /\ t.by = "fabric")
                          /\ t.verdict = "anchored" /\ ~t.simulated => world[t.event] = own
    <3>1. Told(shownProofs[r]) /\ EventFits(shownProofs[r].event)
        BY <2>1 DEF AnchorInv, Told
    <3> QED BY <3>1 DEF Told, EventFits, Own
  <2> QED BY <2>1 DEF ProofsAreTold, AnchorInv, EventFits
<1> QED BY <1>1, AnchorInvariantHolds, PTL

-----------------------------------------------------------------------------
(* ContractRecord: an agreement follows from its negotiation.              *)

\* What a handler is about to save: a row that tells its negotiation and, when it
\* is the only one that writes, the whole of it.
SavesNegotiation(r) ==
    LET c == job[r].id
    IN  /\ c \in Requests /\ pc[c] # "idle"
        /\ job[r].row \in ContractRow /\ RowTellsNegotiation(job[r].row)
        /\ limit = 1 /\ agreement[c] # None =>
               IsPrefix(agreement[c].history, job[r].row.history)

ContractInv ==
    /\ HandlingOK
    /\ InTurn
    /\ agreement \in [Requests -> ContractRow \union {None}]
    /\ \A r \in Requests :
           /\ pc[r] \in Answered \union {"idle", "saveContractRow"}
           /\ pc[r] = "idle" => agreement[r] = None
           /\ agreement[r] # None => RowTellsNegotiation(agreement[r])
           /\ pc[r] = "saveContractRow" => SavesNegotiation(r)

-----------------------------------------------------------------------------
(* What offers and acceptances make of a row.                              *)

LEMMA PrefixOfAppend ==
    ASSUME NEW S, NEW h \in Seq(S), NEW e
    PROVE  IsPrefix(h, h) /\ IsPrefix(h, Append(h, e))
BY DEF IsPrefix

LEMMA NewContractTells ==
    ASSUME NEW r \in Requests, NEW number \in Numbers, NEW terms \in TermSets
    PROVE  /\ NewContract(r, number, terms) \in ContractRow
           /\ RowTellsNegotiation(NewContract(r, number, terms))
<1> DEFINE row == NewContract(r, number, terms)
           e == [ type |-> "created", terms |-> terms, by |-> r ]
<1>1. row \in ContractRow
  <2>1. e \in ContractEvent
      BY DEF ContractEvent
  <2> HIDE DEF e
  <2>2. << e >> \in Seq(ContractEvent) /\ << >> \in Seq(Requests)
      BY <2>1
  <2>3. row = [ number |-> number, status |-> "draft", version |-> 1, terms |-> terms,
                offers |-> <<>>, signedAt |-> None, acceptances |-> [p \in Signatories |-> None],
                history |-> << e >> ]
      BY DEF NewContract, e
  <2> QED BY <2>2, <2>3 DEF ContractRow
<1>2. /\ row.history = << e >> /\ row.terms = terms /\ row.version = 1 /\ row.offers = << >>
      /\ row.status = "draft" /\ row.acceptances = [p \in Signatories |-> None]
    BY DEF NewContract
<1>3. Round(row) = {}
    BY <1>2 DEF Round
<1>4. AcceptedBy(row) = {}
    BY <1>2 DEF AcceptedBy
<1>5. Cardinality({}) = 0
    BY FS_EmptySet
<1> HIDE DEF row, e
<1>6. row.history[1].terms = terms /\ Len(row.history) = 1
    BY <1>2 DEF e
<1>7. AcceptedBy(row) # Signatories
    BY <1>4 DEF Signatories
<1> QED BY <1>1, <1>2, <1>3, <1>4, <1>5, <1>6, <1>7 DEF RowTellsNegotiation, row

LEMMA OfferedTells ==
    ASSUME NEW row \in ContractRow, RowTellsNegotiation(row), NEW r \in Requests,
           NEW terms \in TermSets
    PROVE  /\ Offered(row, r, terms) \in ContractRow
           /\ RowTellsNegotiation(Offered(row, r, terms))
           /\ IsPrefix(row.history, Offered(row, r, terms).history)
<1> DEFINE next == Offered(row, r, terms)
           e == [ type |-> "offerSubmitted", terms |-> terms, by |-> r ]
<1>1. next \in ContractRow
    BY DEF Offered, ContractRow, ContractEvent
<1>2. /\ next.history = Append(row.history, e) /\ next.terms = terms
      /\ next.version = row.version + 1 /\ next.offers = Append(row.offers, r)
      /\ next.status = "negotiating" /\ next.acceptances = [p \in Signatories |-> None]
    BY DEF Offered
<1>3. /\ row.history \in Seq(ContractEvent) /\ row.offers \in Seq(Requests)
      /\ row.version = Len(row.offers) + 1
    BY DEF ContractRow, RowTellsNegotiation
<1>4. e.type = "offerSubmitted" /\ e.terms = terms
    OBVIOUS
<1> HIDE DEF next, e
<1>5. /\ Len(next.history) = Len(row.history) + 1 /\ Len(row.history) \in Nat
      /\ next.history[Len(row.history) + 1] = e
      /\ Len(next.offers) = Len(row.offers) + 1
    BY <1>2, <1>3
<1>6. Round(next) = {}
    BY <1>4, <1>5 DEF Round
<1>7. AcceptedBy(next) = {} /\ Signatories # {}
    BY <1>2 DEF AcceptedBy, Signatories
<1>8. Cardinality({}) = 0
    BY FS_EmptySet
<1>9. next.version = Len(next.offers) + 1
    BY <1>2, <1>3, <1>5
<1>10. RowTellsNegotiation(next)
    BY <1>2, <1>4, <1>5, <1>6, <1>7, <1>8, <1>9 DEF RowTellsNegotiation
<1>11. IsPrefix(row.history, next.history)
    BY <1>2, <1>3, PrefixOfAppend
<1> QED BY <1>1, <1>10, <1>11 DEF next

LEMMA AcceptedType ==
    ASSUME NEW row \in ContractRow, NEW r \in Requests, NEW party \in Signatories
    PROVE  Accepted(row, r, party) \in ContractRow
<1> DEFINE a == [row.acceptances EXCEPT ![party] = [ terms |-> row.terms, version |-> row.version ]]
           e == [ type |-> "contractAccepted", terms |-> row.terms, by |-> r ]
<1>1. e \in ContractEvent /\ a \in [Signatories -> Acceptance \union {None}]
    BY DEF ContractRow, ContractEvent, Acceptance
<1> HIDE DEF a, e
<1>2. Append(row.history, e) \in Seq(ContractEvent)
    BY <1>1 DEF ContractRow
<1>3. Accepted(row, r, party) =
          [ number |-> row.number,
            status |-> IF FullyAccepted(a, row.terms) THEN "accepted" ELSE row.status,
            version |-> row.version, terms |-> row.terms, offers |-> row.offers,
            signedAt |-> IF FullyAccepted(a, row.terms) THEN r ELSE row.signedAt,
            acceptances |-> a, history |-> Append(row.history, e) ]
    BY DEF Accepted, a, e
<1> QED BY <1>1, <1>2, <1>3 DEF ContractRow

\* An acceptance joins the round of its offer.
LEMMA RoundGrows ==
    ASSUME NEW row \in ContractRow, NEW next \in ContractRow, NEW e,
           e.type = "contractAccepted", next.history = Append(row.history, e)
    PROVE  /\ Round(next) = Round(row) \union {Len(row.history) + 1}
           /\ IsFiniteSet(Round(row))
           /\ Cardinality(Round(next)) = Cardinality(Round(row)) + 1
           /\ Cardinality(Round(row)) \in Nat
<1> DEFINE n == Len(row.history)
<1>1. row.history \in Seq(ContractEvent) /\ n \in Nat
    BY DEF ContractRow
<1>2. /\ Len(next.history) = n + 1 /\ next.history[n + 1] = e
      /\ \A j \in 1..n : next.history[j] = row.history[j]
    BY <1>1
<1> HIDE DEF n
<1>3. n + 1 \in Round(next)
    BY <1>1, <1>2 DEF Round
<1>4. \A i \in 1..n : i \in Round(next) <=> i \in Round(row)
  <2> TAKE i \in 1..n
  <2>1. ASSUME i \in Round(next) PROVE i \in Round(row)
      BY <1>1, <1>2, <2>1 DEF Round, n
  <2>2. ASSUME i \in Round(row) PROVE i \in Round(next)
    <3>1. \A j \in i..n : row.history[j].type = "contractAccepted"
        BY <2>2 DEF Round, n
    <3>2. ASSUME NEW j \in i..(n + 1) PROVE next.history[j].type = "contractAccepted"
        BY <1>1, <1>2, <3>1
    <3> QED BY <1>1, <1>2, <3>2 DEF Round
  <2> QED BY <2>1, <2>2
<1>5. Round(row) \subseteq 1..n /\ Round(next) \subseteq 1..(n + 1)
    BY <1>2 DEF Round, n
<1>6. Round(next) = Round(row) \union {n + 1}
  <2>1. ASSUME NEW i PROVE i \in Round(next) <=> i \in Round(row) \union {n + 1}
    <3>1. i \in 1..(n + 1) => i \in 1..n \/ i = n + 1
        BY <1>1
    <3> QED BY <1>3, <1>4, <1>5, <3>1
  <2> QED BY <2>1
<1>7. IsFiniteSet(Round(row))
  <2>1. IsFiniteSet(1..n)
      BY <1>1, FS_Interval
  <2> QED BY <1>5, <2>1, FS_Subset
<1>8. n + 1 \notin Round(row)
    BY <1>1, <1>5
<1> QED BY <1>6, <1>7, <1>8, FS_AddElement, FS_CardinalityType DEF n

LEMMA AcceptedTells ==
    ASSUME NEW row \in ContractRow, RowTellsNegotiation(row), NEW r \in Requests,
           NEW party \in Signatories, ~HasAccepted(row.acceptances, row.terms, party)
    PROVE  /\ Accepted(row, r, party) \in ContractRow
           /\ RowTellsNegotiation(Accepted(row, r, party))
           /\ IsPrefix(row.history, Accepted(row, r, party).history)
<1> DEFINE next == Accepted(row, r, party)
           e == [ type |-> "contractAccepted", terms |-> row.terms, by |-> r ]
           mine == [ terms |-> row.terms, version |-> row.version ]
           n == Len(row.history)
           m == Cardinality(Round(row))
<1>1. next \in ContractRow
    BY AcceptedType
<1>2. /\ next.history = Append(row.history, e) /\ next.terms = row.terms
      /\ next.version = row.version /\ next.offers = row.offers
      /\ next.acceptances = [row.acceptances EXCEPT ![party] = mine]
      /\ next.status = IF FullyAccepted(next.acceptances, row.terms) THEN "accepted" ELSE row.status
    BY DEF Accepted
<1>3. e.type = "contractAccepted" /\ e.terms = row.terms /\ mine.terms = row.terms
    OBVIOUS
<1>4. mine \in Acceptance /\ mine # None
    BY ContractAssumption DEF ContractRow, Acceptance
<1>5. /\ row.history \in Seq(ContractEvent) /\ n \in Nat
      /\ row.acceptances \in [Signatories -> Acceptance \union {None}]
    BY DEF ContractRow
<1> HIDE DEF next, e, mine, n, m
<1>6. /\ Round(next) = Round(row) \union {n + 1} /\ m \in Nat
      /\ Cardinality(Round(next)) = m + 1
    BY <1>1, <1>2, <1>3, RoundGrows DEF m, n
<1>7. /\ Len(next.history) = n + 1 /\ next.history[n + 1] = e
      /\ \A j \in 1..n : next.history[j] = row.history[j]
    BY <1>2, <1>5 DEF n
<1>8. /\ n > m /\ row.history[n - m].terms = row.terms
      /\ \A i \in Round(row) : row.history[i].terms = row.terms
      /\ m = Cardinality(AcceptedBy(row))
      /\ \A p \in AcceptedBy(row) : row.acceptances[p] = mine
      /\ (row.status = "accepted") = (AcceptedBy(row) = Signatories)
    BY DEF RowTellsNegotiation, m, n, mine
<1>9. party \notin AcceptedBy(row)
    BY <1>3, <1>8 DEF HasAccepted, AcceptedBy
<1>10. /\ next.acceptances[party] = mine
       /\ \A p \in Signatories \ {party} : next.acceptances[p] = row.acceptances[p]
    BY <1>2, <1>5
<1>11. AcceptedBy(next) = AcceptedBy(row) \union {party}
    BY <1>4, <1>10 DEF AcceptedBy
<1>12. Cardinality(AcceptedBy(next)) = m + 1
  <2>1. IsFiniteSet(Signatories)
    <3>1. IsFiniteSet({"buyer"}) /\ {"buyer"} \union {"supplier"} = Signatories
        BY FS_Singleton DEF Signatories
    <3>2. IsFiniteSet({"buyer"} \union {"supplier"})
        BY <3>1, FS_AddElement
    <3> QED BY <3>1, <3>2
  <2>2. IsFiniteSet(AcceptedBy(row))
      BY <2>1, FS_Subset DEF AcceptedBy
  <2> QED BY <1>8, <1>9, <1>11, <2>2, FS_AddElement
<1>13. \A p \in AcceptedBy(next) : next.acceptances[p] = mine
    BY <1>8, <1>10, <1>11 DEF AcceptedBy
<1>14. next.history[(n + 1) - (m + 1)].terms = row.terms
  <2>1. (n + 1) - (m + 1) = n - m /\ n - m \in 1..n
      BY <1>5, <1>6, <1>8
  <2> QED BY <1>7, <1>8, <2>1
<1>15. \A i \in Round(next) : next.history[i].terms = row.terms
    BY <1>3, <1>6, <1>7, <1>8 DEF Round, n
<1>16. (next.status = "accepted") = (AcceptedBy(next) = Signatories)
  <2>1. FullyAccepted(next.acceptances, row.terms) <=> AcceptedBy(next) = Signatories
    <3>1. \A p \in Signatories :
              HasAccepted(next.acceptances, row.terms, p) <=> p \in AcceptedBy(next)
        BY <1>3, <1>13 DEF HasAccepted, AcceptedBy
    <3> QED BY <3>1 DEF FullyAccepted, AcceptedBy
  <2>2. row.status # "accepted"
      BY <1>8, <1>9
  <2> QED BY <1>2, <2>1, <2>2
<1>17. next.version = Len(next.offers) + 1
    BY <1>2 DEF RowTellsNegotiation
<1>18. mine = [ terms |-> next.terms, version |-> next.version ]
    BY <1>2 DEF mine
<1>19. Len(next.history) > Cardinality(Round(next))
    BY <1>5, <1>6, <1>7, <1>8
<1>20. RowTellsNegotiation(next)
    BY <1>2, <1>6, <1>7, <1>12, <1>13, <1>14, <1>15, <1>16, <1>17, <1>18, <1>19
       DEF RowTellsNegotiation
<1>21. IsPrefix(row.history, next.history)
    BY <1>2, <1>5, PrefixOfAppend
<1> QED BY <1>1, <1>20, <1>21 DEF next

-----------------------------------------------------------------------------
(* The actions.                                                            *)

\* A handler that goes on to save a row, and has written nothing.
LEMMA NegotiatorKeeps ==
    ASSUME ContractInv, NEW r \in Requests, NextToArrive(r), UNCHANGED agreement,
           NEW c \in Requests, c = r \/ agreement[c] # None,
           NEW row \in ContractRow, RowTellsNegotiation(row),
           agreement[c] # None => IsPrefix(agreement[c].history, row.history),
           Await(r, "saveContractRow", [ id |-> c, row |-> row ])
    PROVE  ContractInv'
<1> DEFINE j == [ id |-> c, row |-> row ]
<1>1. Goes(r, "saveContractRow", j) /\ HandlingOK'
    BY AwaitGoes DEF ContractInv
<1>2. j.id = c /\ j.row = row
    OBVIOUS
<1> HIDE DEF j
<1>3. InTurn'
    BY <1>1, TurnsKept DEF ContractInv, Goes
<1>4. pc[r] = "idle" /\ agreement[r] = None
    BY DEF NextToArrive, ContractInv
<1>5. \A q \in Requests : pc[q] # "idle" => pc'[q] # "idle"
    BY <1>1 DEF Goes, Moves
<1>6. pc'[c] # "idle"
    BY <1>1, <1>5 DEF ContractInv, Goes
<1>7. ASSUME NEW q \in Requests
      PROVE  /\ pc'[q] \in Answered \union {"idle", "saveContractRow"}
             /\ pc'[q] = "idle" => agreement[q] = None
             /\ pc'[q] = "saveContractRow" => SavesNegotiation(q)'
  <2>1. CASE q = r
    <3>1. pc'[q] = "saveContractRow" /\ job'[q] = j
        BY <1>1, <2>1 DEF Goes
    <3> QED BY <1>2, <1>6, <3>1 DEF SavesNegotiation
  <2>2. CASE q # r
    <3>1. pc'[q] = pc[q] /\ job'[q] = job[q] /\ limit' = limit
        BY <1>1, <2>2 DEF Goes, Moves
    <3>2. pc[q] = "saveContractRow" => SavesNegotiation(q)
        BY DEF ContractInv
    <3>3. pc[q] = "saveContractRow" => SavesNegotiation(q)'
        BY <1>5, <3>1, <3>2 DEF SavesNegotiation
    <3> QED BY <3>1, <3>3 DEF ContractInv
  <2> QED BY <2>1, <2>2
<1> QED BY <1>1, <1>3, <1>7 DEF ContractInv

LEMMA ContractRequestsKeep ==
    ASSUME ContractInv, NEW r \in Requests,
           \/ \E number \in Numbers, terms \in TermSets : CreateContract(r, number, terms)
           \/ \E c \in Requests, actor \in Negotiators, terms \in TermSets :
                  SubmitOffer(r, c, actor, terms)
           \/ \E c \in Requests, actor \in Negotiators, party \in Signatories :
                  AcceptTerms(r, c, actor, party)
    PROVE  ContractInv'
<1>1. ASSUME NEW number \in Numbers, NEW terms \in TermSets, CreateContract(r, number, terms)
      PROVE  ContractInv'
  <2>1. agreement[r] = None
      BY <1>1 DEF CreateContract, NextToArrive, ContractInv
  <2>2. /\ NewContract(r, number, terms) \in ContractRow
        /\ RowTellsNegotiation(NewContract(r, number, terms))
      BY NewContractTells
  <2> QED BY <1>1, <2>1, <2>2, NegotiatorKeeps DEF CreateContract
<1>2. ASSUME NEW c \in Requests, NEW terms \in TermSets, NextToArrive(r), agreement[c] # None,
             Await(r, "saveContractRow", [ id |-> c, row |-> Offered(agreement[c], r, terms) ]),
             UNCHANGED agreement
      PROVE  ContractInv'
  <2>1. agreement[c] \in ContractRow /\ RowTellsNegotiation(agreement[c])
      BY <1>2 DEF ContractInv
  <2>2. /\ Offered(agreement[c], r, terms) \in ContractRow
        /\ RowTellsNegotiation(Offered(agreement[c], r, terms))
        /\ IsPrefix(agreement[c].history, Offered(agreement[c], r, terms).history)
      BY <2>1, OfferedTells
  <2> QED BY <1>2, <2>2, NegotiatorKeeps
<1>3. ASSUME NEW c \in Requests, NEW party \in Signatories, NextToArrive(r), agreement[c] # None,
             ~HasAccepted(agreement[c].acceptances, agreement[c].terms, party),
             Await(r, "saveContractRow", [ id |-> c, row |-> Accepted(agreement[c], r, party) ]),
             UNCHANGED agreement
      PROVE  ContractInv'
  <2>1. agreement[c] \in ContractRow /\ RowTellsNegotiation(agreement[c])
      BY <1>3 DEF ContractInv
  <2>2. /\ Accepted(agreement[c], r, party) \in ContractRow
        /\ RowTellsNegotiation(Accepted(agreement[c], r, party))
        /\ IsPrefix(agreement[c].history, Accepted(agreement[c], r, party).history)
      BY <1>3, <2>1, AcceptedTells
  <2> QED BY <1>3, <2>2, NegotiatorKeeps
<1> QED BY <1>1, <1>2, <1>3 DEF SubmitOffer, AcceptTerms

\* The others that save are not alone, so they promise nothing of prefixes.
LEMMA SaverIsAlone ==
    ASSUME ContractInv, limit = 1, NEW r \in Requests, pc[r] = "saveContractRow",
           NEW q \in Requests \ {r}
    PROVE  pc[q] # "saveContractRow"
<1>1. q < r \/ r < q
    BY HandlingAssumption DEF Requests
<1> QED BY <1>1 DEF ContractInv, InTurn, Answered

LEMMA SaverKeeps ==
    ASSUME ContractInv, NEW r \in Requests, pc[r] = "saveContractRow",
           NEW how \in {"done", "failed"}, Answer(r, how),
           \/ agreement' = [agreement EXCEPT ![job[r].id] = job[r].row]
           \/ UNCHANGED agreement
    PROVE  ContractInv'
<1>1. Goes(r, how, None) /\ HandlingOK'
    BY AnswerGoes DEF ContractInv, InFlight
<1>2. InTurn'
    BY <1>1, TurnsKept DEF ContractInv, Goes
<1>3. SavesNegotiation(r)
    BY DEF ContractInv
<1>4. \A c \in Requests : \/ agreement'[c] = agreement[c]
                          \/ c = job[r].id /\ agreement'[c] = job[r].row
    BY <1>3 DEF ContractInv, SavesNegotiation
<1>5. agreement' \in [Requests -> ContractRow \union {None}]
    BY <1>3 DEF ContractInv, SavesNegotiation
<1>6. \A q \in Requests : /\ pc'[q] \in Answered \union {"idle", "saveContractRow"}
                          /\ pc'[q] = "idle" <=> pc[q] = "idle"
    BY <1>1 DEF Goes, Moves, ContractInv, Answered
<1>7. ASSUME NEW q \in Requests
      PROVE  /\ pc'[q] = "idle" => agreement'[q] = None
             /\ agreement'[q] # None => RowTellsNegotiation(agreement'[q])
             /\ pc'[q] = "saveContractRow" => SavesNegotiation(q)'
  <2>1. /\ pc'[q] = "idle" => agreement'[q] = None
        /\ agreement'[q] # None => RowTellsNegotiation(agreement'[q])
      BY <1>3, <1>4, <1>6 DEF ContractInv, SavesNegotiation
  <2>2. ASSUME pc'[q] = "saveContractRow" PROVE SavesNegotiation(q)'
    <3>1. q # r
        BY <1>1, <2>2 DEF Goes
    <3>2. pc[q] = "saveContractRow" /\ job'[q] = job[q] /\ limit' = limit
        BY <1>1, <2>2, <3>1 DEF Goes, Moves
    <3>3. limit # 1 /\ SavesNegotiation(q)
        BY <3>1, <3>2, SaverIsAlone DEF ContractInv
    <3> QED BY <1>6, <3>2, <3>3 DEF SavesNegotiation
  <2> QED BY <2>1, <2>2
<1> QED BY <1>1, <1>2, <1>5, <1>6, <1>7 DEF ContractInv

LEMMA ContractCrashKeeps ==
    ASSUME ContractInv, Crash, UNCHANGED agreement
    PROVE  ContractInv'
<1>1. Stopped /\ HandlingOK' /\ InTurn'
    BY CrashStops, TurnsKeptByCrash DEF ContractInv
<1>2. \A r \in Requests : pc'[r] \in Answered \union {"idle"} /\ (pc'[r] = "idle" => pc[r] = "idle")
    BY <1>1 DEF Stopped, InFlight, ContractInv, Answered
<1> QED BY <1>1, <1>2 DEF ContractInv, Answered

-----------------------------------------------------------------------------
\* The row of each contract, and every row a handler is about to save, tells the
\* negotiation that led to it.
THEOREM ContractInvariantHolds == ContractSpec => []ContractInv
<1>1. HandlingInit /\ ContractInit => ContractInv
  <2> SUFFICES ASSUME HandlingInit, ContractInit PROVE ContractInv
      OBVIOUS
  <2>1. HandlingOK /\ InTurn /\ \A r \in Requests : pc[r] \in {"idle", "done"}
      BY InitialTurns
  <2>2. ASSUME NEW r \in Requests
        PROVE  /\ agreement[r] \in ContractRow \union {None}
               /\ agreement[r] # None => r <= Seeded /\ RowTellsNegotiation(agreement[r])
    <3>1. CASE r <= Seeded /\ SeededContracts[r] # None
      <4>1. r \in Numbers /\ SeededContracts[r] \in TermSets
          BY <3>1, ContractAssumption, HandlingAssumption DEF Requests
      <4>2. agreement[r] = NewContract(r, r, SeededContracts[r])
          BY <3>1, HandlingAssumption DEF ContractInit, Requests
      <4> QED BY <3>1, <4>1, <4>2, NewContractTells
    <3>2. CASE ~(r <= Seeded /\ SeededContracts[r] # None)
      <4>1. agreement[r] = None
          BY <3>2, HandlingAssumption DEF ContractInit, Requests
      <4> QED BY <4>1
    <3> QED BY <3>1, <3>2
  <2>3. \A r \in Requests : pc[r] = "idle" => ~(r <= Seeded)
      BY HandlingAssumption DEF HandlingInit, Requests
  <2>4. agreement = [r \in Requests |-> agreement[r]]
      BY DEF ContractInit
  <2>5. agreement \in [Requests -> ContractRow \union {None}]
      BY <2>2, <2>4
  <2> QED BY <2>1, <2>2, <2>3, <2>5 DEF ContractInv, Answered
<1>2. ContractInv /\ [ContractNext]_contractState => ContractInv'
  <2> SUFFICES ASSUME ContractInv, [ContractNext]_contractState PROVE ContractInv'
      OBVIOUS
  <2>1. CASE UNCHANGED contractState
    <3>1. UNCHANGED <<limit, pc, job, agreement>>
        BY <2>1 DEF contractState, handling
    <3> QED BY <3>1 DEF ContractInv, HandlingOK, InTurn, SavesNegotiation
  <2>2. ASSUME NEW r \in Requests, SaveContractRow(r) PROVE ContractInv'
      BY <2>2, SaverKeeps DEF SaveContractRow
  <2>3. ASSUME NEW r \in Requests, QueryFails(r), UNCHANGED agreement PROVE ContractInv'
    <3>1. pc[r] = "saveContractRow" /\ Answer(r, "failed")
        BY <2>3 DEF QueryFails, InFlight, ContractInv, Answered
    <3> QED BY <2>3, <3>1, SaverKeeps
  <2> QED BY <2>1, <2>2, <2>3, ContractRequestsKeep, ContractCrashKeeps
          DEF ContractNext, ContractStep
<1> QED BY <1>1, <1>2, PTL DEF ContractSpec

\* Whatever overlaps or fails, what is saved of a contract tells the negotiation
\* that led to it, and handled one at a time no offer and no acceptance is lost.
THEOREM AgreementsAreNegotiated == ContractSpec => AgreementFollowsNegotiation
<1>1. ContractInv /\ [ContractNext]_contractState =>
          [\A c \in Requests :
              /\ agreement'[c] # None => RowTellsNegotiation(agreement'[c])
              /\ limit = 1 /\ agreement[c] # None =>
                     IsPrefix(agreement[c].history, agreement'[c].history)]_agreement
  <2> SUFFICES ASSUME ContractInv, [ContractNext]_contractState, agreement' # agreement,
                      NEW c \in Requests
               PROVE  /\ agreement'[c] # None => RowTellsNegotiation(agreement'[c])
                      /\ limit = 1 /\ agreement[c] # None =>
                             IsPrefix(agreement[c].history, agreement'[c].history)
      OBVIOUS
  <2>1. PICK r \in Requests : SaveContractRow(r)
      BY DEF ContractNext, ContractStep, contractState, CreateContract, SubmitOffer, AcceptTerms
  <2>2. SavesNegotiation(r) /\ agreement' = [agreement EXCEPT ![job[r].id] = job[r].row]
      BY <2>1 DEF SaveContractRow, ContractInv
  <2>3. \/ agreement'[c] = agreement[c]
        \/ c = job[r].id /\ agreement'[c] = job[r].row
      BY <2>2 DEF ContractInv, SavesNegotiation
  <2>4. agreement[c] # None => IsPrefix(agreement[c].history, agreement[c].history)
    <3>1. agreement[c] # None => agreement[c].history \in Seq(ContractEvent)
        BY DEF ContractInv, ContractRow
    <3> QED BY <3>1, PrefixOfAppend
  <2> QED BY <2>2, <2>3, <2>4 DEF ContractInv, SavesNegotiation
<1> QED BY <1>1, ContractInvariantHolds, PTL DEF ContractSpec, AgreementFollowsNegotiation

-----------------------------------------------------------------------------
(* ExportBundles: wherever creation and signing stop or overlap, a bundle, *)
(* its proof, the ledger and the anchor metadata agree.                    *)

BundleHash(b) == [ bundle |-> b ]

\* A row that is stored, by how far the request has come that creates it.
StoredBundleFits(b) ==
    bundles[b] # None =>
        /\ bundles[b].hash = BundleHash(b)
        /\ bundles[b].proof # None => metadata[b] = bundles[b].proof
        /\ bundles[b].signature # None =>
               LET signature == bundles[b].signature
               IN  /\ signature.hash = BundleHash(b)
                   /\ signature.by \in Requests /\ pc[signature.by] # "idle"
        /\ pc[b] # "done" => bundles[b].proof = None /\ bundles[b].signature = None

AnchorFits(b) ==
    /\ ledger[b] \in {None, BundleHash(b)}
    /\ ledger[b] # None \/ metadata[b] # None => bundles[b] # None
    /\ metadata[b] = "anchored" => ledger[b] # None

CreationFits(r) ==
    /\ pc[r] \in {"idle", "saveBundle"} => bundles[r] = None
    /\ pc[r] \in {"saveBundle", "anchor", "saveProof"} \union Caught =>
           job[r] \in Bundle /\ job[r].hash = BundleHash(r) /\ job[r].signature = None
    /\ pc[r] \in {"saveBundle", "anchor"} => job[r].proof = None
    /\ pc[r] \in {"anchor", "saveProof"} \union Caught => bundles[r] # None
    /\ pc[r] \in Caught => (job[r].proof = "anchored" => ledger[r] # None)
    /\ pc[r] = "saveProof" => metadata[r] = job[r].proof

\* Whoever signs has read a bundle whose creation had ended.
SigningFits(r) ==
    pc[r] = "saveSigned" =>
        \E b \in Requests :
            /\ job[r] \in Bundle
            /\ job[r].hash = BundleHash(b)
            /\ pc[b] = "done" /\ bundles[b] # None
            /\ job[r].proof = bundles[b].proof
            /\ job[r].signature # None
            /\ job[r].signature.hash = BundleHash(b) /\ job[r].signature.by = r

ExportInv ==
    /\ HandlingOK
    /\ InTurn
    /\ bundles \in [Requests -> Bundle \union {None}]
    /\ ledger = [r \in Requests |-> ledger[r]]
    /\ metadata = [r \in Requests |-> metadata[r]]
    /\ signingKey \in Nat
    /\ \A r \in Requests :
           StoredBundleFits(r) /\ AnchorFits(r) /\ CreationFits(r) /\ SigningFits(r)

\* One row is written, of the request that moves or of a bundle that is done.
OneBundleChanges(r, c) ==
    /\ \A b \in Requests \ {c} : bundles'[b] = bundles[b]
    /\ c # r => /\ pc[c] = "done" /\ bundles[c] # None
                /\ bundles'[c] # None /\ bundles'[c].proof = bundles[c].proof

LEMMA ExportStepKeeps ==
    ASSUME ExportInv, NEW r \in Requests, NEW c \in Requests, NEW step, step # "idle", NEW j,
           Goes(r, step, j), HandlingOK', OneBundleChanges(r, c),
           bundles' \in [Requests -> Bundle \union {None}],
           ledger' = [q \in Requests |-> ledger'[q]],
           metadata' = [q \in Requests |-> metadata'[q]],
           UNCHANGED signingKey,
           \A b \in Requests \ {r} : ledger'[b] = ledger[b] /\ metadata'[b] = metadata[b],
           StoredBundleFits(r)', StoredBundleFits(c)', AnchorFits(r)', CreationFits(r)',
           SigningFits(r)'
    PROVE  ExportInv'
<1>1. InTurn'
    BY TurnsKept DEF ExportInv, Goes
<1>2. ASSUME NEW q \in Requests \ {r}
      PROVE  StoredBundleFits(q)' /\ AnchorFits(q)' /\ CreationFits(q)' /\ SigningFits(q)'
  <2>1. /\ pc'[q] = pc[q] /\ job'[q] = job[q] /\ ledger'[q] = ledger[q]
        /\ metadata'[q] = metadata[q]
        /\ StoredBundleFits(q) /\ AnchorFits(q) /\ CreationFits(q) /\ SigningFits(q)
      BY DEF ExportInv, Goes, Moves
  <2>2. /\ pc[q] # "done" => bundles'[q] = bundles[q]
        /\ bundles[q] # None => bundles'[q] # None
      BY DEF OneBundleChanges
  <2>3. StoredBundleFits(q)'
    <3>1. CASE q = c
        BY <3>1
    <3>2. CASE q # c
      <4>1. bundles'[q] = bundles[q]
          BY <3>2 DEF OneBundleChanges
      <4>2. \A p \in Requests : pc[p] # "idle" => pc'[p] # "idle"
          BY DEF Goes, Moves
      <4> QED BY <2>1, <4>1, <4>2 DEF StoredBundleFits
    <3> QED BY <3>1, <3>2
  <2>4. AnchorFits(q)'
      BY <2>1, <2>2 DEF AnchorFits
  <2>5. CreationFits(q)'
      BY <2>1, <2>2 DEF CreationFits, Caught
  <2>6. ASSUME pc'[q] = "saveSigned" PROVE SigningFits(q)'
    <3>1. PICK b \in Requests :
            /\ job[q] \in Bundle
            /\ job[q].hash = BundleHash(b)
            /\ pc[b] = "done" /\ bundles[b] # None
            /\ job[q].proof = bundles[b].proof
            /\ job[q].signature # None
            /\ job[q].signature.hash = BundleHash(b) /\ job[q].signature.by = q
        BY <2>1, <2>6 DEF SigningFits
    <3>2. b # r
        BY <3>1 DEF Goes, Moves, Answered
    <3>3. pc'[b] = "done" /\ bundles'[b] # None /\ bundles'[b].proof = bundles[b].proof
        BY <3>1, <3>2 DEF Goes, Moves, OneBundleChanges
    <3> QED BY <2>1, <3>1, <3>3 DEF SigningFits
  <2>7. SigningFits(q)'
      BY <2>6 DEF SigningFits
  <2> QED BY <2>3, <2>4, <2>5, <2>7
<1> QED BY <1>1, <1>2 DEF ExportInv

\* A step that writes no bundle.
LEMMA ExportQuietStep ==
    ASSUME ExportInv, NEW r \in Requests, NEW step, step # "idle", NEW j, Goes(r, step, j),
           HandlingOK', UNCHANGED <<bundles, signingKey>>,
           ledger' = [q \in Requests |-> ledger'[q]],
           metadata' = [q \in Requests |-> metadata'[q]],
           \A b \in Requests \ {r} : ledger'[b] = ledger[b] /\ metadata'[b] = metadata[b],
           bundles[r] # None => bundles[r].proof = None, step = "done" \/ pc[r] # "done",
           AnchorFits(r)', CreationFits(r)', SigningFits(r)'
    PROVE  ExportInv'
<1>1. OneBundleChanges(r, r) /\ bundles' \in [Requests -> Bundle \union {None}]
    BY DEF OneBundleChanges, ExportInv
<1>2. StoredBundleFits(r)'
  <2>1. StoredBundleFits(r) /\ pc[r] # "done"
      BY DEF ExportInv, Goes, Moves, Answered
  <2>2. bundles[r] # None => bundles[r].signature = None
      BY <2>1 DEF StoredBundleFits
  <2> QED BY <2>1, <2>2 DEF StoredBundleFits
<1> QED BY <1>1, <1>2, ExportStepKeeps

-----------------------------------------------------------------------------
(* The actions.                                                            *)

LEMMA CreateBundleKeeps ==
    ASSUME ExportInv, NEW r \in Requests, CreateExportBundle(r)
    PROVE  ExportInv'
<1>1. /\ NextToArrive(r) /\ Await(r, "saveBundle", NewBundle(r))
      /\ UNCHANGED <<bundles, ledger, metadata, signingKey>> /\ pc[r] = "idle"
    BY DEF CreateExportBundle, exportVars, NextToArrive
<1>2. Goes(r, "saveBundle", NewBundle(r)) /\ HandlingOK'
    BY <1>1, AwaitGoes DEF ExportInv
<1>3. pc'[r] = "saveBundle" /\ job'[r] = NewBundle(r)
    BY <1>2 DEF Goes
<1>4. /\ NewBundle(r) \in Bundle /\ NewBundle(r).hash = BundleHash(r)
      /\ NewBundle(r).proof = None /\ NewBundle(r).signature = None
    BY DEF NewBundle, Bundle, BundleHash, Hash
<1>5. CreationFits(r) /\ AnchorFits(r)
    BY DEF ExportInv
<1>6. bundles[r] = None
    BY <1>1, <1>5 DEF CreationFits
<1>7. AnchorFits(r)' /\ CreationFits(r)' /\ SigningFits(r)'
    BY <1>1, <1>3, <1>4, <1>5, <1>6 DEF AnchorFits, CreationFits, SigningFits, Caught
<1>8. /\ ledger' = [q \in Requests |-> ledger'[q]]
      /\ metadata' = [q \in Requests |-> metadata'[q]]
    BY <1>1 DEF ExportInv
<1> QED BY <1>1, <1>2, <1>6, <1>7, <1>8, ExportQuietStep

LEMMA SaveBundleKeeps ==
    ASSUME ExportInv, NEW r \in Requests, SaveBundle(r)
    PROVE  ExportInv'
<1>1. /\ pc[r] = "saveBundle" /\ bundles' = [bundles EXCEPT ![r] = job[r]]
      /\ Await(r, "anchor", job[r]) /\ UNCHANGED <<ledger, metadata, signingKey>>
    BY DEF SaveBundle, Write
<1>2. Goes(r, "anchor", job[r]) /\ HandlingOK'
    BY <1>1, AwaitGoes DEF ExportInv, InFlight
<1>3. pc'[r] = "anchor" /\ job'[r] = job[r]
    BY <1>2 DEF Goes
<1>4. /\ job[r] \in Bundle /\ job[r].hash = BundleHash(r) /\ job[r].signature = None
      /\ job[r].proof = None /\ job[r] # None /\ AnchorFits(r)
    BY <1>1, ExportAssumption DEF ExportInv, CreationFits
<1>5. /\ bundles'[r] = job[r] /\ \A b \in Requests \ {r} : bundles'[b] = bundles[b]
      /\ bundles' \in [Requests -> Bundle \union {None}]
    BY <1>1, <1>4 DEF ExportInv
<1>6. OneBundleChanges(r, r)
    BY <1>5 DEF OneBundleChanges
<1>7. StoredBundleFits(r)' /\ AnchorFits(r)' /\ CreationFits(r)' /\ SigningFits(r)'
    BY <1>1, <1>3, <1>4, <1>5 DEF StoredBundleFits, AnchorFits, CreationFits, SigningFits, Caught
<1>8. /\ ledger' = [q \in Requests |-> ledger'[q]]
      /\ metadata' = [q \in Requests |-> metadata'[q]]
    BY <1>1 DEF ExportInv
<1> QED BY <1>1, <1>2, <1>5, <1>6, <1>7, <1>8, ExportStepKeeps

LEMMA WithProof ==
    ASSUME NEW row \in Bundle, NEW status \in AnchorStatus
    PROVE  /\ [row EXCEPT !.proof = status] \in Bundle
           /\ [row EXCEPT !.proof = status].hash = row.hash
           /\ [row EXCEPT !.proof = status].signature = row.signature
           /\ [row EXCEPT !.proof = status].proof = status
BY DEF Bundle

LEMMA SubmitAnchorKeeps ==
    ASSUME ExportInv, NEW r \in Requests, SubmitAnchor(r)
    PROVE  ExportInv'
<1>1. /\ pc[r] = "anchor" /\ UNCHANGED <<bundles, metadata, signingKey>>
      /\ job[r] \in Bundle /\ job[r].hash = BundleHash(r) /\ job[r].signature = None
      /\ bundles[r] # None /\ StoredBundleFits(r) /\ AnchorFits(r)
    BY DEF SubmitAnchor, ExportInv, CreationFits
<1>2. PICK status \in AnchorStatus :
          /\ Await(r, "saveMetadata", [job[r] EXCEPT !.proof = status])
          /\ ledger' \in {ledger, Anchored(r, job[r].hash)}
          /\ status = "anchored" => ledger' = Anchored(r, job[r].hash)
    BY DEF SubmitAnchor, AnchorStatus
<1>3. PICK row : row = [job[r] EXCEPT !.proof = status]
    OBVIOUS
<1>4. row \in Bundle /\ row.hash = BundleHash(r) /\ row.signature = None /\ row.proof = status
    BY <1>1, <1>3, WithProof
<1>5. Goes(r, "saveMetadata", row) /\ HandlingOK'
    BY <1>1, <1>2, <1>3, AwaitGoes DEF ExportInv, InFlight
<1>6. pc'[r] = "saveMetadata" /\ job'[r] = row
    BY <1>5 DEF Goes
<1>7. BundleHash(r) # None
  <2>1. BundleHash(r) \in Hash
      BY DEF BundleHash, Hash
  <2> QED BY <2>1, ExportAssumption
<1>8. /\ \A b \in Requests \ {r} : ledger'[b] = ledger[b]
      /\ ledger'[r] \in {ledger[r], BundleHash(r)}
      /\ status = "anchored" => ledger'[r] # None
      /\ ledger' = [q \in Requests |-> ledger'[q]]
  <2>1. \/ Anchored(r, job[r].hash) = ledger /\ ledger[r] # None
        \/ Anchored(r, job[r].hash) = [ledger EXCEPT ![r] = BundleHash(r)]
      BY <1>1 DEF Anchored
  <2> QED BY <1>2, <1>7, <2>1 DEF ExportInv
<1>9. bundles[r].proof = None
    BY <1>1 DEF StoredBundleFits
<1>10. AnchorFits(r)'
    BY <1>1, <1>8 DEF AnchorFits, BundleHash
<1>11. CreationFits(r)' /\ SigningFits(r)'
    BY <1>1, <1>4, <1>6, <1>8 DEF CreationFits, SigningFits, Caught
<1>12. metadata' = [q \in Requests |-> metadata'[q]]
    BY <1>1 DEF ExportInv
<1> QED BY <1>1, <1>5, <1>8, <1>9, <1>10, <1>11, <1>12, ExportQuietStep

LEMMA SaveStatusKeeps ==
    ASSUME ExportInv, NEW r \in Requests, SaveAnchorStatus(r)
    PROVE  ExportInv'
<1>1. /\ pc[r] \in Caught /\ UNCHANGED <<bundles, ledger, signingKey>>
      /\ metadata' = [metadata EXCEPT ![r] = job[r].proof] /\ Await(r, "saveProof", job[r])
      /\ StoredBundleFits(r) /\ AnchorFits(r) /\ CreationFits(r) /\ pc[r] # "done"
    BY DEF SaveAnchorStatus, Caught, ExportInv
<1>2. Goes(r, "saveProof", job[r]) /\ HandlingOK'
    BY <1>1, AwaitGoes DEF ExportInv, InFlight, Caught
<1>3. pc'[r] = "saveProof" /\ job'[r] = job[r]
    BY <1>2 DEF Goes
<1>4. /\ metadata'[r] = job[r].proof /\ \A b \in Requests \ {r} : metadata'[b] = metadata[b]
      /\ metadata' = [q \in Requests |-> metadata'[q]]
    BY <1>1 DEF ExportInv
<1>5. bundles[r] # None /\ bundles[r].proof = None
    BY <1>1 DEF CreationFits, StoredBundleFits, Caught
<1>6. AnchorFits(r)'
    BY <1>1, <1>4, <1>5 DEF AnchorFits, CreationFits
<1>7. CreationFits(r)' /\ SigningFits(r)'
    BY <1>1, <1>3, <1>4, <1>5 DEF CreationFits, SigningFits, Caught
<1>8. ledger' = [q \in Requests |-> ledger'[q]]
    BY <1>1 DEF ExportInv
<1> QED BY <1>1, <1>2, <1>4, <1>5, <1>6, <1>7, <1>8, ExportQuietStep

\* A handler whose query fails has written nothing since its last step.
LEMMA ExportStopKeeps ==
    ASSUME ExportInv, NEW r \in Requests, InFlight(r), NEW how \in {"done", "failed"},
           Answer(r, how), UNCHANGED exportVars
    PROVE  ExportInv'
<1>1. UNCHANGED <<bundles, ledger, metadata, signingKey>>
    BY DEF exportVars
<1>2. Goes(r, how, None) /\ HandlingOK'
    BY AnswerGoes DEF ExportInv
<1>3. pc'[r] = how /\ pc[r] # "done"
    BY <1>2 DEF Goes, InFlight
<1>4. StoredBundleFits(r) /\ AnchorFits(r)
    BY DEF ExportInv
<1>5. bundles[r] # None => bundles[r].proof = None
    BY <1>3, <1>4 DEF StoredBundleFits
<1>6. AnchorFits(r)' /\ CreationFits(r)' /\ SigningFits(r)'
    BY <1>1, <1>3, <1>4 DEF AnchorFits, CreationFits, SigningFits, Caught
<1>7. /\ ledger' = [q \in Requests |-> ledger'[q]]
      /\ metadata' = [q \in Requests |-> metadata'[q]]
    BY <1>1 DEF ExportInv
<1> QED BY <1>1, <1>2, <1>3, <1>5, <1>6, <1>7, ExportQuietStep

LEMMA StatusIsNotSavedKeeps ==
    ASSUME ExportInv, NEW r \in Requests, StatusIsNotSaved(r)
    PROVE  ExportInv'
<1>1. CASE pc[r] = "saveMetadata" /\ Await(r, "saveFailedMetadata", [job[r] EXCEPT !.proof = "failed"])
  <2>1. /\ job[r] \in Bundle /\ job[r].hash = BundleHash(r) /\ job[r].signature = None
        /\ bundles[r] # None /\ StoredBundleFits(r) /\ AnchorFits(r)
      BY <1>1 DEF ExportInv, CreationFits, Caught
  <2>2. UNCHANGED <<bundles, ledger, metadata, signingKey>>
      BY DEF StatusIsNotSaved, exportVars
  <2>3. PICK row : row = [job[r] EXCEPT !.proof = "failed"]
      OBVIOUS
  <2>4. row \in Bundle /\ row.hash = BundleHash(r) /\ row.signature = None /\ row.proof = "failed"
      BY <2>1, <2>3, WithProof DEF AnchorStatus
  <2>5. Goes(r, "saveFailedMetadata", row) /\ HandlingOK'
      BY <1>1, <2>3, AwaitGoes DEF ExportInv, InFlight
  <2>6. pc'[r] = "saveFailedMetadata" /\ job'[r] = row
      BY <2>5 DEF Goes
  <2>7. bundles[r].proof = None
      BY <1>1, <2>1 DEF StoredBundleFits
  <2>8. AnchorFits(r)' /\ CreationFits(r)' /\ SigningFits(r)'
      BY <2>1, <2>2, <2>4, <2>6 DEF AnchorFits, CreationFits, SigningFits, Caught
  <2>9. /\ ledger' = [q \in Requests |-> ledger'[q]]
        /\ metadata' = [q \in Requests |-> metadata'[q]]
      BY <2>2 DEF ExportInv
  <2> QED BY <1>1, <2>2, <2>5, <2>7, <2>8, <2>9, ExportQuietStep
<1>2. CASE pc[r] = "saveFailedMetadata" /\ Answer(r, "done")
    BY <1>2, ExportStopKeeps DEF StatusIsNotSaved, InFlight
<1> QED BY <1>1, <1>2 DEF StatusIsNotSaved

LEMMA SaveProofKeeps ==
    ASSUME ExportInv, NEW r \in Requests, SaveProof(r)
    PROVE  ExportInv'
<1>1. /\ pc[r] = "saveProof" /\ bundles' = [bundles EXCEPT ![r] = job[r]]
      /\ Answer(r, "done") /\ UNCHANGED <<ledger, metadata, signingKey>>
    BY DEF SaveProof, Write
<1>2. Goes(r, "done", None) /\ HandlingOK'
    BY <1>1, AnswerGoes DEF ExportInv, InFlight
<1>3. pc'[r] = "done"
    BY <1>2 DEF Goes
<1>4. /\ job[r] \in Bundle /\ job[r].hash = BundleHash(r) /\ job[r].signature = None
      /\ job[r].proof = metadata[r] /\ job[r] # None /\ AnchorFits(r)
    BY <1>1, ExportAssumption DEF ExportInv, CreationFits
<1>5. /\ bundles'[r] = job[r] /\ \A b \in Requests \ {r} : bundles'[b] = bundles[b]
      /\ bundles' \in [Requests -> Bundle \union {None}]
    BY <1>1, <1>4 DEF ExportInv
<1>6. OneBundleChanges(r, r)
    BY <1>5 DEF OneBundleChanges
<1>7. StoredBundleFits(r)' /\ AnchorFits(r)' /\ CreationFits(r)' /\ SigningFits(r)'
    BY <1>1, <1>3, <1>4, <1>5 DEF StoredBundleFits, AnchorFits, CreationFits, SigningFits, Caught
<1>8. /\ ledger' = [q \in Requests |-> ledger'[q]]
      /\ metadata' = [q \in Requests |-> metadata'[q]]
    BY <1>1 DEF ExportInv
<1> QED BY <1>1, <1>2, <1>5, <1>6, <1>7, <1>8, ExportStepKeeps

LEMMA SignedFields ==
    ASSUME NEW r \in Requests, NEW row \in Bundle, signingKey \in Nat
    PROVE  /\ SignedBy(r, row) \in Bundle
           /\ SignedBy(r, row).hash = row.hash /\ SignedBy(r, row).proof = row.proof
           /\ SignedBy(r, row).signature \in Signature
           /\ SignedBy(r, row).signature.hash = row.hash
           /\ SignedBy(r, row).signature.by = r
           /\ SignedBy(r, row).signature.key = signingKey
<1> DEFINE signature == [ hash |-> row.hash, key |-> signingKey, by |-> r ]
<1>1. /\ signature \in Signature /\ signature.hash = row.hash /\ signature.by = r
      /\ signature.key = signingKey
    BY DEF Signature, Bundle
<1>2. SignedBy(r, row) = [row EXCEPT !.signature = signature]
    BY DEF SignedBy
<1> HIDE DEF signature
<1> QED BY <1>1, <1>2 DEF Bundle

LEMMA SignManifestKeeps ==
    ASSUME ExportInv, NEW r \in Requests, NEW b \in Requests, SignManifest(r, b)
    PROVE  ExportInv'
<1>1. /\ NextToArrive(r) /\ Await(r, "saveSigned", SignedBy(r, bundles[b])) /\ pc[r] = "idle"
      /\ UNCHANGED <<bundles, ledger, metadata, signingKey>>
      /\ pc[b] = "done" /\ bundles[b] # None /\ bundles[b] \in Bundle
      /\ bundles[b].hash = BundleHash(b)
    BY DEF SignManifest, exportVars, NextToArrive, ExportInv, StoredBundleFits
<1>2. PICK row : row = SignedBy(r, bundles[b])
    OBVIOUS
<1>3. /\ row \in Bundle /\ row.hash = BundleHash(b) /\ row.proof = bundles[b].proof
      /\ row.signature # None /\ row.signature.hash = BundleHash(b) /\ row.signature.by = r
    BY <1>1, <1>2, SignedFields, ExportAssumption DEF ExportInv
<1>4. Goes(r, "saveSigned", row) /\ HandlingOK'
    BY <1>1, <1>2, AwaitGoes DEF ExportInv
<1>5. pc'[r] = "saveSigned" /\ job'[r] = row /\ pc'[b] = "done"
    BY <1>1, <1>4 DEF Goes, Moves
<1>6. CreationFits(r) /\ AnchorFits(r)
    BY DEF ExportInv
<1>7. bundles[r] = None
    BY <1>1, <1>6 DEF CreationFits
<1>8. AnchorFits(r)' /\ CreationFits(r)' /\ SigningFits(r)'
    BY <1>1, <1>3, <1>5, <1>6 DEF AnchorFits, CreationFits, SigningFits, Caught
<1>9. /\ ledger' = [q \in Requests |-> ledger'[q]]
      /\ metadata' = [q \in Requests |-> metadata'[q]]
    BY <1>1 DEF ExportInv
<1> QED BY <1>1, <1>4, <1>7, <1>8, <1>9, ExportQuietStep

\* What a signer writes, and where.
LEMMA SaveSignedWrites ==
    ASSUME ExportInv, NEW r \in Requests, SaveSigned(r)
    PROVE  \E b \in Requests :
               /\ pc[b] = "done" /\ bundles[b] # None /\ b # r
               /\ bundles'[b] \in Bundle /\ bundles'[b].hash = BundleHash(b)
               /\ bundles'[b].proof = bundles[b].proof
               /\ bundles'[b].signature # None
               /\ bundles'[b].signature.hash = BundleHash(b)
               /\ bundles'[b].signature.by = r
               /\ \A c \in Requests \ {b} : bundles'[c] = bundles[c]
               /\ bundles' \in [Requests -> Bundle \union {None}]
<1>1. /\ pc[r] = "saveSigned" /\ SigningFits(r)
      /\ bundles' = [bundles EXCEPT ![job[r].hash.bundle] = job[r]]
    BY DEF SaveSigned, Write, ExportInv
<1>2. PICK b \in Requests :
            /\ job[r] \in Bundle
            /\ job[r].hash = BundleHash(b)
            /\ pc[b] = "done" /\ bundles[b] # None
            /\ job[r].proof = bundles[b].proof
            /\ job[r].signature # None
            /\ job[r].signature.hash = BundleHash(b) /\ job[r].signature.by = r
    BY <1>1 DEF SigningFits
<1>3. job[r].hash.bundle = b
    BY <1>2 DEF BundleHash
<1>4. bundles' = [bundles EXCEPT ![b] = job[r]]
    BY <1>1, <1>3
<1>5. /\ bundles'[b] = job[r] /\ \A c \in Requests \ {b} : bundles'[c] = bundles[c]
      /\ bundles' \in [Requests -> Bundle \union {None}]
    BY <1>2, <1>4 DEF ExportInv
<1>6. b # r
    BY <1>1, <1>2
<1> QED BY <1>2, <1>5, <1>6

LEMMA SaveSignedKeeps ==
    ASSUME ExportInv, NEW r \in Requests, SaveSigned(r)
    PROVE  ExportInv'
<1>1. PICK b \in Requests :
               /\ pc[b] = "done" /\ bundles[b] # None /\ b # r
               /\ bundles'[b] \in Bundle /\ bundles'[b].hash = BundleHash(b)
               /\ bundles'[b].proof = bundles[b].proof
               /\ bundles'[b].signature # None
               /\ bundles'[b].signature.hash = BundleHash(b)
               /\ bundles'[b].signature.by = r
               /\ \A c \in Requests \ {b} : bundles'[c] = bundles[c]
               /\ bundles' \in [Requests -> Bundle \union {None}]
    BY SaveSignedWrites
<1>2. /\ pc[r] = "saveSigned" /\ Answer(r, "done") /\ UNCHANGED <<ledger, metadata, signingKey>>
      /\ StoredBundleFits(r) /\ StoredBundleFits(b) /\ AnchorFits(r)
    BY DEF SaveSigned, Write, ExportInv
<1>3. Goes(r, "done", None) /\ HandlingOK'
    BY <1>2, AnswerGoes DEF ExportInv, InFlight
<1>4. pc'[r] = "done" /\ pc'[b] = "done"
    BY <1>1, <1>3 DEF Goes, Moves
<1>5. bundles'[b] # None
    BY <1>1, ExportAssumption
<1>6. OneBundleChanges(r, b)
    BY <1>1, <1>5 DEF OneBundleChanges
<1>7. StoredBundleFits(b)'
    BY <1>1, <1>2, <1>4 DEF StoredBundleFits
<1>8. StoredBundleFits(r)'
  <2>1. bundles'[r] = bundles[r]
      BY <1>1
  <2>2. bundles[r] # None => bundles[r].proof = None /\ bundles[r].signature = None
      BY <1>2 DEF StoredBundleFits
  <2> QED BY <1>2, <2>1, <2>2 DEF StoredBundleFits
<1>9. AnchorFits(r)' /\ CreationFits(r)' /\ SigningFits(r)'
    BY <1>1, <1>2, <1>4 DEF AnchorFits, CreationFits, SigningFits, Caught
<1>10. /\ ledger' = [q \in Requests |-> ledger'[q]]
       /\ metadata' = [q \in Requests |-> metadata'[q]]
    BY <1>2 DEF ExportInv
<1> QED BY <1>1, <1>2, <1>3, <1>6, <1>7, <1>8, <1>9, <1>10, ExportStepKeeps

LEMMA ExportCrashKeeps ==
    ASSUME ExportInv, Crash, Restart
    PROVE  ExportInv'
<1>1. /\ Stopped /\ HandlingOK' /\ InTurn' /\ UNCHANGED <<bundles, ledger, metadata>>
      /\ signingKey' \in Nat
    BY CrashStops, TurnsKeptByCrash DEF ExportInv, Restart
<1>2. ASSUME NEW r \in Requests
      PROVE  StoredBundleFits(r)' /\ AnchorFits(r)' /\ CreationFits(r)' /\ SigningFits(r)'
  <2>1. \A q \in Requests : /\ pc'[q] \in {"idle", "done", "refused", "failed"}
                            /\ pc'[q] = "idle" <=> pc[q] = "idle"
                            /\ pc'[q] = "done" <=> pc[q] = "done"
      BY <1>1 DEF Stopped, InFlight
  <2>2. StoredBundleFits(r) /\ AnchorFits(r) /\ CreationFits(r)
      BY DEF ExportInv
  <2>3. StoredBundleFits(r)'
      BY <1>1, <2>1, <2>2 DEF StoredBundleFits
  <2>4. AnchorFits(r)'
      BY <1>1, <2>2 DEF AnchorFits
  <2>5. CreationFits(r)' /\ SigningFits(r)'
      BY <1>1, <2>1, <2>2 DEF CreationFits, SigningFits, Caught
  <2> QED BY <2>3, <2>4, <2>5
<1> QED BY <1>1, <1>2 DEF ExportInv

-----------------------------------------------------------------------------
\* Bundles, proofs, ledger, metadata and signatures agree, and so does what a
\* handler is about to save.
THEOREM ExportInvariantHolds == ExportSpec => []ExportInv
<1>1. HandlingInit /\ ExportInit => ExportInv
  <2> SUFFICES ASSUME HandlingInit, ExportInit PROVE ExportInv
      OBVIOUS
  <2>1. HandlingOK /\ InTurn /\ \A r \in Requests : pc[r] \in {"idle", "done"}
      BY InitialTurns
  <2>2. \A r \in Requests : StoredBundleFits(r) /\ AnchorFits(r) /\ CreationFits(r) /\ SigningFits(r)
    <3>1. ASSUME NEW r \in Requests
          PROVE  StoredBundleFits(r) /\ AnchorFits(r) /\ CreationFits(r) /\ SigningFits(r)
      <4>1. bundles[r] = None /\ ledger[r] = None /\ metadata[r] = None
          BY DEF ExportInit
      <4>2. StoredBundleFits(r) /\ CreationFits(r) /\ SigningFits(r)
          BY <2>1, <4>1 DEF StoredBundleFits, CreationFits, SigningFits, Caught
      <4>3. AnchorFits(r)
          BY <4>1, ExportAssumption DEF AnchorFits, AnchorStatus
      <4> QED BY <4>2, <4>3
    <3> QED BY <3>1
  <2> QED BY <2>1, <2>2 DEF ExportInv, ExportInit
<1>2. ExportInv /\ [ExportNext]_exportState => ExportInv'
  <2> SUFFICES ASSUME ExportInv, [ExportNext]_exportState PROVE ExportInv'
      OBVIOUS
  <2>1. CASE UNCHANGED exportState
    <3>1. UNCHANGED <<limit, pc, job, bundles, ledger, metadata, signingKey>>
        BY <2>1 DEF exportState, handling, exportVars
    <3>2. \A r \in Requests :
              StoredBundleFits(r)' /\ AnchorFits(r)' /\ CreationFits(r)' /\ SigningFits(r)'
        BY <3>1 DEF ExportInv, StoredBundleFits, AnchorFits, CreationFits, SigningFits
    <3> QED BY <3>1, <3>2 DEF ExportInv, HandlingOK, InTurn
  <2>2. ASSUME NEW r \in Requests, QueryFails(r), UNCHANGED exportVars PROVE ExportInv'
      BY <2>2, ExportStopKeeps DEF QueryFails
  <2> QED BY <2>1, <2>2, ExportCrashKeeps, CreateBundleKeeps, SaveBundleKeeps,
            SubmitAnchorKeeps, SaveStatusKeeps, StatusIsNotSavedKeeps, SaveProofKeeps,
            SignManifestKeeps, SaveSignedKeeps DEF ExportNext, ExportStep
<1> QED BY <1>1, <1>2, PTL DEF ExportSpec

LEMMA BundlesAreCheckable ==
    ASSUME ExportInv, NEW b \in Requests
    PROVE  Checkable(b)
<1>1. StoredBundleFits(b) /\ AnchorFits(b)
    BY DEF ExportInv
<1> QED BY <1>1 DEF StoredBundleFits, AnchorFits, Checkable, VerifyEvent, VerifySignature

LEMMA BundlesAreKept ==
    ASSUME ExportInv, [ExportNext]_exportState, NEW b \in Requests
    PROVE  Kept(b)
<1>1. StoredBundleFits(b) /\ AnchorFits(b) /\ CreationFits(b)
    BY DEF ExportInv
<1>2. \A i \in Requests : i >= i
    BY HandlingAssumption DEF Requests
<1>3. bundles[b] # None /\ bundles[b].signature # None => bundles[b].signature.by \in Requests
    BY <1>1 DEF StoredBundleFits
<1>4. ASSUME bundles'[b] = bundles[b], ledger[b] # None => ledger'[b] = ledger[b]
      PROVE  Kept(b)
    BY <1>2, <1>3, <1>4 DEF Kept
<1>5. CASE UNCHANGED <<bundles, ledger>>
    BY <1>4, <1>5
<1>6. ASSUME NEW r \in Requests, SaveBundle(r) \/ SaveProof(r) PROVE Kept(b)
  <2>1. /\ pc[r] \in {"saveBundle", "saveProof"} /\ UNCHANGED ledger
        /\ bundles' = [bundles EXCEPT ![r] = job[r]]
      BY <1>6 DEF SaveBundle, SaveProof, Write
  <2>2. CASE b = r
    <3>1. bundles'[b] = job[r] /\ job[r].hash = BundleHash(b)
        BY <1>1, <2>1, <2>2 DEF ExportInv, CreationFits
    <3>2. bundles[b] # None => /\ bundles[b].hash = BundleHash(b)
                               /\ bundles[b].proof = None /\ bundles[b].signature = None
        BY <1>1, <2>1, <2>2 DEF StoredBundleFits
    <3> QED BY <2>1, <3>1, <3>2 DEF Kept
  <2>3. CASE b # r
      BY <1>4, <2>1, <2>3 DEF ExportInv
  <2> QED BY <2>2, <2>3
<1>7. ASSUME NEW r \in Requests, SaveSigned(r) PROVE Kept(b)
  <2>1. PICK c \in Requests :
               /\ pc[c] = "done" /\ bundles[c] # None /\ c # r
               /\ bundles'[c] \in Bundle /\ bundles'[c].hash = BundleHash(c)
               /\ bundles'[c].proof = bundles[c].proof
               /\ bundles'[c].signature # None
               /\ bundles'[c].signature.hash = BundleHash(c)
               /\ bundles'[c].signature.by = r
               /\ \A d \in Requests \ {c} : bundles'[d] = bundles[d]
               /\ bundles' \in [Requests -> Bundle \union {None}]
      BY <1>7, SaveSignedWrites
  <2>2. UNCHANGED ledger /\ pc[r] = "saveSigned"
      BY <1>7 DEF SaveSigned, Write
  <2>3. CASE b # c
      BY <1>4, <2>1, <2>2, <2>3
  <2>4. CASE b = c
    <3>1. ASSUME limit = 1, bundles[b].signature # None PROVE r >= bundles[b].signature.by
      <4>1. PICK q \in Requests : q = bundles[b].signature.by /\ pc[q] # "idle"
          BY <1>1, <2>1, <2>4, <3>1 DEF StoredBundleFits
      <4>2. ~(r < q)
          BY <2>2, <3>1, <4>1 DEF ExportInv, InTurn, Answered
      <4> QED BY <4>1, <4>2, HandlingAssumption DEF Requests
    <3> QED BY <1>1, <2>1, <2>2, <2>4, <3>1 DEF Kept, StoredBundleFits
  <2> QED BY <2>3, <2>4
<1>8. ASSUME NEW r \in Requests, SubmitAnchor(r) PROVE Kept(b)
  <2>1. UNCHANGED bundles /\ ledger' \in {ledger, Anchored(r, job[r].hash)}
      BY <1>8 DEF SubmitAnchor
  <2>2. ledger[b] # None => ledger'[b] = ledger[b]
      BY <2>1 DEF Anchored, ExportInv
  <2> QED BY <1>4, <2>1, <2>2
<1>9. ASSUME NEW r \in Requests,
             \/ CreateExportBundle(r) \/ SaveAnchorStatus(r) \/ StatusIsNotSaved(r)
             \/ \E c \in Requests : SignManifest(r, c)
             \/ QueryFails(r) /\ UNCHANGED exportVars
      PROVE  UNCHANGED <<bundles, ledger>>
    BY <1>9 DEF CreateExportBundle, SaveAnchorStatus, StatusIsNotSaved, SignManifest, exportVars
<1>10. ASSUME Restart \/ UNCHANGED exportState PROVE UNCHANGED <<bundles, ledger>>
    BY <1>10 DEF Restart, exportState, exportVars
<1> QED BY <1>5, <1>6, <1>7, <1>8, <1>9, <1>10 DEF ExportNext, ExportStep

\* Whatever overlaps, fails or restarts, every step leads to bundles that can be
\* checked and keeps the hashes, the proofs and the signatures that were there.
THEOREM BundlesAreTold == ExportSpec => BundlesStayCheckable
<1> DEFINE AllCheckable == \A b \in Requests : Checkable(b)
<1>1. ExportInv => AllCheckable
    BY BundlesAreCheckable
<1>2. ExportInv /\ [ExportNext]_exportState => \A b \in Requests : Kept(b)
    BY BundlesAreKept
<1>3. AllCheckable' /\ (\A b \in Requests : Kept(b)) =>
          [\A b \in Requests : Checkable(b)' /\ Kept(b)]_exportVars
    OBVIOUS
<1> HIDE DEF AllCheckable
<1> QED BY <1>1, <1>2, <1>3, ExportInvariantHolds, PTL DEF ExportSpec, BundlesStayCheckable

-----------------------------------------------------------------------------
(* Workspace: what a summary says of records that others go on writing.    *)

\* What each read of a summary has found, and what of it still holds.
DealsTold(s) ==
    /\ \A o \in DOMAIN s.deals :
           o \in DealOrders /\ (s.deals[o] = "accepted" => orderStatus[o] = "accepted")
    /\ s.delivered \subseteq proven

OrdersTold(s) ==
    \A o \in DOMAIN s.orders :
        /\ o \in DealOrders
        /\ s.orders[o] = "accepted" => orderStatus[o] = "accepted"
        /\ o \in DOMAIN s.deals /\ s.deals[o] = "accepted" => s.orders[o] = "accepted"

EvidenceTold(s) ==
    /\ s.evidence \subseteq proven
    /\ \A o \in DOMAIN s.orders : o \in s.delivered => o \in s.evidence

InvoicesTold(s) ==
    \A i \in DOMAIN s.invoices : i \in DealInvoices /\ s.invoices[i].order \in DOMAIN s.orders

SnapshotTold(step, s) ==
    /\ step \in {"listOrders", "listEvidence", "listInvoices", "done"} => DealsTold(s)
    /\ step \in {"listEvidence", "listInvoices", "done"} => OrdersTold(s)
    /\ step \in {"listInvoices", "done"} => EvidenceTold(s)
    /\ step = "done" => InvoicesTold(s)

\* What the handler marked is marked, and, with one request at a time, its snapshot has
\* what earlier ones marked.
TaskDone(j) == j.task # None => j.task \in completed[j.actor.org]

EarlierDone(r, j) ==
    limit = 1 =>
        \A q \in Requests :
            /\ q < r
            /\ shown[q] # None /\ shown[q].task # None
            /\ shown[q].actor.org = j.actor.org
            /\ shown[q].s.epoch = j.s.epoch
            => shown[q].task \in j.s.done

SummarySteps == {"listDeals", "listOrders", "listEvidence", "listInvoices"}

\* The shape of the local variables of a summary.
IsSummary(j) ==
    /\ j = [ actor |-> j.actor, what |-> j.what, task |-> j.task, s |-> j.s ]
    /\ j.s = [ deals |-> j.s.deals, delivered |-> j.s.delivered, escrows |-> j.s.escrows,
               raised |-> j.s.raised, done |-> j.s.done, epoch |-> j.s.epoch,
               orders |-> j.s.orders, evidence |-> j.s.evidence, invoices |-> j.s.invoices ]
    /\ j.actor.org \in Companies

SummaryFits(step, r, j) ==
    step \in SummarySteps =>
        /\ IsSummary(j)
        /\ TaskDone(j)
        /\ step # "listDeals" => j.s.epoch = epoch /\ EarlierDone(r, j)
        /\ SnapshotTold(step, j.s)

\* An answer may be of an earlier process.
AnswerFits(r, j) ==
    /\ j.actor.org \in Companies
    /\ j.s.epoch \in Nat /\ j.s.epoch <= epoch
    /\ j.s.epoch = epoch => TaskDone(j)
    /\ EarlierDone(r, j)
    /\ SnapshotTold("done", j.s)

ShownFits(r) == shown[r] # None => pc[r] # "idle" /\ AnswerFits(r, shown[r])

WorkspaceTyped ==
    /\ orderStatus = [o \in DealOrders |-> orderStatus[o]]
    /\ completed = [c \in Companies |-> completed[c]]
    /\ shown = [r \in Requests |-> shown[r]]
    /\ epoch \in Nat

WorkspaceInv ==
    /\ HandlingOK
    /\ InTurn
    /\ WorkspaceTyped
    /\ \A r \in Requests : SummaryFits(pc[r], r, job[r]) /\ ShownFits(r)

\* The records are not taken back, nor are marks while the process runs.
FactsGrow ==
    /\ \A o \in DealOrders : orderStatus[o] = "accepted" => orderStatus'[o] = "accepted"
    /\ proven \subseteq proven'

MarksGrow ==
    /\ epoch' = epoch
    /\ \A c \in Companies : completed[c] \subseteq completed'[c]

LEMMA SnapshotStaysTold ==
    ASSUME FactsGrow, NEW step, NEW s, SnapshotTold(step, s)
    PROVE  SnapshotTold(step, s)'
<1>1. DealsTold(s) => DealsTold(s)'
    BY DEF FactsGrow, DealsTold
<1>2. OrdersTold(s) => OrdersTold(s)'
    BY DEF FactsGrow, OrdersTold
<1>3. EvidenceTold(s) => EvidenceTold(s)'
    BY DEF FactsGrow, EvidenceTold
<1>4. InvoicesTold(s) => InvoicesTold(s)'
    BY DEF InvoicesTold
<1> QED BY <1>1, <1>2, <1>3, <1>4 DEF SnapshotTold

LEMMA EarlierStays ==
    ASSUME UNCHANGED limit, NEW r \in Requests, NEW j, EarlierDone(r, j),
           limit = 1 => \A q \in Requests : q < r => shown'[q] = shown[q]
    PROVE  EarlierDone(r, j)'
BY DEF EarlierDone

LEMMA SummaryStays ==
    ASSUME FactsGrow, MarksGrow, UNCHANGED limit, NEW step, NEW r \in Requests, NEW j,
           SummaryFits(step, r, j),
           limit = 1 => \A q \in Requests : q < r => shown'[q] = shown[q]
    PROVE  SummaryFits(step, r, j)'
<1> SUFFICES ASSUME step \in SummarySteps
             PROVE  SummaryFits(step, r, j)'
    BY DEF SummaryFits
<1>1. IsSummary(j) /\ TaskDone(j) /\ SnapshotTold(step, j.s)
    BY DEF SummaryFits
<1>2. TaskDone(j)'
    BY <1>1 DEF TaskDone, MarksGrow, IsSummary
<1>3. SnapshotTold(step, j.s)'
    BY <1>1, SnapshotStaysTold
<1>4. EarlierDone(r, j) => EarlierDone(r, j)'
    BY EarlierStays
<1>5. IsSummary(j)'
    BY <1>1 DEF IsSummary
<1> QED BY <1>2, <1>3, <1>4, <1>5 DEF SummaryFits, MarksGrow

LEMMA AnswerStays ==
    ASSUME FactsGrow, MarksGrow, UNCHANGED limit, NEW r \in Requests, NEW j, AnswerFits(r, j),
           limit = 1 => \A q \in Requests : q < r => shown'[q] = shown[q]
    PROVE  AnswerFits(r, j)'
<1>1. j.s.epoch = epoch => TaskDone(j)'
    BY DEF AnswerFits, TaskDone, MarksGrow
<1>2. SnapshotTold("done", j.s)'
    BY SnapshotStaysTold DEF AnswerFits
<1>3. EarlierDone(r, j)'
    BY EarlierStays DEF AnswerFits
<1> QED BY <1>1, <1>2, <1>3 DEF AnswerFits, MarksGrow

\* A step of one handler that shows nothing.
LEMMA SummaryGoes ==
    ASSUME WorkspaceInv, NEW r \in Requests, NEW step, NEW j, step # "idle",
           Goes(r, step, j), HandlingOK', WorkspaceTyped', UNCHANGED facts, MarksGrow,
           UNCHANGED shown, SummaryFits(step, r, j)'
    PROVE  WorkspaceInv'
<1>1. FactsGrow /\ InTurn' /\ UNCHANGED limit
    BY TurnsKept DEF FactsGrow, facts, WorkspaceInv, Goes
<1>2. ASSUME NEW q \in Requests
      PROVE  SummaryFits(pc[q], q, job[q])'
  <2>1. CASE q = r
      BY <2>1 DEF Goes
  <2>2. CASE q # r
    <3>1. PICK at, k : at = pc[q] /\ k = job[q]
        OBVIOUS
    <3>2. SummaryFits(at, q, k)
        BY <3>1 DEF WorkspaceInv
    <3>3. SummaryFits(at, q, k)'
        BY <1>1, <3>2, SummaryStays
    <3>4. at = pc'[q] /\ k = job'[q]
        BY <2>2, <3>1 DEF Goes, Moves
    <3> QED BY <3>3, <3>4
  <2> QED BY <2>1, <2>2
<1>3. ASSUME NEW q \in Requests, shown'[q] # None
      PROVE  pc'[q] # "idle" /\ AnswerFits(q, shown[q])'
  <2>1. PICK k : k = shown[q]
      OBVIOUS
  <2>2. pc[q] # "idle" /\ AnswerFits(q, k)
      BY <1>3, <2>1 DEF WorkspaceInv, ShownFits
  <2>3. AnswerFits(q, k)'
      BY <1>1, <2>2, AnswerStays
  <2>4. pc'[q] # "idle"
      BY <2>2 DEF Goes, Moves
  <2>5. k = shown'[q]
      BY <2>1
  <2> QED BY <2>3, <2>4, <2>5
<1> QED BY <1>1, <1>2, <1>3 DEF WorkspaceInv, ShownFits

-----------------------------------------------------------------------------
(* The handlers.                                                           *)

LEMMA WorkspaceAnswerKeeps ==
    ASSUME WorkspaceInv, NEW r \in Requests, NextToArrive(r) \/ InFlight(r),
           NEW how \in Answered, Answer(r, how), UNCHANGED <<facts, completed, epoch, shown>>
    PROVE  WorkspaceInv'
<1>1. Goes(r, how, None) /\ HandlingOK'
    BY AnswerGoes DEF WorkspaceInv
<1>2. SummaryFits(how, r, None)' /\ how # "idle"
    BY DEF SummaryFits, SummarySteps, Answered
<1>3. WorkspaceTyped' /\ MarksGrow
    BY DEF WorkspaceInv, WorkspaceTyped, MarksGrow, facts
<1> QED BY <1>1, <1>2, <1>3, SummaryGoes

LEMMA AskKeeps ==
    ASSUME WorkspaceInv, NEW r \in Requests, NEW actor \in WorkspaceActors, NEW what, NEW task,
           NEW step \in {"listDeals", "listEmails"}, AskWorkspace(r, actor, what, task, step),
           completed' = IF actor.role \in ViewRoles /\ task # None
                        THEN [completed EXCEPT ![actor.org] = @ \union {task}] ELSE completed,
           UNCHANGED <<facts, kept, epoch, shown>>
    PROVE  WorkspaceInv'
<1>1. NextToArrive(r) /\ actor.org \in Companies
    BY WorkspaceAssumption DEF AskWorkspace
<1>2. WorkspaceTyped' /\ MarksGrow
    BY <1>1 DEF WorkspaceInv, WorkspaceTyped, MarksGrow, facts
<1>3. CASE actor.role \in ViewRoles
  <2>1. PICK j : j = [ actor |-> actor, what |-> what, task |-> task, s |-> Nothing ]
      OBVIOUS
  <2>2. Goes(r, step, j) /\ HandlingOK'
      BY <1>1, <1>3, <2>1, AwaitGoes DEF WorkspaceInv, AskWorkspace
  <2>3. IsSummary(j)'
      BY <1>1, <2>1 DEF IsSummary, Nothing
  <2>4. TaskDone(j)'
      BY <1>1, <1>3, <2>1 DEF TaskDone, WorkspaceInv, WorkspaceTyped
  <2>5. SummaryFits(step, r, j)'
      BY <2>3, <2>4 DEF SummaryFits, SummarySteps, SnapshotTold
  <2> QED BY <1>2, <2>2, <2>5, SummaryGoes
<1>4. CASE actor.role \notin ViewRoles
    BY <1>1, <1>4, WorkspaceAnswerKeeps DEF AskWorkspace, Answered
<1> QED BY <1>3, <1>4

LEMMA CompleteTaskKeeps ==
    ASSUME WorkspaceInv, NEW r \in Requests, NEW actor \in WorkspaceActors, NEW task,
           CompleteTask(r, actor, task)
    PROVE  WorkspaceInv'
<1>1. NextToArrive(r) /\ actor.org \in Companies /\ UNCHANGED <<facts, kept, epoch, shown>>
    BY WorkspaceAssumption DEF CompleteTask, AskWorkspace
<1>2. WorkspaceTyped' /\ MarksGrow
    BY <1>1 DEF CompleteTask, WorkspaceInv, WorkspaceTyped, MarksGrow, facts
<1>3. CASE actor.role \in ViewRoles
  <2>1. PICK j : j = [ actor |-> actor, what |-> "task", task |-> task, s |-> Nothing ]
      OBVIOUS
  <2>2. Goes(r, "listDeals", j) /\ HandlingOK'
      BY <1>1, <1>3, <2>1, AwaitGoes DEF WorkspaceInv, CompleteTask, AskWorkspace
  <2>3. IsSummary(j)'
      BY <1>1, <2>1 DEF IsSummary, Nothing
  <2>4. TaskDone(j)'
      BY <1>1, <1>3, <2>1 DEF CompleteTask, TaskDone, WorkspaceInv, WorkspaceTyped
  <2>5. SummaryFits("listDeals", r, j)'
      BY <2>3, <2>4 DEF SummaryFits, SummarySteps, SnapshotTold
  <2> QED BY <1>1, <1>2, <2>2, <2>5, SummaryGoes
<1>4. CASE actor.role \notin ViewRoles
    BY <1>1, <1>4, WorkspaceAnswerKeeps DEF CompleteTask, AskWorkspace, Answered
<1> QED BY <1>3, <1>4

LEMMA AsksKeep ==
    ASSUME WorkspaceInv, NEW r \in Requests, NEW actor \in WorkspaceActors,
           \/ GetSummary(r, actor)
           \/ \E task \in TasksAsked : CompleteTask(r, actor, task)
           \/ \E named \in BOOLEAN : CreateSavedView(r, actor, named)
           \/ CreateCompanyLedgerExport(r, actor)
           \/ ListNotifications(r, actor)
    PROVE  WorkspaceInv'
<1>1. ASSUME NEW named \in BOOLEAN, CreateSavedView(r, actor, named)
      PROVE  WorkspaceInv'
    BY <1>1, WorkspaceAnswerKeeps DEF CreateSavedView, Answered
<1>2. ASSUME NEW what, NEW step \in {"listDeals", "listEmails"},
             AskWorkspace(r, actor, what, None, step), UNCHANGED workspaceVars
      PROVE  WorkspaceInv'
    BY <1>2, AskKeeps DEF workspaceVars
<1>3. CASE GetSummary(r, actor)
    BY <1>2, <1>3 DEF GetSummary
<1>4. CASE CreateCompanyLedgerExport(r, actor)
    BY <1>2, <1>4 DEF CreateCompanyLedgerExport
<1>5. CASE ListNotifications(r, actor)
    BY <1>2, <1>5 DEF ListNotifications
<1> QED BY <1>1, <1>3, <1>4, <1>5, CompleteTaskKeeps

\* The first read: what is marked now has what every earlier answer was asked to mark.
LEMMA ListDealsKeeps ==
    ASSUME WorkspaceInv, NEW r \in Requests, ListCompanyDealProjections(r)
    PROVE  WorkspaceInv'
<1>1. /\ pc[r] = "listDeals" /\ InFlight(r) /\ UNCHANGED <<facts, completed, epoch, shown>>
    BY DEF ListCompanyDealProjections, InFlight
<1>2. PICK j : j = job[r]
    OBVIOUS
<1>3. IsSummary(j) /\ TaskDone(j)
    BY <1>1, <1>2 DEF WorkspaceInv, SummaryFits, SummarySteps
<1>4. PICK org \in Companies : org = j.actor.org
    BY <1>3 DEF IsSummary
<1>5. CASE j.what = "export"
    BY <1>1, <1>2, <1>5, WorkspaceAnswerKeeps DEF ListCompanyDealProjections, Answered
<1>6. CASE j.what # "export"
  <2>0. PICK financed \in SUBSET FinancedBy(org) :
            LET mine == TradedBy(org) \union financed
            IN  \E raised \in SUBSET mine :
                    Await(r, "listOrders",
                        [j EXCEPT !.s =
                            [ Nothing EXCEPT !.deals = [o \in mine |-> orderStatus[o]],
                                             !.delivered = mine \intersect proven,
                                             !.escrows = mine \intersect escrowed,
                                             !.raised = raised, !.done = completed[org],
                                             !.epoch = epoch ]])
      BY <1>2, <1>4, <1>6 DEF ListCompanyDealProjections
  <2>1. PICK mine \in SUBSET DealOrders : mine = TradedBy(org) \union financed
      BY <2>0 DEF TradedBy, FinancedBy
  <2>2. PICK raised \in SUBSET mine :
            Await(r, "listOrders",
                  [j EXCEPT !.s =
                      [ Nothing EXCEPT !.deals = [o \in mine |-> orderStatus[o]],
                                       !.delivered = mine \intersect proven,
                                       !.escrows = mine \intersect escrowed,
                                       !.raised = raised, !.done = completed[org],
                                       !.epoch = epoch ]])
      BY <2>0, <2>1
  <2>3. PICK s : s = [ Nothing EXCEPT !.deals = [o \in mine |-> orderStatus[o]],
                                      !.delivered = mine \intersect proven,
                                      !.escrows = mine \intersect escrowed,
                                      !.raised = raised, !.done = completed[org],
                                      !.epoch = epoch ]
      OBVIOUS
  <2>4. PICK k : k = [j EXCEPT !.s = s]
      OBVIOUS
  <2>5. /\ s.deals = [o \in mine |-> orderStatus[o]] /\ s.delivered = mine \intersect proven
        /\ s.done = completed[org] /\ s.epoch = epoch
        /\ s = [ deals |-> s.deals, delivered |-> s.delivered, escrows |-> s.escrows,
                 raised |-> s.raised, done |-> s.done, epoch |-> s.epoch,
                 orders |-> s.orders, evidence |-> s.evidence, invoices |-> s.invoices ]
      BY <2>3 DEF Nothing
  <2>6. /\ k.s = s /\ k.actor = j.actor /\ k.task = j.task
        /\ k = [ actor |-> k.actor, what |-> k.what, task |-> k.task, s |-> k.s ]
      BY <1>3, <2>4 DEF IsSummary
  <2>7. Goes(r, "listOrders", k) /\ HandlingOK'
      BY <1>1, <2>2, <2>3, <2>4, AwaitGoes DEF WorkspaceInv
  <2>8. IsSummary(k) /\ TaskDone(k)
      BY <1>3, <2>5, <2>6 DEF IsSummary, TaskDone
  <2>9. EarlierDone(r, k)
    <3> SUFFICES ASSUME NEW q \in Requests, shown[q] # None, shown[q].task # None,
                        shown[q].actor.org = k.actor.org, shown[q].s.epoch = k.s.epoch
                 PROVE  shown[q].task \in k.s.done
        BY DEF EarlierDone
    <3>1. AnswerFits(q, shown[q])
        BY DEF WorkspaceInv, ShownFits
    <3> QED BY <1>4, <2>5, <2>6, <3>1 DEF AnswerFits, TaskDone
  <2>10. DealsTold(s)
      BY <2>1, <2>5 DEF DealsTold
  <2>11. SummaryFits("listOrders", r, k)
      BY <2>5, <2>6, <2>8, <2>9, <2>10 DEF SummaryFits, SnapshotTold
  <2>12. FactsGrow /\ MarksGrow /\ WorkspaceTyped' /\ UNCHANGED limit
      BY <1>1, <2>7 DEF FactsGrow, MarksGrow, WorkspaceInv, WorkspaceTyped, facts, Goes
  <2>13. SummaryFits("listOrders", r, k)'
      BY <1>1, <2>11, <2>12, SummaryStays
  <2> QED BY <1>1, <2>7, <2>12, <2>13, SummaryGoes
<1> QED BY <1>5, <1>6

\* A read that goes on with a snapshot that has more in it.
LEMMA ReadKeeps ==
    ASSUME WorkspaceInv, NEW r \in Requests, NEW step \in {"listEvidence", "listInvoices"},
           InFlight(r), pc[r] \in {"listOrders", "listEvidence"}, NEW s,
           Await(r, step, [job[r] EXCEPT !.s = s]), UNCHANGED workspaceVars,
           s = [ deals |-> s.deals, delivered |-> s.delivered, escrows |-> s.escrows,
                 raised |-> s.raised, done |-> s.done, epoch |-> s.epoch,
                 orders |-> s.orders, evidence |-> s.evidence, invoices |-> s.invoices ],
           s.done = job[r].s.done, s.epoch = job[r].s.epoch,
           SnapshotTold(step, s)
    PROVE  WorkspaceInv'
<1>1. PICK j : j = job[r]
    OBVIOUS
<1>2. IsSummary(j) /\ TaskDone(j) /\ j.s.epoch = epoch /\ EarlierDone(r, j)
    BY <1>1 DEF WorkspaceInv, SummaryFits, SummarySteps
<1>3. PICK k : k = [j EXCEPT !.s = s]
    OBVIOUS
<1>4. /\ k.s = s /\ k.actor = j.actor /\ k.task = j.task
      /\ k = [ actor |-> k.actor, what |-> k.what, task |-> k.task, s |-> k.s ]
    BY <1>2, <1>3 DEF IsSummary
<1>5. Goes(r, step, k) /\ HandlingOK'
    BY <1>1, <1>3, AwaitGoes DEF WorkspaceInv
<1>6. IsSummary(k) /\ TaskDone(k)
    BY <1>2, <1>4 DEF IsSummary, TaskDone
<1>7. EarlierDone(r, k)
    BY <1>1, <1>2, <1>4 DEF EarlierDone
<1>8. SummaryFits(step, r, k)
    BY <1>1, <1>2, <1>4, <1>6, <1>7 DEF SummaryFits
<1>9. /\ FactsGrow /\ MarksGrow /\ WorkspaceTyped'
      /\ UNCHANGED <<limit, shown>> /\ UNCHANGED facts
    BY <1>5 DEF FactsGrow, MarksGrow, WorkspaceInv, WorkspaceTyped, workspaceVars, facts, Goes
<1>10. SummaryFits(step, r, k)'
    BY <1>8, <1>9, SummaryStays
<1> QED BY <1>5, <1>9, <1>10, SummaryGoes

LEMMA ListOrdersKeeps ==
    ASSUME WorkspaceInv, NEW r \in Requests, ListOrders(r)
    PROVE  WorkspaceInv'
<1>1. pc[r] = "listOrders" /\ InFlight(r)
    BY DEF ListOrders, InFlight
<1>2. PICK j : j = job[r]
    OBVIOUS
<1>3. IsSummary(j) /\ DealsTold(j.s)
    BY <1>1, <1>2 DEF WorkspaceInv, SummaryFits, SummarySteps, SnapshotTold
<1>4. PICK found : found = [o \in OrdersOf(j.actor) |-> orderStatus[o]]
    OBVIOUS
<1>5. PICK s : s = [j.s EXCEPT !.orders = found]
    OBVIOUS
<1>6. /\ s.deals = j.s.deals /\ s.delivered = j.s.delivered /\ s.orders = found
      /\ s.done = j.s.done /\ s.epoch = j.s.epoch
      /\ s = [ deals |-> s.deals, delivered |-> s.delivered, escrows |-> s.escrows,
               raised |-> s.raised, done |-> s.done, epoch |-> s.epoch,
               orders |-> s.orders, evidence |-> s.evidence, invoices |-> s.invoices ]
    BY <1>3, <1>5 DEF IsSummary
<1>7. Await(r, "listEvidence", [job[r] EXCEPT !.s = s]) /\ UNCHANGED workspaceVars
    BY <1>2, <1>4, <1>5 DEF ListOrders
<1>8. DealsTold(s)
    BY <1>3, <1>6 DEF DealsTold
<1>9. OrdersTold(s)
    BY <1>3, <1>4, <1>6 DEF DealsTold, OrdersTold, OrdersOf
<1>10. SnapshotTold("listEvidence", s)
    BY <1>8, <1>9 DEF SnapshotTold
<1> QED BY <1>1, <1>2, <1>6, <1>7, <1>10, ReadKeeps

LEMMA ListEvidenceKeeps ==
    ASSUME WorkspaceInv, NEW r \in Requests, ListEvidence(r)
    PROVE  WorkspaceInv'
<1>1. pc[r] = "listEvidence" /\ InFlight(r)
    BY DEF ListEvidence, InFlight
<1>2. PICK j : j = job[r]
    OBVIOUS
<1>3. IsSummary(j) /\ DealsTold(j.s) /\ OrdersTold(j.s)
    BY <1>1, <1>2 DEF WorkspaceInv, SummaryFits, SummarySteps, SnapshotTold
<1>4. PICK found : found = Listed(j.s) \intersect proven
    OBVIOUS
<1>5. PICK s : s = [j.s EXCEPT !.evidence = found]
    OBVIOUS
<1>6. /\ s.deals = j.s.deals /\ s.delivered = j.s.delivered /\ s.orders = j.s.orders
      /\ s.evidence = found /\ s.done = j.s.done /\ s.epoch = j.s.epoch
      /\ s = [ deals |-> s.deals, delivered |-> s.delivered, escrows |-> s.escrows,
               raised |-> s.raised, done |-> s.done, epoch |-> s.epoch,
               orders |-> s.orders, evidence |-> s.evidence, invoices |-> s.invoices ]
    BY <1>3, <1>5 DEF IsSummary
<1>7. Await(r, "listInvoices", [job[r] EXCEPT !.s = s]) /\ UNCHANGED workspaceVars
    BY <1>2, <1>4, <1>5 DEF ListEvidence
<1>8. DealsTold(s) /\ OrdersTold(s)
    BY <1>3, <1>6 DEF DealsTold, OrdersTold
<1>9. EvidenceTold(s)
    BY <1>3, <1>4, <1>6 DEF DealsTold, EvidenceTold, Listed
<1>10. SnapshotTold("listInvoices", s)
    BY <1>8, <1>9 DEF SnapshotTold
<1> QED BY <1>1, <1>2, <1>6, <1>7, <1>10, ReadKeeps

\* The last read, and the answer.
LEMMA ListInvoicesKeeps ==
    ASSUME WorkspaceInv, NEW r \in Requests, ListInvoices(r)
    PROVE  WorkspaceInv'
<1>1. /\ pc[r] = "listInvoices" /\ InFlight(r) /\ UNCHANGED <<facts, completed, epoch>>
    BY DEF ListInvoices, InFlight
<1>2. PICK j : j = job[r]
    OBVIOUS
<1>3. /\ IsSummary(j) /\ TaskDone(j) /\ j.s.epoch = epoch /\ EarlierDone(r, j)
      /\ DealsTold(j.s) /\ OrdersTold(j.s) /\ EvidenceTold(j.s)
    BY <1>1, <1>2 DEF WorkspaceInv, SummaryFits, SummarySteps, SnapshotTold
<1>4. PICK found : found =
          [i \in {i \in DealInvoices : invoiceOf[i] # None /\ invoiceOf[i].order \in Listed(j.s)}
               |-> invoiceOf[i]]
    OBVIOUS
<1>5. PICK s : s = [j.s EXCEPT !.invoices = found]
    OBVIOUS
<1>6. /\ s.deals = j.s.deals /\ s.delivered = j.s.delivered /\ s.orders = j.s.orders
      /\ s.evidence = j.s.evidence /\ s.done = j.s.done /\ s.epoch = j.s.epoch
      /\ s.invoices = found
    BY <1>3, <1>5 DEF IsSummary
<1>7. PICK k : k = [j EXCEPT !.s = s]
    OBVIOUS
<1>8. k.s = s /\ k.actor = j.actor /\ k.task = j.task
    BY <1>3, <1>7 DEF IsSummary
<1>9. shown' = [shown EXCEPT ![r] = k] /\ Answer(r, "done")
    BY <1>2, <1>4, <1>5, <1>7 DEF ListInvoices
<1>10. Goes(r, "done", None) /\ HandlingOK' /\ InTurn'
    BY <1>1, <1>9, AnswerGoes, TurnsKept DEF WorkspaceInv, Goes
<1>11. /\ shown'[r] = k /\ WorkspaceTyped'
       /\ \A q \in Requests \ {r} : shown'[q] = shown[q]
    BY <1>1, <1>9 DEF WorkspaceInv, WorkspaceTyped, facts
<1>12. FactsGrow /\ MarksGrow /\ UNCHANGED limit
    BY <1>1, <1>10 DEF FactsGrow, MarksGrow, facts, Goes
<1>13. ASSUME limit = 1, NEW p \in Requests, pc[p] # "idle"
       PROVE  \A q \in Requests : q < p => shown'[q] = shown[q]
  <2>1. r < p => pc[r] \in Answered
      BY <1>13 DEF WorkspaceInv, InTurn
  <2> QED BY <1>1, <1>11, <2>1 DEF Answered
<1>14. ASSUME NEW q \in Requests
       PROVE  SummaryFits(pc[q], q, job[q])'
  <2>1. CASE q = r
      BY <1>10, <2>1 DEF Goes, SummaryFits, SummarySteps
  <2>2. CASE q # r
    <3>1. PICK at, l : at = pc[q] /\ l = job[q]
        OBVIOUS
    <3>2. SummaryFits(at, q, l)
        BY <3>1 DEF WorkspaceInv
    <3>3. at = pc'[q] /\ l = job'[q]
        BY <1>10, <2>2, <3>1 DEF Goes, Moves
    <3>4. CASE at \in SummarySteps
      <4>1. pc[q] # "idle"
          BY <3>1, <3>4 DEF SummarySteps
      <4>2. SummaryFits(at, q, l)'
          BY <1>12, <1>13, <3>2, <4>1, SummaryStays
      <4> QED BY <3>3, <4>2
    <3>5. CASE at \notin SummarySteps
        BY <3>3, <3>5 DEF SummaryFits
    <3> QED BY <3>4, <3>5
  <2> QED BY <2>1, <2>2
<1>15. AnswerFits(r, k)'
  <2>1. DealsTold(s) /\ OrdersTold(s) /\ EvidenceTold(s)
      BY <1>3, <1>6 DEF DealsTold, OrdersTold, EvidenceTold
  <2>2. InvoicesTold(s)
      BY <1>4, <1>6 DEF InvoicesTold, Listed
  <2>3. SnapshotTold("done", k.s)
      BY <1>8, <2>1, <2>2 DEF SnapshotTold
  <2>4. TaskDone(k) /\ k.actor.org \in Companies /\ EarlierDone(r, k)
      BY <1>3, <1>6, <1>8 DEF TaskDone, EarlierDone, IsSummary
  <2>5. k.s.epoch \in Nat /\ k.s.epoch <= epoch
      BY <1>3, <1>6, <1>8 DEF WorkspaceInv, WorkspaceTyped
  <2>6. AnswerFits(r, k)
      BY <2>3, <2>4, <2>5 DEF AnswerFits
  <2>7. pc[r] # "idle"
      BY <1>1
  <2> QED BY <1>12, <1>13, <2>6, <2>7, AnswerStays
<1>16. ASSUME NEW q \in Requests, shown'[q] # None
       PROVE  pc'[q] # "idle" /\ AnswerFits(q, shown[q])'
  <2>1. CASE q = r
      BY <1>10, <1>11, <1>15, <2>1 DEF Goes
  <2>2. CASE q # r
    <3>1. PICK l : l = shown[q]
        OBVIOUS
    <3>2. l = shown'[q] /\ l # None /\ pc'[q] = pc[q]
        BY <1>10, <1>11, <1>16, <2>2, <3>1 DEF Goes, Moves
    <3>3. pc[q] # "idle" /\ AnswerFits(q, l)
        BY <3>1, <3>2 DEF WorkspaceInv, ShownFits
    <3>4. AnswerFits(q, l)'
        BY <1>12, <1>13, <3>3, AnswerStays
    <3> QED BY <3>2, <3>3, <3>4
  <2> QED BY <2>1, <2>2
<1> QED BY <1>10, <1>11, <1>14, <1>16 DEF WorkspaceInv, ShownFits

\* Another module writes, or nothing happens.
LEMMA OthersKeepSummaries ==
    ASSUME WorkspaceInv, OthersWrite \/ UNCHANGED workspaceState
    PROVE  WorkspaceInv'
<1>1. UNCHANGED <<pc, job, limit, completed, epoch, shown>>
    BY DEF OthersWrite, workspaceState, workspaceVars, handling
<1>2. FactsGrow /\ orderStatus' = [o \in DealOrders |-> orderStatus'[o]]
  <2>1. ASSUME NEW o \in DealOrders, NEW status \in {"accepted", "rejected"},
               Acknowledge(o, status)
        PROVE  FactsGrow /\ orderStatus' = [p \in DealOrders |-> orderStatus'[p]]
      BY <2>1 DEF Acknowledge, FactsGrow, WorkspaceInv, WorkspaceTyped
  <2>2. CASE orderStatus' = orderStatus /\ proven \subseteq proven'
      BY <2>2 DEF FactsGrow, WorkspaceInv, WorkspaceTyped
  <2>3. \/ orderStatus' = orderStatus /\ proven \subseteq proven'
        \/ \E o \in DealOrders, status \in {"accepted", "rejected"} : Acknowledge(o, status)
      BY DEF OthersWrite, ProveDelivery, OpenEscrow, WriteInvoice, workspaceState,
             workspaceVars, facts
  <2> QED BY <2>1, <2>2, <2>3
<1>3. MarksGrow /\ WorkspaceTyped' /\ HandlingOK' /\ InTurn'
    BY <1>1, <1>2 DEF MarksGrow, WorkspaceInv, WorkspaceTyped, HandlingOK, InTurn
<1>4. ASSUME NEW q \in Requests
      PROVE  SummaryFits(pc[q], q, job[q])'
  <2>1. PICK at, k : at = pc[q] /\ k = job[q]
      OBVIOUS
  <2>2. SummaryFits(at, q, k)
      BY <2>1 DEF WorkspaceInv
  <2>3. SummaryFits(at, q, k)'
      BY <1>1, <1>2, <1>3, <2>2, SummaryStays
  <2> QED BY <1>1, <2>1, <2>3
<1>5. ASSUME NEW q \in Requests, shown'[q] # None
      PROVE  pc'[q] # "idle" /\ AnswerFits(q, shown[q])'
  <2>1. PICK k : k = shown[q]
      OBVIOUS
  <2>2. pc[q] # "idle" /\ AnswerFits(q, k)
      BY <1>1, <1>5, <2>1 DEF WorkspaceInv, ShownFits
  <2>3. AnswerFits(q, k)'
      BY <1>1, <1>2, <1>3, <2>2, AnswerStays
  <2> QED BY <1>1, <2>1, <2>2, <2>3
<1> QED BY <1>3, <1>4, <1>5 DEF WorkspaceInv, ShownFits

\* The process ends: every answer is of an earlier one now.
LEMMA RestartKeepsSummaries ==
    ASSUME WorkspaceInv, RestartWorkspace,
           Crash \/ (~(\E r \in Requests : InFlight(r)) /\ UNCHANGED handling)
    PROVE  WorkspaceInv'
<1>1. /\ epoch' = epoch + 1 /\ UNCHANGED <<facts, shown, limit>>
      /\ completed' = [c \in Companies |-> {}]
    BY DEF RestartWorkspace, Crash, handling
<1>2. HandlingOK' /\ InTurn'
    BY CrashStops, TurnsKeptByCrash DEF WorkspaceInv, HandlingOK, InTurn, handling
<1>3. WorkspaceTyped'
    BY <1>1 DEF WorkspaceInv, WorkspaceTyped, facts
<1>4. \A q \in Requests : /\ pc'[q] \notin SummarySteps
                          /\ pc[q] # "idle" => pc'[q] # "idle"
    BY DEF Crash, InFlight, SummarySteps, handling
<1>5. FactsGrow
    BY <1>1 DEF FactsGrow, facts
<1>6. ASSUME NEW q \in Requests, shown'[q] # None
      PROVE  pc'[q] # "idle" /\ AnswerFits(q, shown[q])'
  <2>1. PICK k : k = shown[q]
      OBVIOUS
  <2>2. pc[q] # "idle" /\ AnswerFits(q, k)
      BY <1>1, <1>6, <2>1 DEF WorkspaceInv, ShownFits
  <2>3. SnapshotTold("done", k.s)'
      BY <1>5, <2>2, SnapshotStaysTold DEF AnswerFits
  <2>4. EarlierDone(q, k)'
      BY <1>1, <2>2, EarlierStays DEF AnswerFits
  <2>5. k.s.epoch \in Nat /\ k.s.epoch <= epoch' /\ k.s.epoch # epoch'
      BY <1>1, <2>2 DEF AnswerFits, WorkspaceInv, WorkspaceTyped
  <2>6. AnswerFits(q, k)'
      BY <2>2, <2>3, <2>4, <2>5 DEF AnswerFits
  <2> QED BY <1>1, <1>4, <2>1, <2>2, <2>6
<1> QED BY <1>2, <1>3, <1>4, <1>6 DEF WorkspaceInv, SummaryFits, ShownFits

\* Whatever a handler has read of the records is still so, and so is what it marked,
\* until the process ends.
THEOREM WorkspaceInvariantHolds == WorkspaceSpec => []WorkspaceInv
<1>1. HandlingInit /\ WorkspaceInit => WorkspaceInv
  <2> SUFFICES ASSUME HandlingInit, WorkspaceInit PROVE WorkspaceInv
      OBVIOUS
  <2>1. HandlingOK /\ InTurn /\ \A r \in Requests : pc[r] \in {"idle", "done"}
      BY InitialTurns
  <2>2. WorkspaceTyped /\ \A r \in Requests : shown[r] = None
      BY DEF WorkspaceInit, WorkspaceTyped
  <2> QED BY <2>1, <2>2 DEF WorkspaceInv, SummaryFits, SummarySteps, ShownFits
<1>2. WorkspaceInv /\ [WorkspaceNext]_workspaceState => WorkspaceInv'
  <2> SUFFICES ASSUME WorkspaceInv, [WorkspaceNext]_workspaceState PROVE WorkspaceInv'
      OBVIOUS
  <2>1. ASSUME NEW r \in Requests, WorkspaceStep(r)
        PROVE  WorkspaceInv'
    <3>1. CASE ListEmails(r)
        BY <3>1, WorkspaceAnswerKeeps DEF ListEmails, InFlight, Answered, workspaceVars
    <3> QED BY <2>1, <3>1, AsksKeep, ListDealsKeeps, ListOrdersKeeps, ListEvidenceKeeps,
               ListInvoicesKeeps DEF WorkspaceStep
  <2>2. ASSUME NEW r \in Requests, QueryFails(r), UNCHANGED workspaceVars
        PROVE  WorkspaceInv'
      BY <2>2, WorkspaceAnswerKeeps DEF QueryFails, Answered, workspaceVars
  <2> QED BY <2>1, <2>2, OthersKeepSummaries, RestartKeepsSummaries DEF WorkspaceNext
<1> QED BY <1>1, <1>2, PTL DEF WorkspaceSpec

-----------------------------------------------------------------------------
(* What a summary computes from such a snapshot.                           *)

LEMMA InvoiceNeededTask ==
    ASSUME NEW s, NEW o, [ kind |-> "invoice-needed", of |-> o ] \in AppendRecordDrivenTasks(s)
    PROVE  s.orders[o] = "accepted" /\ InvoicesFor(s, o) = {}
<1>1. PICK task : task = [ kind |-> "invoice-needed", of |-> o ]
    OBVIOUS
<1>2. task.kind = "invoice-needed" /\ task.of = o
    BY <1>1
<1>3. \A t \in BuildActionInbox(s) : t.kind # "invoice-needed"
    BY DEF BuildActionInbox, DealTask
<1>4. PICK failed : failed = CHOOSE i \in Exceptional(s) : TRUE
    OBVIOUS
<1>5. [ kind |-> "invoice-exception", of |-> failed ].kind = "invoice-exception"
    OBVIOUS
<1>6. task # [ kind |-> "invoice-exception", of |-> failed ]
    BY <1>2, <1>5
<1>7. task \in AppendRecordDrivenTasks(s)
    BY <1>1
<1>8. task \in DealTask("invoice-needed",
                        {p \in Listed(s) : s.orders[p] = "accepted" /\ InvoicesFor(s, p) = {}})
    BY <1>2, <1>3, <1>4, <1>6, <1>7 DEF AppendRecordDrivenTasks
<1>9. PICK p \in Listed(s) : /\ s.orders[p] = "accepted" /\ InvoicesFor(s, p) = {}
                             /\ task = [ kind |-> "invoice-needed", of |-> p ]
    BY <1>8 DEF DealTask
<1> QED BY <1>2, <1>9

LEMMA ExceptionTask ==
    ASSUME NEW s
    PROVE  (\E t \in AppendRecordDrivenTasks(s) : t.kind = "invoice-exception")
               <=> Exceptional(s) # {}
<1>1. \A t \in BuildActionInbox(s) : t.kind # "invoice-exception"
    BY DEF BuildActionInbox, DealTask
<1>2. ASSUME NEW os, NEW t \in DealTask("invoice-needed", os)
      PROVE  t.kind # "invoice-exception"
    BY DEF DealTask
<1>3. PICK failed : failed = CHOOSE i \in Exceptional(s) : TRUE
    OBVIOUS
<1>4. [ kind |-> "invoice-exception", of |-> failed ].kind = "invoice-exception"
    OBVIOUS
<1> QED BY <1>1, <1>2, <1>3, <1>4 DEF AppendRecordDrivenTasks

Failing(s, c) == {i \in Exceptional(s) : PartiesOf[s.invoices[i].order].supplier = c}

LEMMA CardsCount ==
    ASSUME NEW s, InvoicesTold(s), NEW o \in Listed(s)
    PROVE  LET cards == BuildSupplierScorecardsFromRecords(s)
               c == PartiesOf[o].supplier
           IN  c \in DOMAIN cards /\ (cards[c].exceptions > 0 <=> Failing(s, c) # {})
<1>1. PICK c : c = PartiesOf[o].supplier
    OBVIOUS
<1>2. Failing(s, c) \subseteq DealInvoices
    BY DEF Failing, Exceptional, InvoicesTold
<1>3. IsFiniteSet(Failing(s, c))
    BY <1>2, WorkspaceAssumption, FS_Subset
<1>4. Cardinality(Failing(s, c)) > 0 <=> Failing(s, c) # {}
    BY <1>3, FS_CardinalityType, FS_EmptySet
<1>5. c \in {PartiesOf[p].supplier : p \in Listed(s)}
    BY <1>1
<1>6. /\ c \in DOMAIN BuildSupplierScorecardsFromRecords(s)
      /\ BuildSupplierScorecardsFromRecords(s)[c].exceptions = Cardinality(Failing(s, c))
    BY <1>5 DEF BuildSupplierScorecardsFromRecords, Failing
<1> QED BY <1>1, <1>4, <1>6

LEMMA CardsTell ==
    ASSUME NEW s, InvoicesTold(s)
    PROVE  LET cards == BuildSupplierScorecardsFromRecords(s)
           IN  (\E c \in DOMAIN cards : cards[c].exceptions > 0) <=> Exceptional(s) # {}
<1> DEFINE cards == BuildSupplierScorecardsFromRecords(s)
<1>1. ASSUME NEW c \in DOMAIN cards, cards[c].exceptions > 0
      PROVE  Exceptional(s) # {}
  <2>1. PICK o \in Listed(s) : c = PartiesOf[o].supplier
      BY <1>1 DEF BuildSupplierScorecardsFromRecords
  <2>2. Failing(s, c) # {}
      BY <1>1, <2>1, CardsCount
  <2> QED BY <2>2 DEF Failing
<1>2. ASSUME NEW i \in Exceptional(s)
      PROVE  \E c \in DOMAIN cards : cards[c].exceptions > 0
  <2>1. PICK o \in Listed(s) : o = s.invoices[i].order
      BY DEF Exceptional, InvoicesTold, Listed
  <2>2. i \in Failing(s, PartiesOf[o].supplier)
      BY <2>1 DEF Failing
  <2> QED BY <2>1, <2>2, CardsCount
<1> QED BY <1>1, <1>2

LEMMA MoneyTells ==
    ASSUME NEW s, InvoicesTold(s)
    PROVE  BuildMoneyTrackerFromRecords(s).incoming = "failed" <=> Exceptional(s) # {}
<1>1. CASE Listed(s) = {}
  <2>1. Exceptional(s) = {}
      BY <1>1 DEF Exceptional, InvoicesTold, Listed
  <2>2. BuildMoneyTracker(s).incoming # "failed"
      BY DEF BuildMoneyTracker
  <2> QED BY <1>1, <2>1, <2>2 DEF BuildMoneyTrackerFromRecords
<1>2. CASE Listed(s) # {}
    BY <1>2 DEF BuildMoneyTrackerFromRecords
<1> QED BY <1>1, <1>2

LEMMA DealsShown ==
    ASSUME NEW s, NEW o \in DOMAIN s.deals
    PROVE  /\ BuildPipeline(s)[o].accepted = "complete" <=> s.deals[o] = "accepted"
           /\ BuildPipeline(s)[o].evidence = "complete" <=> o \in s.delivered
BY DEF BuildPipeline, Stage

LEMMA RecordsShown ==
    ASSUME NEW s, NEW o \in Listed(s)
    PROVE  /\ BuildRecordPipeline(s)[o].accepted = "complete" <=> s.orders[o] = "accepted"
           /\ BuildRecordPipeline(s)[o].evidence = "complete" <=> o \in s.evidence
           /\ BuildRecordPipeline(s)[o].verified = "blocked" =>
                  InvoicesFor(s, o) \intersect Exceptional(s) # {}
           /\ InvoicesFor(s, o) = {} =>
                  BuildEvidenceChecklistFromRecords(s)[o].invoice = "missing"
BY DEF BuildRecordPipeline, BuildEvidenceChecklistFromRecords, Stage, Matched

\* A summary never shows less of an order than of its deal, and nothing as done that is
\* undone later; its money, inbox and scorecards tell the same of failed matches; what was
\* marked completed before is so in it.
THEOREM SummariesTellAlike == WorkspaceSpec => []SummariesAgree
<1>1. WorkspaceInv => SummariesAgree
  <2> SUFFICES ASSUME WorkspaceInv, NEW r \in Requests, shown[r] # None
               PROVE  LET s == shown[r].s
                          inbox == AppendRecordDrivenTasks(s)
                          records == BuildRecordPipeline(s)
                          cards == BuildSupplierScorecardsFromRecords(s)
                          money == BuildMoneyTrackerFromRecords(s)
                      IN  /\ \A o \in DOMAIN s.deals :
                              /\ BuildPipeline(s)[o].accepted = "complete" =>
                                     /\ orderStatus[o] = "accepted"
                                     /\ o \in Listed(s) => records[o].accepted = "complete"
                              /\ BuildPipeline(s)[o].evidence = "complete" =>
                                     /\ o \in proven
                                     /\ o \in Listed(s) => records[o].evidence = "complete"
                          /\ \A o \in Listed(s) :
                              /\ records[o].accepted = "complete" => orderStatus[o] = "accepted"
                              /\ records[o].evidence = "complete" => o \in proven
                              /\ [ kind |-> "invoice-needed", of |-> o ] \in inbox =>
                                     /\ records[o].accepted = "complete"
                                     /\ BuildEvidenceChecklistFromRecords(s)[o].invoice
                                            = "missing"
                              /\ records[o].verified = "blocked" =>
                                     cards[PartiesOf[o].supplier].exceptions > 0
                          /\ money.incoming = "failed"
                                 <=> \E t \in inbox : t.kind = "invoice-exception"
                          /\ money.incoming = "failed"
                                 <=> \E c \in DOMAIN cards : cards[c].exceptions > 0
                          /\ shown[r].task # None /\ s.epoch = epoch =>
                                 shown[r].task \in completed[shown[r].actor.org]
                          /\ \A q \in Requests :
                                 /\ limit = 1 /\ q < r
                                 /\ shown[q] # None /\ shown[q].task # None
                                 /\ shown[q].actor.org = shown[r].actor.org
                                 /\ shown[q].s.epoch = s.epoch
                                 => shown[q].task \in s.done
      BY DEF SummariesAgree
  <2>1. PICK j : j = shown[r]
      OBVIOUS
  <2>2. PICK s : s = j.s
      OBVIOUS
  <2>3. AnswerFits(r, j)
      BY <2>1 DEF WorkspaceInv, ShownFits
  <2>4. DealsTold(s) /\ OrdersTold(s) /\ EvidenceTold(s) /\ InvoicesTold(s)
      BY <2>2, <2>3 DEF AnswerFits, SnapshotTold
  <2>5. ASSUME NEW o \in DOMAIN s.deals
        PROVE  /\ BuildPipeline(s)[o].accepted = "complete" =>
                      /\ orderStatus[o] = "accepted"
                      /\ o \in Listed(s) => BuildRecordPipeline(s)[o].accepted = "complete"
               /\ BuildPipeline(s)[o].evidence = "complete" =>
                      /\ o \in proven
                      /\ o \in Listed(s) => BuildRecordPipeline(s)[o].evidence = "complete"
      BY <2>4, DealsShown, RecordsShown DEF DealsTold, OrdersTold, EvidenceTold, Listed
  <2>6. ASSUME NEW o \in Listed(s)
        PROVE  /\ BuildRecordPipeline(s)[o].accepted = "complete" => orderStatus[o] = "accepted"
               /\ BuildRecordPipeline(s)[o].evidence = "complete" => o \in proven
               /\ [ kind |-> "invoice-needed", of |-> o ] \in AppendRecordDrivenTasks(s) =>
                      /\ BuildRecordPipeline(s)[o].accepted = "complete"
                      /\ BuildEvidenceChecklistFromRecords(s)[o].invoice = "missing"
      BY <2>4, RecordsShown, InvoiceNeededTask DEF OrdersTold, EvidenceTold, Listed
  <2>7. ASSUME NEW o \in Listed(s), BuildRecordPipeline(s)[o].verified = "blocked"
        PROVE  BuildSupplierScorecardsFromRecords(s)[PartiesOf[o].supplier].exceptions > 0
    <3>1. PICK i \in InvoicesFor(s, o) : i \in Exceptional(s)
        BY <2>7, RecordsShown
    <3>2. i \in Failing(s, PartiesOf[o].supplier)
        BY <3>1 DEF InvoicesFor, Failing
    <3> QED BY <2>4, <3>2, CardsCount
  <2>8. /\ BuildMoneyTrackerFromRecords(s).incoming = "failed"
               <=> \E t \in AppendRecordDrivenTasks(s) : t.kind = "invoice-exception"
        /\ BuildMoneyTrackerFromRecords(s).incoming = "failed"
               <=> \E c \in DOMAIN BuildSupplierScorecardsFromRecords(s) :
                       BuildSupplierScorecardsFromRecords(s)[c].exceptions > 0
      BY <2>4, MoneyTells, ExceptionTask, CardsTell
  <2>9. /\ j.task # None /\ s.epoch = epoch => j.task \in completed[j.actor.org]
        /\ \A q \in Requests :
               /\ limit = 1 /\ q < r
               /\ shown[q] # None /\ shown[q].task # None
               /\ shown[q].actor.org = j.actor.org
               /\ shown[q].s.epoch = s.epoch
               => shown[q].task \in s.done
      BY <2>2, <2>3 DEF AnswerFits, TaskDone, EarlierDone
  <2> QED BY <2>1, <2>2, <2>5, <2>6, <2>7, <2>8, <2>9
<1> QED BY <1>1, WorkspaceInvariantHolds, PTL
=============================================================================
