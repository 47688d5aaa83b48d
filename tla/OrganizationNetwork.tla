------------------------ MODULE OrganizationNetwork ------------------------
(***************************************************************************)
(* Organizations register with a first administrator, invite users, and    *)
(* establish relationships by network requests the target accepts or       *)
(* rejects.  Registration, invitation and decision are written as          *)
(* transactions, one query at a time, on the connections of the pool.      *)
(*                                                                         *)
(* An organization, a user and a network request have the number of the    *)
(* request that inserted them as their identity.                           *)
(***************************************************************************)
EXTENDS ConnectionPool

CONSTANTS
    Registrations,      \* [identifier, number, username] clients register with
    SeededRegistrations,
    SeededSent,         \* [id, from, to, type]: network requests sent before
    Invitations,        \* [username, roles], roles a sequence of role codes
    RelationshipTypes,
    Aliases,            \* what profiles are changed to
    Actors              \* [org, roles] of the sessions clients use

ASSUME NetworkAssumption ==
    /\ SeededRegistrations \in [1..Seeded -> Registrations]
    /\ \A r, s \in 1..Seeded : r # s =>
           /\ SeededRegistrations[r].identifier # SeededRegistrations[s].identifier
           /\ SeededRegistrations[r].number # SeededRegistrations[s].number
           /\ SeededRegistrations[r].username # SeededRegistrations[s].username
    /\ SeededSent \subseteq
           [ id : 1..Seeded, from : 1..Seeded, to : 1..Seeded, type : RelationshipTypes ]
    /\ \A q, p \in SeededSent :
           q.id = p.id \/ <<q.from, q.to>> = <<p.from, p.to>> => q = p
    /\ \A i \in Invitations : i.roles \in Seq(STRING)
    /\ \A a \in Actors : a.org \in Requests

HasAnyRole(actor, allowed) == actor.roles \intersect allowed # {}

CanManageOrganization(actor) ==
    HasAnyRole(actor, {"administrator", "organizationAdmin"})

CanRequestNetwork(actor) ==
    HasAnyRole(actor, {"administrator", "organizationAdmin", "buyer", "supplier",
                       "financier"})

-----------------------------------------------------------------------------
(* Rows.                                                                   *)

\* Fault: no unique index on the active request of a pair.
ClaimsWithoutPair(k, v) ==
    {k} \union
    ( IF k[1] = "organization"
      THEN {<<"identifier", v.identifier>>, <<"number", v.number>>}
      ELSE IF k[1] = "credential" THEN {<<"username", v>>}
      ELSE {} )

\* The entries of a row in the unique indexes, with the row's own key.
Claims(k, v) ==
    {k} \union
    ( IF k[1] = "organization"
      THEN {<<"identifier", v.identifier>>, <<"number", v.number>>}
      ELSE IF k[1] = "credential" THEN {<<"username", v>>}
      ELSE IF k[1] = "request" /\ v.state = "sent" THEN {<<"pair", v.from, v.to>>}
      ELSE {} )

\* A write: of a new row, of a row that may be there (ON CONFLICT DO UPDATE),
\* of a row unless it is there (ON CONFLICT DO NOTHING), or of some columns.
Insert(k, v) == [ how |-> "insert", key |-> k, value |-> v ]
Upsert(k, v) == [ how |-> "upsert", key |-> k, value |-> v ]
InsertMissing(k, v) == [ how |-> "insertMissing", key |-> k, value |-> v ]
Update(k, v) == [ how |-> "update", key |-> k, value |-> v ]

Grant(user, org, role) ==
    << Upsert(<<"role", role>>, "active"),
       Upsert(<<"assignment", user, role>>, org) >>

RegistrationWrites(r, ask) ==
    << Insert(<<"organization", r>>,
              [ identifier |-> ask.identifier, number |-> ask.number, alias |-> None ]),
       Insert(<<"user", r>>, "active"),
       Insert(<<"credential", r>>, ask.username),
       Upsert(<<"role", "organizationAdmin">>, "active"),
       Insert(<<"membership", r>>, r),
       Insert(<<"assignment", r, "organizationAdmin">>, r),
       Insert(<<"case", r>>, "submitted") >>

InvitationWrites(r, ask) ==
    LET grants == [ i \in 1..(2 * Len(ask.roles)) |->
                      Grant(r, ask.actor.org, ask.roles[(i + 1) \div 2])[2 - (i % 2)] ]
    IN  << Insert(<<"user", r>>, "active"),
           Insert(<<"credential", r>>, ask.username),
           Insert(<<"membership", r>>, ask.actor.org) >>
        \o grants
        \o << Insert(<<"email", r>>, ask.actor.org) >>

RequestWrites(r, ask, target) ==
    << Insert(<<"request", r>>, [ from |-> ask.actor.org, to |-> target, type |-> ask.type,
                                  state |-> "sent", by |-> None ]),
       Insert(<<"email", r>>, target) >>

\* The request's row is updated whatever its state has become meanwhile.
DecisionWrites(r, ask, row) ==
    << Update(<<"request", ask.of>>, [ state |-> ask.decision, by |-> r ]) >>
    \o (IF ask.decision = "accepted"
        THEN << InsertMissing(<<"relationship", row.from, row.to, row.type>>, r) >>
        ELSE <<>>)
    \o << Insert(<<"email", r>>, row.from) >>

Merged(writes) ==
    [ k \in {writes[i].key : i \in DOMAIN writes} |->
        writes[CHOOSE i \in DOMAIN writes : writes[i].key = k].value ]

SeededAsk(r) ==
    [ identifier |-> SeededRegistrations[r].identifier,
      number |-> SeededRegistrations[r].number,
      username |-> SeededRegistrations[r].username ]

Job(ask) == [ ask |-> ask, todo |-> <<>>, missed |-> FALSE ]

Init ==
    /\ PoolInit
    /\ job = [r \in Requests |-> None]
    /\ db = LET organizations ==
                  [ k \in UNION {DOMAIN Merged(RegistrationWrites(r, SeededAsk(r))) :
                                     r \in 1..Seeded} |->
                      LET r == IF k[1] = "role" THEN 1 ELSE k[2]
                      IN  Merged(RegistrationWrites(r, SeededAsk(r)))[k] ]
                sent == [ k \in {<<"request", q.id>> : q \in SeededSent} |->
                      LET q == CHOOSE q \in SeededSent : q.id = k[2]
                      IN  [ from |-> q.from, to |-> q.to, type |-> q.type,
                            state |-> "sent", by |-> None ] ]
            IN  Over(sent, organizations)

-----------------------------------------------------------------------------
(* Requests arrive.  Each handler reads first.                             *)

\* POST /organizations/register needs no session.
Register(r) ==
    \E g \in Registrations :
        Arrive(r, "findIdentifier",
               Job([ identifier |-> g.identifier, number |-> g.number,
                     username |-> g.username, kind |-> "register" ]))

\* POST /organizations/me/users
Invite(r) ==
    \E a \in Actors, i \in Invitations :
        /\ CanManageOrganization(a)
        /\ Arrive(r, "findOrganization",
                  Job([ username |-> i.username, roles |-> i.roles, actor |-> a,
                        kind |-> "invite" ]))

\* POST /organization-network/requests
SendRequest(r) ==
    \E a \in Actors, g \in Registrations, type \in RelationshipTypes :
        /\ CanRequestNetwork(a)
        /\ Arrive(r, "findTarget",
                  Job([ identifier |-> g.identifier, type |-> type, actor |-> a,
                        kind |-> "send" ]))

\* POST /organization-network/requests/:requestId/accept and /reject
Decide(r) ==
    \E a \in Actors, q \in Requests, d \in {"accepted", "rejected"} :
        /\ CanRequestNetwork(a)
        /\ <<"request", q>> \in DOMAIN db
        /\ Arrive(r, "readRequest",
                  Job([ actor |-> a, of |-> q, decision |-> d, kind |-> "decide" ]))

\* PATCH /organizations/me/profile
UpdateProfile(r) ==
    \E a \in Actors, alias \in Aliases :
        /\ CanManageOrganization(a)
        /\ Arrive(r, "findOrganization", Job([ alias |-> alias, actor |-> a, kind |-> "profile" ]))

-----------------------------------------------------------------------------
(* Reads before the writes.                                                *)

Sees(r) == View(held[r])

OrganizationsWith(rows, identifier) ==
    { o \in Requests : /\ <<"organization", o>> \in DOMAIN rows
                       /\ rows[<<"organization", o>>].identifier = identifier }

FindIdentifier(r) ==
    /\ Runs(r, "findIdentifier")
    /\ IF OrganizationsWith(Sees(r), job[r].ask.identifier) = {}
       THEN Continue(r, "findUsername", job[r])
       ELSE Answer(r, "refused")
    /\ Reads

WritesOf(r) ==
    IF job[r].ask.kind = "register" THEN RegistrationWrites(r, job[r].ask)
    ELSE InvitationWrites(r, job[r].ask)

FindOrganization(r) ==
    /\ Runs(r, "findOrganization")
    /\ LET k == <<"organization", job[r].ask.actor.org>>
       IN  IF k \notin DOMAIN Sees(r) THEN Answer(r, "refused")
           ELSE IF job[r].ask.kind = "profile"
           THEN Continue(r, "store",
                    [job[r] EXCEPT !.todo = << Update(k, [ alias |-> job[r].ask.alias ]) >>])
           ELSE Continue(r, "findUsername", job[r])
    /\ Reads

FindUsername(r) ==
    /\ Runs(r, "findUsername")
    /\ IF \E u \in Requests : /\ <<"credential", u>> \in DOMAIN Sees(r)
                              /\ Sees(r)[<<"credential", u>>] = job[r].ask.username
       THEN Answer(r, "refused")
       ELSE Continue(r, "begin", [job[r] EXCEPT !.todo = WritesOf(r)])
    /\ Reads

FindTarget(r) ==
    /\ Runs(r, "findTarget")
    /\ LET found == OrganizationsWith(Sees(r), job[r].ask.identifier)
       IN  IF found \ {job[r].ask.actor.org} = {}
           THEN Answer(r, "refused")
           ELSE Continue(r, "findActive",
                    [job[r] EXCEPT !.todo =
                        RequestWrites(r, job[r].ask, CHOOSE o \in found : TRUE)])
    /\ Reads

\* The check for a request sent and not yet decided.  No code writes the
\* state "received".
FindActive(r) ==
    /\ Runs(r, "findActive")
    /\ LET new == job[r].todo[1].value
       IN  IF \E q \in Requests :
                  /\ <<"request", q>> \in DOMAIN Sees(r)
                  /\ LET row == Sees(r)[<<"request", q>>]
                     IN  row.from = new.from /\ row.to = new.to /\ row.state = "sent"
           THEN Answer(r, "refused")
           ELSE Continue(r, "store", job[r])
    /\ Reads

\* Fault: a decided request may be decided again.
ReadRequestInAnyState(r) ==
    /\ Runs(r, "readRequest")
    /\ LET k == <<"request", job[r].ask.of>>
       IN  IF /\ k \in DOMAIN Sees(r)
              /\ Sees(r)[k].to = job[r].ask.actor.org
           THEN Continue(r, "begin",
                    [job[r] EXCEPT !.todo = DecisionWrites(r, job[r].ask, Sees(r)[k])])
           ELSE Answer(r, "refused")
    /\ Reads

ReadRequest(r) ==
    /\ Runs(r, "readRequest")
    /\ LET k == <<"request", job[r].ask.of>>
       IN  IF /\ k \in DOMAIN Sees(r)
              /\ Sees(r)[k].to = job[r].ask.actor.org
              /\ Sees(r)[k].state = "sent"
           THEN Continue(r, "begin",
                    [job[r] EXCEPT !.todo = DecisionWrites(r, job[r].ask, Sees(r)[k])])
           ELSE Answer(r, "refused")
    /\ Reads

-----------------------------------------------------------------------------
(* Transactions and writes.                                                *)

\* What follows a failed query: the catch clause of a transaction sends a
\* ROLLBACK, on another connection.
Throw(r) ==
    IF pc[r] \in {"write", "commit"}
    THEN ContinueAnew(r, "rollback", job[r])
    ELSE AnswerFailed(r)

BeginTransaction(r) ==
    /\ Runs(r, "begin")
    /\ Begin(held[r])
    /\ Continue(r, "write", job[r])

Writing(r) ==
    /\ \/ Runs(r, "write")
       \/ Runs(r, "store")
    /\ job[r].todo # <<>>

Needs(w) == IF w.how = "update" THEN {w.key} ELSE Claims(w.key, w.value)

Waits(r) == Writing(r) /\ Blockers(held[r], Needs(Head(job[r].todo)), Claims) # {}

\* Whether a row the statement sees has an entry of the new row.
Clashes(w, rows) ==
    /\ w.how = "insert"
    /\ \E k \in DOMAIN rows : Claims(k, rows[k]) \intersect Claims(w.key, w.value) # {}

Changes(w, rows) ==
    IF w.how = "update"
    THEN [ k \in {w.key} \intersect DOMAIN rows |-> Over(w.value, rows[k]) ]
    ELSE IF w.how = "insertMissing" /\ w.key \in DOMAIN rows THEN <<>>
    ELSE [ k \in {w.key} |-> w.value ]

AfterWrite(r) ==
    IF Len(job[r].todo) > 1 THEN pc[r]
    ELSE IF pc[r] = "write" THEN "commit"
    ELSE IF job[r].ask.kind = "profile" THEN "readBack"
    ELSE "end"

\* One INSERT or UPDATE.  An update that finds no row is noticed later, when
\* the handler uses the row it expects to have back.
WriteRow(r) ==
    /\ Writing(r)
    /\ ~Waits(r)
    /\ LET w == Head(job[r].todo)
           rows == Sees(r)
       IN  IF Clashes(w, rows)
           THEN /\ Fails(held[r])
                /\ Throw(r)
           ELSE /\ Write(held[r], Changes(w, rows))
                /\ IF AfterWrite(r) = "end"
                   THEN Answer(r, "done")
                   ELSE Continue(r, AfterWrite(r),
                            [job[r] EXCEPT
                                !.todo = Tail(@),
                                !.missed = @ \/ (w.how = "update" /\ w.key \notin DOMAIN rows)])

\* Fault: a decision returns its row before COMMIT.
CommitUnlessDecided(r) ==
    /\ pc[r] = "commit"
    /\ held[r] # None
    /\ IF job[r].ask.kind # "decide"
       THEN Commit(held[r]) /\ Continue(r, "readBack", job[r])
       ELSE Reads /\ Answer(r, "done")

\* The statement after a COMMIT reads the new rows back; a decision has its
\* row from the UPDATE.
CommitTransaction(r) ==
    /\ pc[r] = "commit"
    /\ held[r] # None
    /\ Commit(held[r])
    /\ IF job[r].ask.kind # "decide" THEN Continue(r, "readBack", job[r])
       ELSE IF job[r].missed THEN Continue(r, "rollback", job[r])
       ELSE Answer(r, "done")

RollbackTransaction(r) ==
    /\ pc[r] = "rollback"
    /\ held[r] # None
    /\ Rollback(held[r])
    /\ Answer(r, "failed")

ReadBack(r) ==
    /\ Runs(r, "readBack")
    /\ LET k == IF job[r].ask.kind = "register" THEN <<"organization", r>>
                ELSE IF job[r].ask.kind = "invite" THEN <<"membership", r>>
                ELSE <<"organization", job[r].ask.actor.org>>
       IN  IF k \in DOMAIN Sees(r) THEN Answer(r, "done") ELSE Answer(r, "failed")
    /\ Reads

WaitsFor ==
    [c, d \in Connections |->
        \E r \in Requests : /\ held[r] = c
                            /\ Waits(r)
                            /\ d \in Blockers(c, Needs(Head(job[r].todo)), Claims)]

\* deadlock_timeout: the server fails a statement of those that wait for
\* each other.
DeadlockDetected(r) ==
    /\ Waits(r)
    /\ TransitiveClosure(WaitsFor, Connections)[held[r], held[r]]
    /\ Fails(held[r])
    /\ Throw(r)

\* The connection of a query breaks; the reply to a COMMIT may be lost only.
QueryFails(r) ==
    /\ "connection" \in Faults
    /\ InFlight(r)
    /\ held[r] # None
    /\ \/ UNCHANGED db
       \/ pc[r] = "commit" /\ db' = Over(tx[held[r]].writes, db)
    /\ Closes(held[r])
    /\ Throw(r)

Step(r) ==
    \/ FindIdentifier(r)
    \/ FindOrganization(r)
    \/ FindUsername(r)
    \/ FindTarget(r)
    \/ FindActive(r)
    \/ ReadRequest(r)
    \/ BeginTransaction(r)
    \/ WriteRow(r)
    \/ CommitTransaction(r)
    \/ RollbackTransaction(r)
    \/ ReadBack(r)
    \/ DeadlockDetected(r)

Next ==
    \/ \E r \in Requests :
        \/ Register(r)
        \/ Invite(r)
        \/ SendRequest(r)
        \/ Decide(r)
        \/ UpdateProfile(r)
        \/ Step(r)
        \/ QueryFails(r)
    \/ IdleConnectionCloses
    \/ Crash

Spec == Init /\ [][Next]_poolVars

\* Node runs the handlers, the server answers queries and finds deadlocks.
FairSpec == Spec /\ \A r \in Requests : WF_poolVars(Step(r))

-----------------------------------------------------------------------------
(* Properties                                                              *)

\* What the request writes under keys of its own; roles are shared.
OwnKeys(r) ==
    LET ask == job[r].ask
        writes == IF ask.kind = "register" THEN RegistrationWrites(r, ask)
                  ELSE InvitationWrites(r, ask)
    IN  {k \in {writes[i].key : i \in DOMAIN writes} : k[1] # "role"}

\* As long as the requests in flight are no more than the connections, a
\* registration or an invitation is in the database whole or not at all,
\* whatever fails, and whole once it is answered with success.
WholeOrNothing ==
    ~Saturable => \A r \in Requests : job[r] # None =>
        \/ job[r].ask.kind \notin {"register", "invite"}
        \/ OwnKeys(r) \subseteq DOMAIN db
        \/ OwnKeys(r) \intersect DOMAIN db = {} /\ pc[r] # "done"

Keys(table) == {k \in DOMAIN db : k[1] = table}

\* Whatever overlaps, on however few connections: no two organizations share
\* an identifier or a registration number, no two users a username, and at
\* most one request of a pair of organizations awaits its decision.
UniqueEntries ==
    /\ \A k, l \in Keys("organization") : k # l =>
           db[k].identifier # db[l].identifier /\ db[k].number # db[l].number
    /\ \A k, l \in Keys("credential") : k # l => db[k] # db[l]
    /\ \A k, l \in Keys("request") :
           k # l /\ db[k].state = "sent" /\ db[l].state = "sent" =>
               <<db[k].from, db[k].to>> # <<db[l].from, db[l].to>>

RequestRow(q) == db[<<"request", q>>]

\* A decision is one of the target organization, and with requests no more
\* than connections an accepted request has its relationship.  Handled one at
\* a time, a rejected request is the last word: a relationship of its kind
\* exists only if another request was accepted.
RelationshipsAreAccepted ==
    /\ \A q \in Requests : <<"request", q>> \in DOMAIN db /\ RequestRow(q).state # "sent" =>
        /\ job[RequestRow(q).by].ask.actor.org = RequestRow(q).to
        /\ RequestRow(q).state = "accepted" /\ ~Saturable =>
               <<"relationship", RequestRow(q).from, RequestRow(q).to, RequestRow(q).type>>
                   \in DOMAIN db
    /\ limit = 1 => \A k \in DOMAIN db : k[1] = "relationship" =>
        \E q \in Requests : /\ <<"request", q>> \in DOMAIN db
                            /\ RequestRow(q).state = "accepted"
                            /\ k = <<"relationship", RequestRow(q).from, RequestRow(q).to,
                                     RequestRow(q).type>>

\* As long as the requests in flight are no more than the connections, every
\* handler answers, though writes wait for each other's unique entries and
\* invitations lock role rows in an order of the client's.
EveryHandlerAnswers ==
    \A r \in Requests : ~Saturable /\ InFlight(r) ~> ~InFlight(r)
=============================================================================
