---------------------- MODULE OrganizationNetworkProofs ----------------------
(***************************************************************************)
(* Proofs about OrganizationNetwork and the ConnectionPool it runs on:     *)
(* entries are unique on however few connections; and as long as there are *)
(* enough of them, each transaction is its handler's own and whole.        *)
(***************************************************************************)
EXTENDS OrganizationNetwork, FiniteSetTheorems, SequenceTheorems, TLAPS

-----------------------------------------------------------------------------
(* Rows and what they claim.                                               *)

Tables == {"organization", "user", "credential", "role", "membership", "assignment", "case",
           "request", "email", "relationship"}

RowOk(k, v) ==
    /\ k[1] \in Tables
    /\ k[1] = "organization" =>
           v = [ identifier |-> v.identifier, number |-> v.number, alias |-> v.alias ]
    /\ k[1] = "request" =>
           v = [ from |-> v.from, to |-> v.to, type |-> v.type, state |-> v.state, by |-> v.by ]

RowsOk(rows) ==
    /\ rows = [k \in DOMAIN rows |-> rows[k]]
    /\ \A k \in DOMAIN rows : RowOk(k, rows[k])

\* No two rows share an entry of a unique index.
Distinct(rows) ==
    \A k, l \in DOMAIN rows : k # l => Claims(k, rows[k]) \intersect Claims(l, rows[l]) = {}

RequestKey(q) == <<"request", q>>
RelationshipKey(q) == <<"relationship", RequestRow(q).from, RequestRow(q).to, RequestRow(q).type>>

\* Versions of a network request differ in its state only, and a decision was
\* made by the organization it was sent to.
SameRequest(v, w) == v.from = w.from /\ v.to = w.to /\ v.type = w.type

DecidedByTarget(v) ==
    v.state # "sent" =>
        v.by \in Requests /\ pc[v.by] # "idle" /\ job[v.by].ask.actor.org = v.to

RequestFits(k, v) ==
    k[1] = "request" =>
        /\ DecidedByTarget(v)
        /\ k \in DOMAIN db => SameRequest(v, db[k])

RequestsFit(rows) == \A k \in DOMAIN rows : RequestFits(k, rows[k])

TransactionOk(t) ==
    /\ t = [ writes |-> t.writes, open |-> t.open ] /\ t.open \in BOOLEAN
    /\ ~t.open => t.writes = <<>>

\* What the writes w, not committed, hold on to over the rows b.
HeldBy(w, b) ==
    UNION { Claims(k, w[k]) \union (IF k \in DOMAIN b THEN Claims(k, b[k]) ELSE {}) :
            k \in DOMAIN w }

EntriesFit(b, t) ==
    /\ RowsOk(b) /\ Distinct(b)
    /\ \A c \in Connections : RowsOk(t[c].writes) /\ Distinct(Over(t[c].writes, b))
    /\ \A c, d \in Connections :
           c # d => HeldBy(t[c].writes, b) \intersect HeldBy(t[d].writes, b) = {}

DatabaseOk ==
    /\ tx = [c \in Connections |-> tx[c]]
    /\ \A c \in Connections : TransactionOk(tx[c])
    /\ EntriesFit(db, tx)

DecisionsOk ==
    /\ RequestsFit(db)
    /\ \A c \in Connections : RequestsFit(tx[c].writes)

-----------------------------------------------------------------------------
(* The local variables of the handlers.                                    *)

\* A write the handler of r may do.
WriteOk(w, r, ask) ==
    \/ /\ w.how = "insert" /\ RowOk(w.key, w.value)
       /\ w.key[1] \notin {"role", "relationship"} /\ w.key[2] = r
       /\ w.key[1] = "request" => w.value.state = "sent" /\ ask.kind = "send"
    \/ /\ w.how = "upsert"
       /\ w.key[1] = "role" \/ (w.key[1] = "assignment" /\ w.key[2] = r)
    \/ /\ w.how = "insertMissing" /\ w.key[1] = "relationship"
       /\ ask.kind = "decide" /\ ask.decision = "accepted" /\ w.key = RelationshipKey(ask.of)
    \/ /\ w.how = "update" /\ w.key[1] = "organization" /\ ask.kind = "profile"
       /\ w.value = [ alias |-> w.value.alias ]
    \/ /\ w.how = "update" /\ ask.kind = "decide" /\ w.key = RequestKey(ask.of)
       /\ w.value = [ state |-> ask.decision, by |-> r ]

TodoOk(todo, r, ask) ==
    /\ todo \in Seq({todo[i] : i \in DOMAIN todo})
    /\ \A i \in DOMAIN todo : WriteOk(todo[i], r, ask)
    /\ \A i \in DOMAIN todo : i # 1 => todo[i].how # "update"

PendingKeys(todo) == {todo[i].key : i \in {n \in DOMAIN todo : todo[n].how # "update"}}

Kinds(step) ==
    IF step \in {"findIdentifier"} THEN {"register"}
    ELSE IF step = "findOrganization" THEN {"invite", "profile"}
    ELSE IF step = "findUsername" THEN {"register", "invite"}
    ELSE IF step \in {"findTarget", "findActive"} THEN {"send"}
    ELSE IF step = "readRequest" THEN {"decide"}
    ELSE IF step \in {"begin", "write", "commit"} THEN {"register", "invite", "decide"}
    ELSE IF step = "store" THEN {"send", "profile"}
    ELSE {"register", "invite", "send", "decide", "profile"}

Steps == {"findIdentifier", "findOrganization", "findUsername", "findTarget", "findActive",
          "readRequest", "begin", "write", "commit", "rollback", "store", "readBack"}

AskOk(step, ask) ==
    /\ ask.kind \in Kinds(step)
    /\ ask.kind = "invite" => ask.roles \in Seq(STRING)
    /\ ask.kind = "decide" =>
           /\ ask.of \in Requests /\ RequestKey(ask.of) \in DOMAIN db
           /\ ask.decision \in {"accepted", "rejected"}
           /\ step \in {"begin", "write", "commit"} => RequestRow(ask.of).to = ask.actor.org

JobOk(r, step, j) ==
    /\ j = [ ask |-> j.ask, todo |-> j.todo, missed |-> j.missed ]
    /\ AskOk(step, j.ask)
    /\ TodoOk(j.todo, r, j.ask)
    /\ step = "commit" => j.todo = <<>>

HandlersOk ==
    /\ held \in [Requests -> Connections \union {None}]
    /\ idle \in Seq(Connections) /\ queue \in Seq(Requests)
    /\ pc \in [Requests -> Steps \union Ended \union {"idle"}]
    /\ job = [r \in Requests |-> job[r]]
    /\ \A r \in Requests : pc[r] = "idle" => job[r] = None
    /\ \A r \in Requests : InFlight(r) => JobOk(r, pc[r], job[r])

SharedInv == DatabaseOk /\ DecisionsOk /\ HandlersOk

-----------------------------------------------------------------------------
(* With a connection for every request in flight.                          *)

Running == {r \in Requests : InFlight(r)}

ConnectionsOwned ==
    /\ queue = <<>>
    /\ Cardinality(Running) <= limit /\ Len(idle) + Cardinality(Running) = size
    /\ \A r \in Requests : held[r] # None <=> InFlight(r)
    /\ \A r, s \in Requests : held[r] # None /\ held[r] = held[s] => r = s
    /\ \A i, j \in 1..Len(idle) : idle[i] = idle[j] => i = j
    /\ \A i \in 1..Len(idle), r \in Requests : idle[i] # held[r]

\* A connection has a transaction only while its handler is inside one.
TransactionsOwned ==
    /\ \A c \in Connections :
           \/ tx[c] = NoTransaction
           \/ \E r \in Requests : held[r] = c /\ pc[r] \in {"write", "commit", "rollback"}
    /\ \A r \in Requests : pc[r] \in {"write", "commit"} =>
           tx[held[r]].open

\* What a registration or an invitation writes under keys of its own.
AskedKeys(r, ask) ==
    LET writes == IF ask.kind = "register" THEN RegistrationWrites(r, ask)
                  ELSE InvitationWrites(r, ask)
    IN  {k \in {writes[i].key : i \in DOMAIN writes} : k[1] # "role"}

\* The keys that are there once a transaction has succeeded.
Goal(r, ask) ==
    IF ask.kind \in {"register", "invite"} THEN AskedKeys(r, ask)
    ELSE IF ask.kind = "decide" /\ ask.decision = "accepted" THEN {RelationshipKey(ask.of)}
    ELSE {}

StartsDecision(todo) == todo # <<>> /\ todo[1].how = "update"

\* The writes of a transaction are what its own handler asked for.
WritesFit(r, ask, todo, rows) ==
    /\ \A k \in DOMAIN rows : k \in DOMAIN db \/ k[1] \in {"role", "relationship"} \/ k[2] = r
    /\ \A k \in DOMAIN rows : k[1] = "relationship" =>
           ask.kind = "decide" /\ ask.decision = "accepted" /\ k = RelationshipKey(ask.of)
    /\ \A k \in DOMAIN rows : k[1] = "request" =>
           ask.kind = "decide" /\ k = RequestKey(ask.of) /\ rows[k].state = ask.decision
    /\ ask.kind = "decide" => RequestKey(ask.of) \in DOMAIN rows \/ StartsDecision(todo)
    /\ Goal(r, ask) \subseteq DOMAIN db \union DOMAIN rows \union PendingKeys(todo)

\* What the handler has committed.
ProgressFits(r, step, j) ==
    /\ step = "begin" =>
           /\ Goal(r, j.ask) \subseteq PendingKeys(j.todo)
           /\ j.ask.kind = "decide" => StartsDecision(j.todo)
    /\ (step \in Steps \/ j # None) /\ j.ask.kind \in {"register", "invite"} =>
           /\ j.ask.kind = "invite" => j.ask.roles \in Seq(STRING)
           /\ step \in Steps \ {"rollback", "readBack"} =>
                  AskedKeys(r, j.ask) \intersect DOMAIN db = {}
           /\ step \in {"readBack", "done"} => AskedKeys(r, j.ask) \subseteq DOMAIN db
           /\ \/ AskedKeys(r, j.ask) \subseteq DOMAIN db
              \/ AskedKeys(r, j.ask) \intersect DOMAIN db = {}

HandlerOwn(r) ==
    /\ pc[r] \in {"write", "commit"} =>
           WritesFit(r, job[r].ask, job[r].todo, tx[held[r]].writes)
    /\ pc[r] # "idle" => ProgressFits(r, pc[r], job[r])
    /\ pc[r] = "idle" => \A k \in DOMAIN db : k[1] \in {"role", "relationship"} \/ k[2] # r

HandlersOwn == \A r \in Requests : HandlerOwn(r)

AcceptedHaveRelationship ==
    \A q \in Requests : RequestKey(q) \in DOMAIN db /\ RequestRow(q).state = "accepted" =>
        RelationshipKey(q) \in DOMAIN db

OwnedInv == ConnectionsOwned /\ TransactionsOwned /\ HandlersOwn /\ AcceptedHaveRelationship

\* Requests handled one at a time: nobody decides a request while a handler is
\* between reading it and committing its decision.
Deciding == {"begin", "write", "commit"}

DecidesSent(r) ==
    pc[r] \in Deciding /\ job[r].ask.kind = "decide" => RequestRow(job[r].ask.of).state = "sent"

RelationshipsFromAccepted ==
    \A k \in DOMAIN db : k[1] = "relationship" =>
        \E q \in Requests : /\ RequestKey(q) \in DOMAIN db
                            /\ RequestRow(q).state = "accepted" /\ k = RelationshipKey(q)

SerialInv == (\A r \in Requests : DecidesSent(r)) /\ RelationshipsFromAccepted

LimitsOk == limit \in 1..MaxInFlight /\ size \in 1..MaxConnections

IInv ==
    /\ LimitsOk
    /\ SharedInv
    /\ ~Saturable => OwnedInv
    /\ limit = 1 => SerialInv

-----------------------------------------------------------------------------
(* Rows over rows.                                                         *)

LEMMA OverKeys ==
    ASSUME NEW f, NEW g, NEW k
    PROVE  k \in DOMAIN Over(f, g) <=> k \in DOMAIN f \/ k \in DOMAIN g
BY DEF Over

LEMMA OverFirst ==
    ASSUME NEW f, NEW g, NEW k \in DOMAIN f
    PROVE  Over(f, g)[k] = f[k]
BY DEF Over

LEMMA OverSecond ==
    ASSUME NEW f, NEW g, NEW k \in DOMAIN g, k \notin DOMAIN f
    PROVE  Over(f, g)[k] = g[k]
BY DEF Over

LEMMA OverIsFunction ==
    ASSUME NEW f, NEW g
    PROVE  Over(f, g) = [k \in DOMAIN Over(f, g) |-> Over(f, g)[k]]
BY DEF Over

LEMMA OverNothing ==
    ASSUME NEW g, g = [k \in DOMAIN g |-> g[k]]
    PROVE  Over(<<>>, g) = g
BY DEF Over

\* What a row claims besides its key is an entry of an index of its table.
LEMMA ClaimHeads ==
    ASSUME NEW k, NEW v, k[1] \in Tables
    PROVE  /\ k \in Claims(k, v)
           /\ \A c \in Claims(k, v) : c # k =>
                  \/ k[1] = "organization" /\ c[1] \in {"identifier", "number"}
                  \/ k[1] = "credential" /\ c[1] = "username"
                  \/ k[1] = "request" /\ c[1] = "pair"
           /\ k[1] \in Tables \ {"organization", "credential", "request"} => Claims(k, v) = {k}
BY DEF Claims, Tables

\* A claim is a row's key only of that row.
LEMMA KeysClaimThemselves ==
    ASSUME NEW k, NEW l, NEW v, k[1] \in Tables, l[1] \in Tables, k \in Claims(l, v)
    PROVE  k = l
BY ClaimHeads DEF Tables

LEMMA HeldIs ==
    ASSUME NEW w, NEW b, NEW x
    PROVE  x \in HeldBy(w, b) <=>
               \E k \in DOMAIN w : \/ x \in Claims(k, w[k])
                                   \/ k \in DOMAIN b /\ x \in Claims(k, b[k])
BY DEF HeldBy

LEMMA RowsClaimTheirKeys ==
    ASSUME NEW rows, RowsOk(rows), NEW k \in DOMAIN rows
    PROVE  k[1] \in Tables /\ k \in Claims(k, rows[k])
<1>1. RowOk(k, rows[k])
    BY DEF RowsOk
<1>2. k[1] \in Tables
    BY <1>1 DEF RowOk
<1> QED BY <1>2, ClaimHeads

LEMMA KeysAreHeld ==
    ASSUME NEW w, NEW b, RowsOk(w), NEW k \in DOMAIN w
    PROVE  k \in HeldBy(w, b)
BY RowsClaimTheirKeys, HeldIs

LEMMA NothingHeld ==
    ASSUME NEW b
    PROVE  HeldBy(<<>>, b) = {}
BY HeldIs

LEMMA DistinctIs ==
    ASSUME NEW rows, Distinct(rows), NEW k \in DOMAIN rows, NEW l \in DOMAIN rows, NEW x,
           x \in Claims(k, rows[k]), x \in Claims(l, rows[l])
    PROVE  k = l
BY DEF Distinct

\* Writes of one transaction keep clear of what another holds.
LEMMA HeldApart ==
    ASSUME NEW b, NEW t, EntriesFit(b, t), NEW c \in Connections, NEW d \in Connections, c # d,
           NEW x, x \in HeldBy(t[c].writes, b)
    PROVE  x \notin HeldBy(t[d].writes, b)
BY DEF EntriesFit

\* The committed version of a row another transaction has not written claims
\* nothing that one holds.
LEMMA CommittedApart ==
    ASSUME NEW b, NEW t, EntriesFit(b, t), NEW d \in Connections,
           NEW k \in DOMAIN b, k \notin HeldBy(t[d].writes, b), NEW x, x \in Claims(k, b[k])
    PROVE  x \notin HeldBy(t[d].writes, b)
<1> SUFFICES ASSUME x \in HeldBy(t[d].writes, b) PROVE FALSE
    OBVIOUS
<1> DEFINE w == t[d].writes
<1>1. RowsOk(w) /\ Distinct(Over(w, b)) /\ Distinct(b) /\ RowsOk(b)
    BY DEF EntriesFit
<1> HIDE DEF w
<1>2. PICK l \in DOMAIN w : x \in Claims(l, w[l]) \/ (l \in DOMAIN b /\ x \in Claims(l, b[l]))
    BY HeldIs DEF w
<1>3. l \in HeldBy(t[d].writes, b)
    BY <1>1, <1>2, KeysAreHeld DEF w
<1>4. k \notin DOMAIN w
    BY <1>1, KeysAreHeld DEF w
<1>5. Over(w, b)[k] = b[k] /\ Over(w, b)[l] = w[l] /\ k \in DOMAIN Over(w, b) /\ l \in DOMAIN Over(w, b)
    BY <1>2, <1>4, OverKeys, OverFirst, OverSecond
<1>6. l = k
    BY <1>1, <1>2, <1>5, DistinctIs
<1> QED BY <1>3, <1>6

-----------------------------------------------------------------------------
(* What statements do to rows and locks.                                   *)

\* A new version v of the row k that the transaction c may write over what it
\* sees: other transactions hold nothing of it, and no other row claims it.
Free(b, t, c, k, v) ==
    /\ RowOk(k, v)
    /\ \A d \in Connections \ {c} : Claims(k, v) \intersect HeldBy(t[d].writes, b) = {}
    /\ \A d \in Connections \ {c} : k \notin HeldBy(t[d].writes, b)
    /\ \A l \in DOMAIN Over(t[c].writes, b) : l # k =>
           Claims(k, v) \intersect Claims(l, Over(t[c].writes, b)[l]) = {}

Row(k, v) == [ l \in {k} |-> v ]

LEMMA RowKeys ==
    ASSUME NEW k, NEW v, NEW f, NEW l
    PROVE  l \in DOMAIN Over(Row(k, v), f) <=> l = k \/ l \in DOMAIN f
BY DEF Over, Row

LEMMA RowItself ==
    ASSUME NEW k, NEW v, NEW f
    PROVE  Over(Row(k, v), f)[k] = v
<1>1. DOMAIN Row(k, v) = {k} /\ Row(k, v)[k] = v
    BY DEF Row
<1>2. k \in DOMAIN Row(k, v) \union DOMAIN f
    BY <1>1
<1>3. Over(Row(k, v), f)[k] = Row(k, v)[k]
    BY <1>1, <1>2 DEF Over
<1> QED BY <1>1, <1>3

LEMMA RowOthers ==
    ASSUME NEW k, NEW v, NEW f, NEW l \in DOMAIN f, l # k
    PROVE  Over(Row(k, v), f)[l] = f[l]
<1>1. l \notin DOMAIN Row(k, v)
    BY DEF Row
<1> QED BY <1>1, OverSecond

LEMMA RowsOkOver ==
    ASSUME NEW f, NEW g, RowsOk(f), RowsOk(g)
    PROVE  RowsOk(Over(f, g))
<1>1. ASSUME NEW k \in DOMAIN Over(f, g) PROVE RowOk(k, Over(f, g)[k])
    <2>1. CASE k \in DOMAIN f
        BY <2>1, OverKeys, OverFirst, OverSecond DEF RowsOk
    <2>2. CASE k \notin DOMAIN f
        <3>1. k \in DOMAIN g
            BY <1>1, <2>2, OverKeys
        <3>2. Over(f, g)[k] = g[k]
            BY <2>2, <3>1, OverSecond
        <3> QED BY <3>1, <3>2 DEF RowsOk
    <2> QED BY <2>1, <2>2
<1> QED BY <1>1, OverIsFunction DEF RowsOk

LEMMA RowsOkWithRow ==
    ASSUME NEW f, RowsOk(f), NEW k, NEW v, RowOk(k, v)
    PROVE  RowsOk(Over(Row(k, v), f))
<1>1. RowsOk(Row(k, v))
    BY DEF RowsOk, Row
<1> QED BY <1>1, RowsOkOver

LEMMA DistinctWithRow ==
    ASSUME NEW f, Distinct(f), NEW k, NEW v,
           \A l \in DOMAIN f : l # k => Claims(k, v) \intersect Claims(l, f[l]) = {}
    PROVE  Distinct(Over(Row(k, v), f))
<1> DEFINE g == Over(Row(k, v), f)
<1>1. /\ \A l : l \in DOMAIN g <=> l = k \/ l \in DOMAIN f
      /\ g[k] = v
      /\ \A l \in DOMAIN f : l # k => g[l] = f[l]
    BY RowKeys, RowItself, RowOthers
<1> HIDE DEF g
<1>2. ASSUME NEW l \in DOMAIN g, NEW m \in DOMAIN g, l # m
      PROVE  Claims(l, g[l]) \intersect Claims(m, g[m]) = {}
    <2>1. CASE l # k /\ m # k
        BY <1>1, <1>2, <2>1 DEF Distinct
    <2>2. CASE l = k
        BY <1>1, <1>2, <2>2
    <2>3. CASE m = k
        BY <1>1, <1>2, <2>3
    <2> QED BY <2>1, <2>2, <2>3
<1> QED BY <1>2 DEF Distinct, g

\* A row the transaction itself has written, and may go on writing.
LEMMA OwnRowIsFree ==
    ASSUME NEW b, NEW t, EntriesFit(b, t), NEW c \in Connections,
           NEW k \in DOMAIN Over(t[c].writes, b),
           \A d \in Connections \ {c} : k \notin HeldBy(t[d].writes, b),
           NEW v, RowOk(k, v), Claims(k, v) \subseteq Claims(k, Over(t[c].writes, b)[k])
    PROVE  Free(b, t, c, k, v)
<1> DEFINE w == t[c].writes
           s == Over(w, b)
<1>1. RowsOk(w) /\ Distinct(s)
    BY DEF EntriesFit
<1>2. ASSUME NEW d \in Connections \ {c}, NEW x, x \in Claims(k, v)
      PROVE  x \notin HeldBy(t[d].writes, b)
    <2>1. CASE k \in DOMAIN w
        <3>1. s[k] = w[k]
            BY <2>1, OverKeys, OverFirst, OverSecond
        <3>2. x \in HeldBy(w, b)
            BY <1>2, <2>1, <3>1, HeldIs
        <3> QED BY <3>2, HeldApart
    <2>2. CASE k \notin DOMAIN w
        <3>1. k \in DOMAIN b /\ s[k] = b[k]
            BY <2>2, OverKeys, OverFirst, OverSecond
        <3> QED BY <1>2, <3>1, CommittedApart
    <2> QED BY <2>1, <2>2
<1>3. ASSUME NEW l \in DOMAIN s, l # k PROVE Claims(k, v) \intersect Claims(l, s[l]) = {}
    BY <1>1, <1>3 DEF Distinct
<1> QED BY <1>2, <1>3 DEF Free

\* A new row claimed by none of those the statement sees.
LEMMA NewRowIsFree ==
    ASSUME NEW b, NEW t, EntriesFit(b, t), NEW c \in Connections, NEW k, NEW v, RowOk(k, v),
           \A d \in Connections \ {c} : Claims(k, v) \intersect HeldBy(t[d].writes, b) = {},
           \A l \in DOMAIN Over(t[c].writes, b) : l # k =>
               Claims(k, v) \intersect Claims(l, Over(t[c].writes, b)[l]) = {}
    PROVE  Free(b, t, c, k, v)
<1>1. k \in Claims(k, v)
    BY ClaimHeads DEF RowOk
<1> QED BY <1>1 DEF Free

\* The same without a comparison, for a row that claims its key only.
LEMMA PlainRowIsFree ==
    ASSUME NEW b, NEW t, EntriesFit(b, t), NEW c \in Connections, NEW k, NEW v, RowOk(k, v),
           k[1] \in Tables \ {"organization", "credential", "request"},
           \A d \in Connections \ {c} : Claims(k, v) \intersect HeldBy(t[d].writes, b) = {}
    PROVE  Free(b, t, c, k, v)
<1> DEFINE s == Over(t[c].writes, b)
<1>1. RowsOk(s)
    BY RowsOkOver DEF EntriesFit
<1>2. Claims(k, v) = {k}
    BY ClaimHeads
<1>3. ASSUME NEW l \in DOMAIN s, l # k PROVE k \notin Claims(l, s[l])
    <2>1. l[1] \in Tables
        BY <1>1, RowsClaimTheirKeys
    <2> QED BY <1>3, <2>1, KeysClaimThemselves
<1> QED BY <1>2, <1>3, NewRowIsFree

\* A statement inside the transaction on c.
LEMMA WriteInside ==
    ASSUME NEW b, NEW t, EntriesFit(b, t), NEW c \in Connections, NEW k, NEW v, Free(b, t, c, k, v),
           NEW u, u[c].writes = Over(Row(k, v), t[c].writes),
           \A d \in Connections \ {c} : u[d].writes = t[d].writes
    PROVE  EntriesFit(b, u)
<1> DEFINE w == t[c].writes
           n == Over(Row(k, v), w)
<1>0. RowsOk(b) /\ Distinct(b) /\ RowsOk(w) /\ Distinct(Over(w, b)) /\ RowOk(k, v)
    BY DEF EntriesFit, Free
<1>1. RowsOk(n)
    BY <1>0, RowsOkWithRow
<1>2. Over(n, b) = Over(Row(k, v), Over(w, b))
    BY DEF Over, Row
<1>3. Distinct(Over(Row(k, v), Over(w, b)))
    BY <1>0, DistinctWithRow DEF Free
<1>4. ASSUME NEW d \in Connections \ {c}, NEW x, x \in HeldBy(n, b)
      PROVE  x \notin HeldBy(t[d].writes, b)
    <2>1. PICK l \in DOMAIN n : x \in Claims(l, n[l]) \/ (l \in DOMAIN b /\ x \in Claims(l, b[l]))
        BY <1>4, HeldIs
    <2>2. CASE l # k
        <3>1. l \in DOMAIN w /\ n[l] = w[l]
            BY <2>1, <2>2, RowKeys, RowOthers
        <3>2. x \in HeldBy(w, b)
            BY <2>1, <3>1, HeldIs
        <3> QED BY <3>2, HeldApart
    <2>3. CASE l = k /\ x \in Claims(l, n[l])
        BY <2>3, RowItself DEF Free
    <2>4. CASE l = k /\ l \in DOMAIN b /\ x \in Claims(l, b[l])
        <3>1. k \notin HeldBy(t[d].writes, b)
            BY DEF Free
        <3> QED BY <2>4, <3>1, CommittedApart
    <2> QED BY <2>1, <2>2, <2>3, <2>4
<1>5. ASSUME NEW d \in Connections
      PROVE  RowsOk(u[d].writes) /\ Distinct(Over(u[d].writes, b))
    <2>1. CASE d = c
        BY <1>1, <1>2, <1>3, <2>1
    <2>2. CASE d # c
        BY <2>2 DEF EntriesFit
    <2> QED BY <2>1, <2>2
<1>6. ASSUME NEW d \in Connections, NEW e \in Connections, d # e
      PROVE  HeldBy(u[d].writes, b) \intersect HeldBy(u[e].writes, b) = {}
    <2>1. CASE d = c
        BY <1>4, <1>6, <2>1
    <2>2. CASE e = c
        BY <1>4, <1>6, <2>2
    <2>3. CASE d # c /\ e # c
        BY <1>6, <2>3 DEF EntriesFit
    <2> QED BY <2>1, <2>2, <2>3
<1> HIDE DEF w, n
<1> QED BY <1>0, <1>5, <1>6 DEF EntriesFit

\* A statement outside of a transaction.
LEMMA WriteOutside ==
    ASSUME NEW b, NEW t, EntriesFit(b, t), NEW c \in Connections, t[c].writes = <<>>,
           NEW k, NEW v, Free(b, t, c, k, v)
    PROVE  EntriesFit(Over(Row(k, v), b), t)
<1> DEFINE n == Over(Row(k, v), b)
<1>0. RowsOk(b) /\ Distinct(b) /\ RowOk(k, v)
    BY DEF EntriesFit, Free
<1>1. Over(t[c].writes, b) = b
    BY <1>0, OverNothing DEF RowsOk
<1>2. RowsOk(n) /\ Distinct(n)
    BY <1>0, <1>1, RowsOkWithRow, DistinctWithRow DEF Free
<1>3. \A l \in DOMAIN b : l # k => n[l] = b[l]
    BY RowOthers
<1>4. \A l : l \in DOMAIN n <=> l = k \/ l \in DOMAIN b
    BY RowKeys
<1>5. n[k] = v
    BY RowItself
<1>6. ASSUME NEW d \in Connections, NEW w, w = t[d].writes, d # c
      PROVE  /\ HeldBy(w, n) = HeldBy(w, b)
             /\ Distinct(Over(w, n))
    <2>1. RowsOk(w) /\ Distinct(Over(w, b))
        BY <1>6 DEF EntriesFit
    <2>2. k \notin HeldBy(w, b) /\ Claims(k, v) \intersect HeldBy(w, b) = {}
        BY <1>6 DEF Free
    <2>3. k \notin DOMAIN w
        BY <2>1, <2>2, KeysAreHeld
    <2> HIDE DEF n
    <2>4. HeldBy(w, n) = HeldBy(w, b)
        <3>1. ASSUME NEW l \in DOMAIN w PROVE (l \in DOMAIN n <=> l \in DOMAIN b) /\ (l \in DOMAIN b => n[l] = b[l])
            BY <1>3, <1>4, <2>3, <3>1
        <3>2. ASSUME NEW x PROVE x \in HeldBy(w, n) <=> x \in HeldBy(w, b)
            BY <3>1, HeldIs
        <3> QED BY <3>2
    <2>5. Over(w, n) = Over(Row(k, v), Over(w, b))
        BY <2>3 DEF Over, Row, n
    <2>6. ASSUME NEW l \in DOMAIN Over(w, b), l # k
          PROVE  Claims(k, v) \intersect Claims(l, Over(w, b)[l]) = {}
        <3>1. CASE l \in DOMAIN w
            <4>1. Claims(l, w[l]) \subseteq HeldBy(w, b)
                BY <3>1, HeldIs
            <4> QED BY <2>2, <3>1, <4>1, OverFirst
        <3>2. CASE l \notin DOMAIN w
            <4>1. l \in DOMAIN b /\ Over(w, b)[l] = b[l]
                BY <2>6, <3>2, OverKeys, OverSecond
            <4>2. Claims(k, v) \intersect Claims(l, b[l]) = {}
                BY <1>1, <2>6, <4>1 DEF Free
            <4> QED BY <4>1, <4>2
        <3> QED BY <3>1, <3>2
    <2>7. Distinct(Over(Row(k, v), Over(w, b)))
        BY <2>1, <2>6, DistinctWithRow
    <2> QED BY <2>4, <2>5, <2>7
<1> HIDE DEF n
<1>7. HeldBy(t[c].writes, n) = {} /\ HeldBy(t[c].writes, b) = {}
    BY NothingHeld
<1>8. Over(t[c].writes, n) = n
    BY <1>2, OverNothing DEF RowsOk
<1>9. \A d \in Connections : RowsOk(t[d].writes) /\ Distinct(Over(t[d].writes, n))
    BY <1>2, <1>6, <1>8 DEF EntriesFit
<1>10. \A d \in Connections : HeldBy(t[d].writes, n) = HeldBy(t[d].writes, b)
    BY <1>6, <1>7
<1> QED BY <1>2, <1>9, <1>10 DEF EntriesFit, n

\* COMMIT on c.
LEMMA CommitFits ==
    ASSUME NEW b, NEW t, EntriesFit(b, t), NEW c \in Connections,
           NEW u, u[c].writes = <<>>,
           \A d \in Connections \ {c} : u[d].writes = t[d].writes
    PROVE  EntriesFit(Over(t[c].writes, b), u)
<1> DEFINE w == t[c].writes
           n == Over(w, b)
<1>0. RowsOk(b) /\ RowsOk(w) /\ Distinct(n)
    BY DEF EntriesFit
<1>1. RowsOk(n)
    BY <1>0, RowsOkOver
<1>2. ASSUME NEW d \in Connections, d # c, NEW x, x = t[d].writes
      PROVE  HeldBy(x, n) = HeldBy(x, b) /\ Distinct(Over(x, n))
    <2>1. RowsOk(x) /\ Distinct(Over(x, b))
        BY <1>2 DEF EntriesFit
    <2>2. \A l \in DOMAIN x : l \notin DOMAIN w
        BY <1>0, <1>2, <2>1, KeysAreHeld, HeldApart
    <2>3. ASSUME NEW l \in DOMAIN x
          PROVE  (l \in DOMAIN n <=> l \in DOMAIN b) /\ (l \in DOMAIN b => n[l] = b[l])
        BY <2>2, <2>3, OverKeys, OverSecond
    <2>4. ASSUME NEW y PROVE y \in HeldBy(x, n) <=> y \in HeldBy(x, b)
        BY <2>3, HeldIs
    <2> DEFINE s == Over(x, n)
    <2>5. ASSUME NEW l \in DOMAIN x, NEW m \in DOMAIN s, m \notin DOMAIN x
          PROVE  Claims(l, x[l]) \intersect Claims(m, s[m]) = {}
        <3>1. m \in DOMAIN n /\ s[m] = n[m]
            BY <2>5, OverKeys, OverSecond
        <3>2. CASE m \in DOMAIN w
            <4>1. s[m] = w[m]
                BY <3>1, <3>2, OverFirst
            <4>2. Claims(m, w[m]) \subseteq HeldBy(w, b)
                BY <3>2, HeldIs
            <4>3. Claims(l, x[l]) \subseteq HeldBy(x, b)
                BY <2>5, HeldIs
            <4> QED BY <1>2, <4>1, <4>2, <4>3, HeldApart
        <3>3. CASE m \notin DOMAIN w
            <4>1. m \in DOMAIN b /\ s[m] = b[m]
                BY <3>1, <3>3, OverKeys, OverSecond
            <4>2. /\ Over(x, b)[m] = b[m] /\ m \in DOMAIN Over(x, b)
                  /\ Over(x, b)[l] = x[l] /\ l \in DOMAIN Over(x, b)
                BY <2>5, <4>1, OverKeys, OverFirst, OverSecond
            <4>3. l # m
                BY <2>5
            <4> QED BY <2>1, <4>1, <4>2, <4>3 DEF Distinct
        <3> QED BY <3>2, <3>3
    <2>6. ASSUME NEW l \in DOMAIN s, NEW m \in DOMAIN s, l # m
          PROVE  Claims(l, s[l]) \intersect Claims(m, s[m]) = {}
        <3>1. CASE l \in DOMAIN x /\ m \in DOMAIN x
            <4>1. /\ s[l] = x[l] /\ s[m] = x[m]
                  /\ Over(x, b)[l] = x[l] /\ Over(x, b)[m] = x[m]
                  /\ l \in DOMAIN Over(x, b) /\ m \in DOMAIN Over(x, b)
                BY <3>1, OverKeys, OverFirst
            <4> QED BY <2>1, <2>6, <4>1 DEF Distinct
        <3>2. CASE l \notin DOMAIN x /\ m \notin DOMAIN x
            <4>1. l \in DOMAIN n /\ s[l] = n[l] /\ m \in DOMAIN n /\ s[m] = n[m]
                BY <2>6, <3>2, OverKeys, OverSecond
            <4> QED BY <1>0, <2>6, <4>1 DEF Distinct
        <3>3. CASE l \in DOMAIN x /\ m \notin DOMAIN x
            <4>1. s[l] = x[l]
                BY <3>3, OverFirst
            <4> QED BY <2>5, <2>6, <3>3, <4>1
        <3>4. CASE l \notin DOMAIN x /\ m \in DOMAIN x
            <4>1. s[m] = x[m]
                BY <3>4, OverFirst
            <4> QED BY <2>5, <2>6, <3>4, <4>1
        <3> QED BY <3>1, <3>2, <3>3, <3>4
    <2>7. Distinct(s)
        BY <2>6 DEF Distinct
    <2> QED BY <2>4, <2>7
<1> HIDE DEF n
<1>3. Over(u[c].writes, n) = n /\ HeldBy(u[c].writes, n) = {} /\ RowsOk(<<>>)
    BY <1>1, OverNothing, NothingHeld DEF RowsOk
<1>4. \A d \in Connections : RowsOk(u[d].writes) /\ Distinct(Over(u[d].writes, n))
    BY <1>0, <1>2, <1>3 DEF EntriesFit
<1>5. \A d \in Connections \ {c} : HeldBy(u[d].writes, n) = HeldBy(t[d].writes, b)
    BY <1>2
<1>6. ASSUME NEW d \in Connections, NEW e \in Connections, d # e
      PROVE  HeldBy(u[d].writes, n) \intersect HeldBy(u[e].writes, n) = {}
    BY <1>3, <1>5, <1>6 DEF EntriesFit
<1> QED BY <1>0, <1>1, <1>4, <1>6 DEF EntriesFit, n

\* Transactions end without their writes, or go on.
LEMMA DropsFit ==
    ASSUME NEW b, NEW t, EntriesFit(b, t), NEW u,
           \A d \in Connections : u[d].writes \in {<<>>, t[d].writes}
    PROVE  EntriesFit(b, u)
<1>1. Over(<<>>, b) = b /\ HeldBy(<<>>, b) = {} /\ RowsOk(<<>>) /\ Distinct(b) /\ RowsOk(b)
    BY OverNothing, NothingHeld DEF RowsOk, EntriesFit
<1>2. ASSUME NEW d \in Connections PROVE RowsOk(u[d].writes) /\ Distinct(Over(u[d].writes, b))
    <2>1. CASE u[d].writes = <<>>
        BY <1>1, <2>1
    <2>2. CASE u[d].writes = t[d].writes
        BY <2>2 DEF EntriesFit
    <2> QED BY <2>1, <2>2
<1>3. ASSUME NEW d \in Connections
      PROVE  HeldBy(u[d].writes, b) = {} \/ HeldBy(u[d].writes, b) = HeldBy(t[d].writes, b)
    <2>1. CASE u[d].writes = <<>>
        BY <1>1, <2>1
    <2>2. CASE u[d].writes = t[d].writes
        BY <2>2
    <2> QED BY <2>1, <2>2
<1>4. ASSUME NEW d \in Connections, NEW e \in Connections, d # e
      PROVE  HeldBy(u[d].writes, b) \intersect HeldBy(u[e].writes, b) = {}
    <2>1. HeldBy(t[d].writes, b) \intersect HeldBy(t[e].writes, b) = {}
        BY <1>4 DEF EntriesFit
    <2> QED BY <1>3, <2>1
<1> QED BY <1>1, <1>2, <1>4 DEF EntriesFit

-----------------------------------------------------------------------------
(* The write of a handler.                                                 *)

LEMMA DecidedRow ==
    ASSUME NEW row, NEW d, NEW r,
           row = [ from |-> row.from, to |-> row.to, type |-> row.type, state |-> row.state,
                   by |-> row.by ]
    PROVE  Over([ state |-> d, by |-> r ], row)
               = [ from |-> row.from, to |-> row.to, type |-> row.type, state |-> d, by |-> r ]
BY DEF Over

LEMMA RenamedRow ==
    ASSUME NEW row, NEW a,
           row = [ identifier |-> row.identifier, number |-> row.number, alias |-> row.alias ]
    PROVE  Over([ alias |-> a ], row)
               = [ identifier |-> row.identifier, number |-> row.number, alias |-> a ]
BY DEF Over

Unblocked(c, w) == Blockers(c, Needs(w), Claims) = {}

LEMMA NothingNeededIsHeld ==
    ASSUME NEW c \in Connections, NEW w, Unblocked(c, w), NEW d \in Connections \ {c}
    PROVE  HeldBy(tx[d].writes, db) \intersect Needs(w) = {}
<1>1. Locks(d, Claims) \intersect Needs(w) = {}
    BY DEF Unblocked, Blockers
<1>2. Locks(d, Claims) = HeldBy(tx[d].writes, db)
    BY DEF Locks, HeldBy
<1> QED BY <1>1, <1>2

LEMMA ViewFits ==
    ASSUME DatabaseOk, NEW c \in Connections
    PROVE  /\ View(c) = Over(tx[c].writes, db) /\ RowsOk(View(c)) /\ Distinct(View(c))
           /\ \A k \in DOMAIN db : k \in DOMAIN View(c)
BY RowsOkOver, OverKeys DEF DatabaseOk, EntriesFit, View

LEMMA SeenRequests ==
    ASSUME DatabaseOk, DecisionsOk, NEW c \in Connections, NEW k \in DOMAIN View(c), k[1] = "request"
    PROVE  RequestFits(k, View(c)[k])
<1>1. CASE k \in DOMAIN tx[c].writes
    BY <1>1, OverFirst DEF View, DecisionsOk, RequestsFit
<1>2. CASE k \notin DOMAIN tx[c].writes
    BY <1>2, OverKeys, OverSecond DEF View, DecisionsOk, RequestsFit
<1> QED BY <1>1, <1>2

\* What a write that need not wait and does not clash does to the rows.
Effect(c, k, v) == Free(db, tx, c, k, v) /\ RequestFits(k, v)

LEMMA InsertEffect ==
    ASSUME DatabaseOk, NEW c \in Connections, NEW r, NEW ask, NEW w, WriteOk(w, r, ask),
           Unblocked(c, w), ~Clashes(w, View(c)), w.how = "insert"
    PROVE  /\ Changes(w, View(c)) = Row(w.key, w.value) /\ Effect(c, w.key, w.value)
           /\ w.key \notin DOMAIN View(c)
<1>1. RowOk(w.key, w.value) /\ (w.key[1] = "request" => w.value.state = "sent")
    BY DEF WriteOk
<1>2. \A d \in Connections \ {c} : Claims(w.key, w.value) \intersect HeldBy(tx[d].writes, db) = {}
    BY NothingNeededIsHeld DEF Needs
<1>3. \A k \in DOMAIN View(c) : Claims(k, View(c)[k]) \intersect Claims(w.key, w.value) = {}
    BY DEF Clashes
<1>4. Free(db, tx, c, w.key, w.value)
    BY <1>1, <1>2, <1>3, ViewFits, NewRowIsFree DEF DatabaseOk
<1>5. w.key \notin DOMAIN View(c)
    <2> SUFFICES ASSUME w.key \in DOMAIN View(c) PROVE FALSE
        OBVIOUS
    <2>1. w.key[1] \in Tables
        BY <1>1 DEF RowOk
    <2>2. w.key \in Claims(w.key, w.value) /\ w.key \in Claims(w.key, View(c)[w.key])
        BY <2>1, ClaimHeads
    <2> QED BY <1>3, <2>2
<1>6. RequestFits(w.key, w.value)
    BY <1>1, <1>5, ViewFits DEF RequestFits, DecidedByTarget
<1>7. Changes(w, View(c)) = Row(w.key, w.value)
    BY DEF Changes, Row
<1> QED BY <1>4, <1>5, <1>6, <1>7 DEF Effect

LEMMA UpsertEffect ==
    ASSUME DatabaseOk, NEW c \in Connections, NEW r, NEW ask, NEW w, WriteOk(w, r, ask),
           Unblocked(c, w), w.how \in {"upsert", "insertMissing"}
    PROVE  /\ \/ Changes(w, View(c)) = Row(w.key, w.value)
              \/ Changes(w, View(c)) = <<>> /\ w.key \in DOMAIN View(c)
           /\ Effect(c, w.key, w.value)
<1>1. w.key[1] \in {"role", "assignment", "relationship"}
    BY DEF WriteOk
<1>2. RowOk(w.key, w.value)
    BY <1>1 DEF RowOk, Tables
<1>3. \A d \in Connections \ {c} : Claims(w.key, w.value) \intersect HeldBy(tx[d].writes, db) = {}
    BY NothingNeededIsHeld DEF Needs
<1>4. Free(db, tx, c, w.key, w.value)
    BY <1>1, <1>2, <1>3, PlainRowIsFree DEF DatabaseOk, Tables
<1>5. RequestFits(w.key, w.value)
    BY <1>1 DEF RequestFits
<1>6. \/ Changes(w, View(c)) = Row(w.key, w.value)
      \/ Changes(w, View(c)) = <<>> /\ w.key \in DOMAIN View(c)
    BY DEF Changes, Row
<1> QED BY <1>4, <1>5, <1>6 DEF Effect

LEMMA RenamingEffect ==
    ASSUME DatabaseOk, NEW c \in Connections, NEW w, Unblocked(c, w), w.how = "update",
           w.key[1] = "organization", w.value = [ alias |-> w.value.alias ],
           w.key \in DOMAIN View(c), NEW v, v = Over(w.value, View(c)[w.key])
    PROVE  Changes(w, View(c)) = Row(w.key, v) /\ Effect(c, w.key, v)
<1>1. PICK row : row = View(c)[w.key]
    OBVIOUS
<1>2. RowOk(w.key, row)
    BY <1>1, ViewFits DEF RowsOk
<1>3. row = [ identifier |-> row.identifier, number |-> row.number, alias |-> row.alias ]
    BY <1>2 DEF RowOk
<1>4. PICK a : a = w.value.alias
    OBVIOUS
<1>5. v = [ identifier |-> row.identifier, number |-> row.number, alias |-> a ]
    BY <1>1, <1>3, <1>4, RenamedRow
<1>6. RowOk(w.key, v)
    BY <1>5 DEF RowOk, Tables
<1>7. Claims(w.key, v) = Claims(w.key, row)
    BY <1>5 DEF Claims
<1>8. \A d \in Connections \ {c} : w.key \notin HeldBy(tx[d].writes, db)
    BY NothingNeededIsHeld DEF Needs
<1>9. Free(db, tx, c, w.key, v)
    BY <1>1, <1>6, <1>7, <1>8, OwnRowIsFree DEF DatabaseOk, View
<1>10. RequestFits(w.key, v)
    BY DEF RequestFits
<1>11. Changes(w, View(c)) = Row(w.key, v)
    BY DEF Changes, Row
<1> QED BY <1>9, <1>10, <1>11 DEF Effect

LEMMA DecisionEffect ==
    ASSUME DatabaseOk, DecisionsOk, NEW c \in Connections, NEW r \in Requests, InFlight(r),
           NEW ask, ask = job[r].ask, NEW w, Unblocked(c, w), w.how = "update",
           w.key = RequestKey(ask.of), w.key \in DOMAIN db, RequestRow(ask.of).to = ask.actor.org,
           ask.decision \in {"accepted", "rejected"}, w.value = [ state |-> ask.decision, by |-> r ],
           NEW v, v = Over(w.value, View(c)[w.key])
    PROVE  /\ Changes(w, View(c)) = Row(w.key, v) /\ Effect(c, w.key, v)
           /\ v.state = ask.decision
<1>0. w.key \in DOMAIN View(c) /\ w.key[1] = "request"
    BY ViewFits DEF RequestKey
<1>1. PICK row : row = View(c)[w.key]
    OBVIOUS
<1>2. RowOk(w.key, row)
    BY <1>0, <1>1, ViewFits DEF RowsOk
<1>3. row = [ from |-> row.from, to |-> row.to, type |-> row.type, state |-> row.state,
              by |-> row.by ]
    BY <1>0, <1>2 DEF RowOk
<1>4. v = [ from |-> row.from, to |-> row.to, type |-> row.type, state |-> ask.decision,
            by |-> r ]
    BY <1>1, <1>3, DecidedRow
<1>5. RowOk(w.key, v)
    BY <1>0, <1>4 DEF RowOk, Tables
<1>6. Claims(w.key, v) = {w.key}
    BY <1>0, <1>4 DEF Claims
<1>7. w.key \in Claims(w.key, row)
    BY <1>0, ClaimHeads DEF Tables
<1>8. \A d \in Connections \ {c} : w.key \notin HeldBy(tx[d].writes, db)
    BY NothingNeededIsHeld DEF Needs
<1>9. Free(db, tx, c, w.key, v)
    BY <1>0, <1>1, <1>5, <1>6, <1>7, <1>8, OwnRowIsFree DEF DatabaseOk, View
<1>10. SameRequest(row, db[w.key])
    BY <1>0, <1>1, SeenRequests DEF RequestFits
<1>11. db[w.key].to = ask.actor.org
    BY DEF RequestRow, RequestKey
<1>12. RequestFits(w.key, v)
    <2>1. v.from = row.from /\ v.to = row.to /\ v.type = row.type /\ v.by = r
        BY <1>4
    <2>2. SameRequest(v, db[w.key])
        BY <1>10, <2>1 DEF SameRequest
    <2>3. v.to = ask.actor.org
        BY <1>11, <2>2 DEF SameRequest
    <2>4. DecidedByTarget(v)
        BY <2>1, <2>3 DEF DecidedByTarget, InFlight
    <2> QED BY <2>2, <2>4 DEF RequestFits
<1>13. Changes(w, View(c)) = Row(w.key, v)
    BY <1>0 DEF Changes, Row
<1> QED BY <1>4, <1>9, <1>12, <1>13, SMTT(60) DEF Effect

LEMMA NoRow ==
    ASSUME NEW w, NEW rows, w.how = "update", w.key \notin DOMAIN rows
    PROVE  Changes(w, rows) = <<>>
BY DEF Changes

\* The next write of a handler that does not have to wait for another.
Due(r, c, w) ==
    /\ r \in Requests /\ pc[r] \in {"write", "store"} /\ held[r] = c /\ c \in Connections
    /\ job[r].todo # <<>> /\ w = Head(job[r].todo) /\ Unblocked(c, w)

LEMMA DueIs ==
    ASSUME HandlersOk, NEW r \in Requests, Writing(r), ~Waits(r),
           NEW c, c = held[r], NEW w, w = Head(job[r].todo)
    PROVE  Due(r, c, w)
<1>1. held[r] # None /\ held[r] \in Connections \union {None} /\ pc[r] \in {"write", "store"}
    BY DEF HandlersOk, Writing, Runs
<1> QED BY <1>1 DEF Due, Writing, Waits, Runs, Unblocked

LEMMA DueIsInFlight ==
    ASSUME NEW r, NEW c, NEW w, Due(r, c, w)
    PROVE  InFlight(r)
BY DEF Due, InFlight, Ended

LEMMA DueIsAllowed ==
    ASSUME HandlersOk, NEW r, NEW c, NEW w, Due(r, c, w)
    PROVE  /\ WriteOk(w, r, job[r].ask) /\ AskOk(pc[r], job[r].ask)
           /\ 1 \in DOMAIN job[r].todo /\ w = job[r].todo[1]
<1>1. JobOk(r, pc[r], job[r])
    BY DueIsInFlight DEF Due, HandlersOk
<1>2. PICK todo : todo = job[r].todo
    OBVIOUS
<1>3. TodoOk(todo, r, job[r].ask) /\ AskOk(pc[r], job[r].ask)
    BY <1>1, <1>2 DEF JobOk
<1>4. todo # <<>> /\ w = Head(todo)
    BY <1>2 DEF Due
<1>5. todo \in Seq({todo[i] : i \in DOMAIN todo})
    BY <1>3 DEF TodoOk
<1>6. 1 \in DOMAIN todo /\ w = todo[1]
    BY <1>4, <1>5
<1> QED BY <1>2, <1>3, <1>6 DEF TodoOk

LEMMA WriteEffect ==
    ASSUME SharedInv, NEW r, NEW c, NEW w, Due(r, c, w), ~Clashes(w, View(c)),
           NEW ask, ask = job[r].ask
    PROVE  \/ \E v : /\ Effect(c, w.key, v)
                     /\ Changes(w, View(c)) = Row(w.key, v)
                     /\ w.how = "update" => w.key \in DOMAIN View(c)
                     /\ (w.how = "update" /\ ask.kind = "decide") => v.state = ask.decision
           \/ Changes(w, View(c)) = <<>> /\ w.key \in DOMAIN View(c) /\ w.how = "insertMissing"
           \/ Changes(w, View(c)) = <<>> /\ w.how = "update" /\ ask.kind = "profile"
<1>0. DatabaseOk /\ DecisionsOk /\ HandlersOk /\ r \in Requests /\ c \in Connections
    BY DEF SharedInv, Due
<1>1. WriteOk(w, r, ask) /\ AskOk(pc[r], ask) /\ Unblocked(c, w)
    BY <1>0, DueIsAllowed DEF Due
<1>2. CASE w.how = "insert"
    <2>1. Changes(w, View(c)) = Row(w.key, w.value) /\ Effect(c, w.key, w.value)
        BY <1>0, <1>1, <1>2, InsertEffect
    <2> QED BY <1>2, <2>1
<1>3. CASE w.how \in {"upsert", "insertMissing"}
    <2>1. w.how = "upsert" => Changes(w, View(c)) = Row(w.key, w.value)
        BY DEF Changes, Row
    <2>2. /\ \/ Changes(w, View(c)) = Row(w.key, w.value)
             \/ Changes(w, View(c)) = <<>> /\ w.key \in DOMAIN View(c)
          /\ Effect(c, w.key, w.value)
        BY <1>0, <1>1, <1>3, UpsertEffect
    <2>3. CASE Changes(w, View(c)) = Row(w.key, w.value)
        BY <1>3, <2>2, <2>3
    <2>4. CASE Changes(w, View(c)) # Row(w.key, w.value)
        BY <1>3, <2>1, <2>2, <2>4
    <2> QED BY <2>3, <2>4
<1>4. ASSUME w.how = "update", w.key[1] = "organization", ask.kind = "profile",
             w.value = [ alias |-> w.value.alias ], w.key \in DOMAIN View(c)
      PROVE  \E v : Effect(c, w.key, v) /\ Changes(w, View(c)) = Row(w.key, v)
    <2>1. PICK v : v = Over(w.value, View(c)[w.key])
        OBVIOUS
    <2>2. Changes(w, View(c)) = Row(w.key, v) /\ Effect(c, w.key, v)
        BY <1>0, <1>1, <1>4, <2>1, RenamingEffect
    <2> QED BY <2>2
<1>5. ASSUME w.how = "update", ask.kind = "decide", w.key = RequestKey(ask.of),
             w.value = [ state |-> ask.decision, by |-> r ]
      PROVE  /\ w.key \in DOMAIN View(c)
             /\ \E v : Effect(c, w.key, v) /\ Changes(w, View(c)) = Row(w.key, v)
                       /\ v.state = ask.decision
    <2>1. pc[r] = "write"
        BY <1>1, <1>5 DEF AskOk, Kinds, Due
    <2>2. /\ RequestKey(ask.of) \in DOMAIN db /\ ask.decision \in {"accepted", "rejected"}
          /\ RequestRow(ask.of).to = ask.actor.org
        BY <1>1, <1>5, <2>1 DEF AskOk
    <2>3. PICK v : v = Over(w.value, View(c)[w.key])
        OBVIOUS
    <2>4. InFlight(r) /\ w.key \in DOMAIN db
        BY <1>5, <2>2, DueIsInFlight
    <2>5. /\ Changes(w, View(c)) = Row(w.key, v) /\ Effect(c, w.key, v)
          /\ v.state = ask.decision
        BY <1>0, <1>1, <1>5, <2>2, <2>3, <2>4, DecisionEffect
    <2>6. w.key \in DOMAIN View(c)
        BY <1>0, <2>4, ViewFits
    <2> QED BY <2>5, <2>6
<1>6. \/ w.how \in {"insert", "upsert", "insertMissing"}
      \/ /\ w.how = "update" /\ w.key[1] = "organization" /\ ask.kind = "profile"
         /\ w.value = [ alias |-> w.value.alias ]
      \/ /\ w.how = "update" /\ ask.kind = "decide" /\ w.key = RequestKey(ask.of)
         /\ w.value = [ state |-> ask.decision, by |-> r ]
    BY <1>1 DEF WriteOk
<1>7. CASE w.how = "update" /\ ask.kind = "profile"
    <2>1. CASE w.key \in DOMAIN View(c)
        BY <1>4, <1>6, <1>7, <2>1
    <2>2. CASE w.key \notin DOMAIN View(c)
        BY <1>7, <2>2, NoRow
    <2> QED BY <2>1, <2>2
<1>8. CASE w.how = "update" /\ ask.kind = "decide"
    BY <1>5, <1>6, <1>8
<1> QED BY <1>2, <1>3, <1>6, <1>7, <1>8

-----------------------------------------------------------------------------
(* What statements leave of the database.                                  *)

\* Rows stay, a network request between the same organizations.
Grown ==
    \A k \in DOMAIN db :
        /\ k \in DOMAIN db'
        /\ k[1] = "request" => SameRequest(db'[k], db[k])

\* Handlers keep what they were asked.
AsksStay ==
    \A s \in Requests : pc[s] # "idle" => pc'[s] # "idle" /\ job'[s].ask = job[s].ask

LEMMA FitStays ==
    ASSUME AsksStay, NEW k, NEW v, RequestFits(k, v),
           k[1] = "request" /\ k \in DOMAIN db' => k \in DOMAIN db /\ SameRequest(db'[k], db[k])
    PROVE  RequestFits(k, v)'
<1>1. DecidedByTarget(v) => DecidedByTarget(v)'
    BY DEF AsksStay, DecidedByTarget
<1>2. k[1] = "request" /\ k \in DOMAIN db' => SameRequest(v, db'[k])
    BY DEF RequestFits, SameRequest
<1> QED BY <1>1, <1>2 DEF RequestFits

LEMMA DecidedStays ==
    ASSUME AsksStay, NEW k, NEW v, RequestFits(k, v), k \in DOMAIN db' => v = db'[k]
    PROVE  RequestFits(k, v)'
<1>1. DecidedByTarget(v) => DecidedByTarget(v)'
    BY DEF AsksStay, DecidedByTarget
<1>2. k[1] = "request" /\ k \in DOMAIN db' => SameRequest(v, db'[k])
    BY DEF SameRequest
<1> QED BY <1>1, <1>2 DEF RequestFits

LEMMA RequestsFitIntro ==
    ASSUME \A k, v : k \in DOMAIN db' /\ v = db'[k] => RequestFits(k, v)',
           \A c, k, v : c \in Connections /\ k \in DOMAIN tx'[c].writes /\ v = tx'[c].writes[k]
               => RequestFits(k, v)'
    PROVE  DecisionsOk'
<1>1. RequestsFit(db)'
    <2> SUFFICES ASSUME NEW k \in DOMAIN db' PROVE RequestFits(k, db[k])'
        BY DEF RequestsFit
    <2> QED OBVIOUS
<1>2. ASSUME NEW c \in Connections PROVE RequestsFit(tx[c].writes)'
    <2> SUFFICES ASSUME NEW k \in DOMAIN tx'[c].writes PROVE RequestFits(k, tx[c].writes[k])'
        BY DEF RequestsFit
    <2> QED OBVIOUS
<1> QED BY <1>1, <1>2 DEF DecisionsOk

\* Statements that write nothing, transactions that end without their writes.
DropsOnly ==
    /\ UNCHANGED db
    /\ tx' = [c \in Connections |-> tx'[c]]
    /\ \A c \in Connections :
           TransactionOk(tx'[c]) /\ tx'[c].writes \in {<<>>, tx[c].writes}

LEMMA DropKeeps ==
    ASSUME DatabaseOk, DropsOnly
    PROVE  DatabaseOk' /\ Grown
<1>1. EntriesFit(db', tx')
    BY DropsFit DEF DatabaseOk, DropsOnly
<1>2. DatabaseOk'
    BY <1>1 DEF DatabaseOk, DropsOnly
<1> QED BY <1>2 DEF Grown, SameRequest, DropsOnly

LEMMA DropDecides ==
    ASSUME DecisionsOk, DropsOnly, AsksStay
    PROVE  DecisionsOk'
<1>1. ASSUME NEW k, k \in DOMAIN db', NEW v, v = db'[k] PROVE RequestFits(k, v)'
    <2>1. RequestFits(k, v)
        BY <1>1 DEF DecisionsOk, RequestsFit, DropsOnly
    <2> QED BY <1>1, <2>1, FitStays DEF DropsOnly, SameRequest
<1>2. ASSUME NEW c \in Connections, NEW k, k \in DOMAIN tx'[c].writes, NEW v, v = tx'[c].writes[k]
      PROVE  RequestFits(k, v)'
    <2>1. tx'[c].writes = tx[c].writes
        BY <1>2 DEF DropsOnly
    <2>2. RequestFits(k, v)
        BY <1>2, <2>1 DEF DecisionsOk, RequestsFit
    <2> QED BY <1>2, <2>2, FitStays DEF DropsOnly, SameRequest
<1> QED BY <1>1, <1>2, RequestsFitIntro

LEMMA WriteKeeps ==
    ASSUME DatabaseOk, NEW c \in Connections, NEW k, NEW v, Effect(c, k, v),
           Write(c, Row(k, v))
    PROVE  DatabaseOk' /\ Grown
<1>0. EntriesFit(db, tx) /\ TransactionOk(tx[c]) /\ Free(db, tx, c, k, v)
    BY DEF DatabaseOk, Effect
<1>1. CASE tx[c].open
    <2>1. db' = db /\ tx' = [tx EXCEPT ![c].writes = Over(Row(k, v), @)]
        BY <1>1 DEF Write
    <2>2. /\ tx' = [d \in Connections |-> tx'[d]]
          /\ tx'[c] = [ writes |-> Over(Row(k, v), tx[c].writes), open |-> tx[c].open ]
          /\ \A d \in Connections \ {c} : tx'[d] = tx[d]
        BY <1>0, <2>1 DEF DatabaseOk, TransactionOk
    <2>3. EntriesFit(db, tx')
        BY <1>0, <2>2, WriteInside
    <2>4. TransactionOk(tx'[c])
        BY <1>0, <1>1, <2>2 DEF TransactionOk
    <2>5. DatabaseOk'
        BY <2>1, <2>2, <2>3, <2>4 DEF DatabaseOk
    <2> QED BY <2>1, <2>5 DEF Grown, SameRequest
<1>2. CASE ~tx[c].open
    <2>1. db' = Over(Row(k, v), db) /\ tx' = tx
        BY <1>2 DEF Write
    <2>2. tx[c].writes = <<>>
        BY <1>0, <1>2 DEF TransactionOk
    <2>3. EntriesFit(db', tx')
        BY <1>0, <2>1, <2>2, WriteOutside
    <2>4. DatabaseOk'
        BY <2>1, <2>3 DEF DatabaseOk
    <2>5. ASSUME NEW l \in DOMAIN db
          PROVE  l \in DOMAIN db' /\ (l[1] = "request" => SameRequest(db'[l], db[l]))
        <3>1. CASE l = k
            <4>1. l \in DOMAIN db' /\ db'[l] = v
                BY <2>1, <3>1, RowKeys, RowItself
            <4> QED BY <2>5, <3>1, <4>1 DEF Effect, RequestFits
        <3>2. CASE l # k
            BY <2>1, <2>5, <3>2, RowKeys, RowOthers DEF SameRequest
        <3> QED BY <3>1, <3>2
    <2> QED BY <2>4, <2>5 DEF Grown
<1> QED BY <1>1, <1>2

LEMMA WriteDecides ==
    ASSUME DatabaseOk, DecisionsOk, NEW c \in Connections, NEW k, NEW v, Effect(c, k, v),
           Write(c, Row(k, v)), AsksStay
    PROVE  DecisionsOk'
<1>0. TransactionOk(tx[c]) /\ RequestFits(k, v) /\ Free(db, tx, c, k, v)
    BY DEF DatabaseOk, Effect
<1>1. CASE tx[c].open
    <2>1. db' = db /\ tx' = [tx EXCEPT ![c].writes = Over(Row(k, v), @)]
        BY <1>1 DEF Write
    <2>2. /\ tx'[c].writes = Over(Row(k, v), tx[c].writes)
          /\ \A d \in Connections \ {c} : tx'[d] = tx[d]
        BY <1>0, <2>1 DEF DatabaseOk, TransactionOk
    <2>3. ASSUME NEW l, NEW x, RequestFits(l, x) PROVE RequestFits(l, x)'
        BY <2>1, <2>3, FitStays DEF SameRequest
    <2>4. ASSUME NEW l, l \in DOMAIN db', NEW x, x = db'[l] PROVE RequestFits(l, x)'
        BY <2>1, <2>3, <2>4 DEF DecisionsOk, RequestsFit
    <2>5. ASSUME NEW d \in Connections, NEW l, l \in DOMAIN tx'[d].writes, NEW x,
                 x = tx'[d].writes[l]
          PROVE  RequestFits(l, x)'
        <3>1. CASE d # c
            BY <2>2, <2>3, <2>5, <3>1 DEF DecisionsOk, RequestsFit
        <3>2. CASE d = c /\ l = k
            BY <1>0, <2>2, <2>3, <2>5, <3>2, RowItself
        <3>3. CASE d = c /\ l # k
            <4>1. l \in DOMAIN tx[c].writes /\ x = tx[c].writes[l]
                BY <2>2, <2>5, <3>3, RowKeys, RowOthers
            <4> QED BY <2>3, <4>1 DEF DecisionsOk, RequestsFit
        <3> QED BY <3>1, <3>2, <3>3
    <2> QED BY <2>4, <2>5, RequestsFitIntro
<1>2. CASE ~tx[c].open
    <2>1. db' = Over(Row(k, v), db) /\ tx' = tx
        BY <1>2 DEF Write
    <2>2. tx[c].writes = <<>>
        BY <1>0, <1>2 DEF TransactionOk
    <2>3. ASSUME NEW l, l # k, NEW x, RequestFits(l, x) PROVE RequestFits(l, x)'
        <3>1. l \in DOMAIN db' => l \in DOMAIN db /\ db'[l] = db[l]
            BY <2>1, <2>3, RowKeys, RowOthers
        <3> QED BY <2>3, <3>1, FitStays DEF SameRequest
    <2>4. ASSUME NEW l, l \in DOMAIN db', NEW x, x = db'[l] PROVE RequestFits(l, x)'
        <3>1. CASE l = k
            <4>1. x = v
                BY <2>1, <2>4, <3>1, RowItself
            <4> QED BY <1>0, <2>4, <3>1, <4>1, DecidedStays
        <3>2. CASE l # k
            <4>1. l \in DOMAIN db /\ x = db[l]
                BY <2>1, <2>4, <3>2, RowKeys, RowOthers
            <4> QED BY <2>3, <3>2, <4>1 DEF DecisionsOk, RequestsFit
        <3> QED BY <3>1, <3>2
    <2>5. ASSUME NEW d \in Connections, NEW l, l \in DOMAIN tx'[d].writes, NEW x,
                 x = tx'[d].writes[l]
          PROVE  RequestFits(l, x)'
        <3>1. d # c /\ RowsOk(tx[d].writes)
            BY <2>1, <2>2, <2>5 DEF DatabaseOk, EntriesFit
        <3>2. l # k
            BY <1>0, <2>1, <2>5, <3>1, KeysAreHeld DEF Free
        <3> QED BY <2>1, <2>3, <2>5, <3>2 DEF DecisionsOk, RequestsFit
    <2> QED BY <2>4, <2>5, RequestsFitIntro
<1> QED BY <1>1, <1>2

\* COMMIT on c, as its handler or another has it.
Committed(c) ==
    /\ db' = Over(tx[c].writes, db)
    /\ tx' = [tx EXCEPT ![c] = NoTransaction]

LEMMA NothingIsOk == TransactionOk(NoTransaction) /\ NoTransaction.writes = <<>>
BY DEF TransactionOk, NoTransaction

LEMMA CommitKeeps ==
    ASSUME DatabaseOk, DecisionsOk, NEW c \in Connections, Committed(c)
    PROVE  DatabaseOk' /\ Grown
<1>1. /\ tx' = [d \in Connections |-> tx'[d]] /\ tx'[c] = NoTransaction
      /\ \A d \in Connections \ {c} : tx'[d] = tx[d]
    BY DEF Committed, DatabaseOk
<1>2. EntriesFit(db', tx')
    BY <1>1, CommitFits, NothingIsOk DEF Committed, DatabaseOk
<1>3. DatabaseOk'
    BY <1>1, <1>2, NothingIsOk DEF DatabaseOk
<1>4. ASSUME NEW k \in DOMAIN db
      PROVE  k \in DOMAIN db' /\ (k[1] = "request" => SameRequest(db'[k], db[k]))
    <2>1. db' = View(c)
        BY DEF Committed, View
    <2>2. k \in DOMAIN db'
        BY <2>1, ViewFits
    <2>3. CASE k[1] = "request"
        BY <1>4, <2>1, <2>2, <2>3, SeenRequests DEF RequestFits
    <2> QED BY <2>2, <2>3
<1> QED BY <1>3, <1>4 DEF Grown

LEMMA CommitDecides ==
    ASSUME DatabaseOk, DecisionsOk, NEW c \in Connections, Committed(c), AsksStay
    PROVE  DecisionsOk'
<1>1. db' = View(c)
    BY DEF Committed, View
<1>2. tx'[c].writes = <<>> /\ \A d \in Connections \ {c} : tx'[d] = tx[d]
    BY NothingIsOk DEF Committed, DatabaseOk
<1>3. ASSUME NEW l, l \in DOMAIN db', NEW x, x = db'[l] PROVE RequestFits(l, x)'
    <2>1. l[1] = "request" => RequestFits(l, x)
        BY <1>1, <1>3, SeenRequests
    <2>2. RequestFits(l, x)
        BY <2>1 DEF RequestFits
    <2> QED BY <1>3, <2>2, DecidedStays
<1>4. ASSUME NEW d \in Connections, NEW l, l \in DOMAIN tx'[d].writes, NEW x,
             x = tx'[d].writes[l]
      PROVE  RequestFits(l, x)'
    <2>1. d # c /\ tx'[d] = tx[d]
        BY <1>2, <1>4
    <2>2. RowsOk(tx[d].writes) /\ RowsOk(tx[c].writes) /\ EntriesFit(db, tx)
        BY DEF DatabaseOk, EntriesFit
    <2>3. l \notin DOMAIN tx[c].writes
        BY <1>4, <2>1, <2>2, KeysAreHeld, HeldApart
    <2>4. l \in DOMAIN db' => l \in DOMAIN db /\ db'[l] = db[l]
        BY <2>3, OverKeys, OverSecond DEF Committed
    <2>5. RequestFits(l, x)
        BY <1>4, <2>1 DEF DecisionsOk, RequestsFit
    <2> QED BY <2>4, <2>5, FitStays DEF SameRequest
<1> QED BY <1>3, <1>4, RequestsFitIntro

-----------------------------------------------------------------------------
(* Handlers pass connections on.                                           *)

\* What a handler does with its connection, whatever the statement did.
MovesOn(r, step, j) ==
    /\ pc' = [pc EXCEPT ![r] = step] /\ job' = [job EXCEPT ![r] = j]
    /\ held' \in [Requests -> Connections \union {None}]
    /\ idle' \in Seq(Connections) /\ queue' \in Seq(Requests)

LEMMA ContinueMoves ==
    ASSUME HandlersOk, NEW r \in Requests, NEW step, NEW j, Continue(r, step, j)
    PROVE  MovesOn(r, step, j)
<1>0. /\ held \in [Requests -> Connections \union {None}]
      /\ idle \in Seq(Connections) /\ queue \in Seq(Requests)
    BY DEF HandlersOk
<1>1. CASE queue = <<>>
    BY <1>0, <1>1 DEF Continue, MovesOn
<1>2. CASE queue # <<>>
    <2>1. Head(queue) \in Requests /\ Tail(queue) \in Seq(Requests)
        BY <1>0, <1>2
    <2>2. held' = [held EXCEPT ![r] = None, ![Head(queue)] = held[r]]
        BY <1>2 DEF Continue
    <2>3. held' \in [Requests -> Connections \union {None}]
        BY <1>0, <2>1, <2>2
    <2>4. queue' \in Seq(Requests)
        BY <1>2, <2>1 DEF Continue
    <2> QED BY <1>0, <2>3, <2>4 DEF Continue, MovesOn
<1> QED BY <1>1, <1>2

LEMMA AnswerMoves ==
    ASSUME HandlersOk, NEW r \in Requests, held[r] # None, NEW how, Answer(r, how)
    PROVE  MovesOn(r, how, job[r])
<1>0. /\ held \in [Requests -> Connections \union {None}] /\ held[r] \in Connections
      /\ idle \in Seq(Connections) /\ queue \in Seq(Requests)
      /\ job = [s \in Requests |-> job[s]]
    BY DEF HandlersOk
<1>1. job' = [job EXCEPT ![r] = job[r]]
    BY <1>0 DEF Answer
<1>2. CASE queue = <<>>
    BY <1>0, <1>1, <1>2 DEF Answer, MovesOn
<1>3. CASE queue # <<>>
    <2>1. Head(queue) \in Requests /\ Tail(queue) \in Seq(Requests)
        BY <1>0, <1>3
    <2>2. held' = [held EXCEPT ![r] = None, ![Head(queue)] = held[r]]
        BY <1>3 DEF Answer
    <2>3. held' \in [Requests -> Connections \union {None}]
        BY <1>0, <2>1, <2>2
    <2> QED BY <1>0, <1>1, <1>3, <2>1, <2>3 DEF Answer, MovesOn
<1> QED BY <1>2, <1>3

LEMMA ArriveMoves ==
    ASSUME HandlersOk, NEW r \in Requests, NEW step, NEW j, Arrive(r, step, j)
    PROVE  MovesOn(r, step, j)
<1>0. /\ held \in [Requests -> Connections \union {None}]
      /\ idle \in Seq(Connections) /\ queue \in Seq(Requests)
    BY DEF HandlersOk
<1>1. CASE idle = <<>>
    <2>1. Append(queue, r) \in Seq(Requests)
        BY <1>0
    <2> QED BY <1>0, <1>1, <2>1 DEF Arrive, MovesOn
<1>2. CASE idle # <<>>
    <2>1. Len(idle) \in Nat /\ Len(idle) > 0 /\ idle[Len(idle)] \in Connections
        BY <1>0, <1>2
    <2>2. SubSeq(idle, 1, Len(idle) - 1) \in Seq(Connections)
        BY <1>0, <2>1
    <2> QED BY <1>0, <1>2, <2>1, <2>2 DEF Arrive, MovesOn
<1> QED BY <1>1, <1>2

\* The places a handler has to choose from after its query has failed.
LEMMA PlacesAre ==
    ASSUME HandlersOk, NEW r \in Requests, held[r] # None, NEW places, places = <<held[r]>> \o idle
    PROVE  /\ places \in Seq(Connections) /\ Len(idle) \in Nat /\ Len(places) = Len(idle) + 1
           /\ places[1] = held[r] /\ \A i \in 1..Len(idle) : places[i + 1] = idle[i]
           /\ places[Len(places)] \in Connections
           /\ SubSeq(places, 1, Len(places) - 1) \in Seq(Connections)
           /\ Len(SubSeq(places, 1, Len(places) - 1)) = Len(idle)
           /\ \A i \in 1..Len(idle) : SubSeq(places, 1, Len(places) - 1)[i] = places[i]
<1>1. held[r] \in Connections /\ idle \in Seq(Connections)
    BY DEF HandlersOk
<1>2. PICK c, i : c = held[r] /\ i = idle
    OBVIOUS
<1>3. /\ places \in Seq(Connections) /\ Len(i) \in Nat /\ Len(places) = Len(i) + 1
      /\ places[1] = c /\ \A n \in 1..Len(i) : places[n + 1] = i[n]
    BY <1>1, <1>2
<1>4. PICK n : n = Len(i)
    OBVIOUS
<1>5. n \in 0..Len(places) /\ n = Len(places) - 1 /\ n + 1 \in 1..Len(places)
    BY <1>3, <1>4
<1>6. /\ SubSeq(places, 1, n) \in Seq(Connections) /\ Len(SubSeq(places, 1, n)) = n
      /\ \A m \in 1..n : SubSeq(places, 1, n)[m] = places[m]
    BY <1>3, <1>5
<1>7. places[Len(places)] \in Connections
    BY <1>3, <1>5
<1> QED BY <1>2, <1>3, <1>4, <1>5, <1>6, <1>7

LEMMA AnewMoves ==
    ASSUME HandlersOk, NEW r \in Requests, held[r] # None, NEW step, NEW j, ContinueAnew(r, step, j)
    PROVE  MovesOn(r, step, j)
<1>1. CASE Continue(r, step, j)
    BY <1>1, ContinueMoves
<1>2. CASE ~Continue(r, step, j)
    <2>1. PICK places : places = <<held[r]>> \o idle
        OBVIOUS
    <2>2. /\ pc' = [pc EXCEPT ![r] = step] /\ job' = [job EXCEPT ![r] = j] /\ queue' = queue
          /\ held' = [held EXCEPT ![r] = places[Len(places)]]
          /\ idle' = SubSeq(places, 1, Len(places) - 1)
        BY <1>2, <2>1 DEF ContinueAnew
    <2>3. places[Len(places)] \in Connections /\ idle' \in Seq(Connections)
        BY <2>1, <2>2, PlacesAre
    <2> QED BY <2>2, <2>3 DEF MovesOn, HandlersOk
<1> QED BY <1>1, <1>2

LEMMA AnswerFailedMoves ==
    ASSUME HandlersOk, NEW r \in Requests, held[r] # None, AnswerFailed(r)
    PROVE  MovesOn(r, "failed", job[r])
<1>1. CASE Answer(r, "failed")
    BY <1>1, AnswerMoves
<1>2. CASE ~Answer(r, "failed")
    <2>1. /\ pc' = [pc EXCEPT ![r] = "failed"] /\ job' = job /\ queue' = queue
          /\ held' = [held EXCEPT ![r] = None] /\ idle' = <<held[r]>> \o idle
        BY <1>2 DEF AnswerFailed
    <2>2. idle' \in Seq(Connections)
        BY <2>1, PlacesAre
    <2>3. job' = [job EXCEPT ![r] = job[r]]
        BY <2>1 DEF HandlersOk
    <2> QED BY <2>1, <2>2, <2>3 DEF MovesOn, HandlersOk
<1> QED BY <1>1, <1>2

LEMMA WriteOkStays ==
    ASSUME Grown, NEW w, NEW r, NEW ask, WriteOk(w, r, ask), 
           ask.kind = "decide" => RequestKey(ask.of) \in DOMAIN db
    PROVE  WriteOk(w, r, ask)'
<1>1. ASSUME ask.kind = "decide" PROVE RelationshipKey(ask.of)' = RelationshipKey(ask.of)
    BY <1>1 DEF Grown, RelationshipKey, RequestRow, RequestKey, SameRequest
<1> QED BY <1>1 DEF WriteOk, RequestKey, RowOk, Tables

LEMMA JobStays ==
    ASSUME Grown, NEW r, NEW step, NEW j, JobOk(r, step, j)
    PROVE  JobOk(r, step, j)'
<1>0. AskOk(step, j.ask) /\ TodoOk(j.todo, r, j.ask)
    BY DEF JobOk
<1>1. ASSUME j.ask.kind = "decide"
      PROVE  /\ RequestKey(j.ask.of) \in DOMAIN db /\ RequestKey(j.ask.of) \in DOMAIN db'
             /\ RequestRow(j.ask.of)'.to = RequestRow(j.ask.of).to
    BY <1>0, <1>1 DEF AskOk, Grown, RequestRow, RequestKey, SameRequest
<1>2. AskOk(step, j.ask)'
    BY <1>0, <1>1 DEF AskOk, Kinds, RequestKey
<1>3. \A i \in DOMAIN j.todo : WriteOk(j.todo[i], r, j.ask)'
    BY <1>0, <1>1, WriteOkStays DEF TodoOk
<1>4. TodoOk(j.todo, r, j.ask)'
    BY <1>0, <1>3 DEF TodoOk
<1> QED BY <1>2, <1>4 DEF JobOk

LEMMA HandlersKeep ==
    ASSUME HandlersOk, Grown, NEW r \in Requests, NEW step \in Steps \union Ended, NEW j,
           MovesOn(r, step, j), step \notin Ended => JobOk(r, step, j)
    PROVE  HandlersOk'
<1>1. /\ pc' \in [Requests -> Steps \union Ended \union {"idle"}]
      /\ job' = [s \in Requests |-> job'[s]]
      /\ pc'[r] = step /\ job'[r] = j
      /\ \A s \in Requests \ {r} : pc'[s] = pc[s] /\ job'[s] = job[s]
    BY DEF HandlersOk, MovesOn
<1>2. \A s \in Requests : pc'[s] = "idle" => job'[s] = None
    BY <1>1 DEF HandlersOk, Steps, Ended
<1>3. ASSUME NEW s \in Requests, InFlight(s)' PROVE JobOk(s, pc[s], job[s])'
    <2>1. PICK p, k : p = pc'[s] /\ k = job'[s]
        OBVIOUS
    <2>2. JobOk(s, p, k)
        BY <1>1, <1>3, <2>1 DEF HandlersOk, InFlight
    <2>3. JobOk(s, p, k)'
        BY <2>2, JobStays
    <2> QED BY <2>1, <2>3
<1> QED BY <1>1, <1>2, <1>3 DEF HandlersOk, MovesOn

LEMMA AsksAreKept ==
    ASSUME HandlersOk, NEW r \in Requests, NEW step, step # "idle", NEW j,
           MovesOn(r, step, j), pc[r] # "idle" => j.ask = job[r].ask
    PROVE  AsksStay
BY DEF HandlersOk, MovesOn, AsksStay

-----------------------------------------------------------------------------
(* What handlers are about to write.                                       *)

LEMMA RegistrationAllowed ==
    ASSUME NEW r, NEW ask
    PROVE  /\ TodoOk(RegistrationWrites(r, ask), r, ask)
           /\ RegistrationWrites(r, ask) # <<>>
           /\ \A i \in DOMAIN RegistrationWrites(r, ask) :
                  RegistrationWrites(r, ask)[i].how # "update"
<1> DEFINE todo == RegistrationWrites(r, ask)
<1>1. ASSUME NEW i \in 1..7
      PROVE  WriteOk(todo[i], r, ask) /\ todo[i].how # "update"
    <2>1. CASE i = 1
        BY <2>1 DEF RegistrationWrites, Insert, WriteOk, RowOk, Tables
    <2>2. CASE i = 2
        BY <2>2 DEF RegistrationWrites, Insert, WriteOk, RowOk, Tables
    <2>3. CASE i = 3
        BY <2>3 DEF RegistrationWrites, Insert, WriteOk, RowOk, Tables
    <2>4. CASE i = 4
        BY <2>4 DEF RegistrationWrites, Upsert, WriteOk
    <2>5. CASE i = 5
        BY <2>5 DEF RegistrationWrites, Insert, WriteOk, RowOk, Tables
    <2>6. CASE i = 6
        BY <2>6 DEF RegistrationWrites, Insert, WriteOk, RowOk, Tables
    <2>7. CASE i = 7
        BY <2>7 DEF RegistrationWrites, Insert, WriteOk, RowOk, Tables
    <2> QED BY <1>1, <2>1, <2>2, <2>3, <2>4, <2>5, <2>6, <2>7
<1>2. DOMAIN todo = 1..7 /\ Len(todo) = 7
    BY DEF RegistrationWrites
<1>3. todo \in Seq({todo[i] : i \in DOMAIN todo})
    BY DEF RegistrationWrites
<1> HIDE DEF todo
<1>4. TodoOk(todo, r, ask)
    BY <1>1, <1>2, <1>3 DEF TodoOk
<1> QED BY <1>1, <1>2, <1>4 DEF todo

LEMMA SequenceOfItsElements ==
    ASSUME NEW s, NEW S, s \in Seq(S)
    PROVE  s \in Seq({s[i] : i \in DOMAIN s})
<1>1. Len(s) \in Nat /\ DOMAIN s = 1..Len(s) /\ s = [i \in 1..Len(s) |-> s[i]]
    BY LenProperties
<1>2. \A i \in 1..Len(s) : s[i] \in {s[n] : n \in DOMAIN s}
    BY <1>1
<1> QED BY <1>1, <1>2, SeqDef

LEMMA InvitationAllowed ==
    ASSUME NEW r, NEW ask, ask.roles \in Seq(STRING)
    PROVE  /\ TodoOk(InvitationWrites(r, ask), r, ask)
           /\ InvitationWrites(r, ask) # <<>>
           /\ \A i \in DOMAIN InvitationWrites(r, ask) :
                  InvitationWrites(r, ask)[i].how # "update"
<1> DEFINE n == 2 * Len(ask.roles)
           pair(i) == Grant(r, ask.actor.org, ask.roles[(i + 1) \div 2])
           grants == [ i \in 1..n |-> pair(i)[2 - (i % 2)] ]
           S == {w \in {Insert(<<"user", r>>, "active"), Insert(<<"credential", r>>, ask.username),
                        Insert(<<"membership", r>>, ask.actor.org),
                        Insert(<<"email", r>>, ask.actor.org)}
                       \union {pair(i)[1] : i \in 1..n} \union {pair(i)[2] : i \in 1..n} : TRUE}
           first == << Insert(<<"user", r>>, "active"), Insert(<<"credential", r>>, ask.username),
                       Insert(<<"membership", r>>, ask.actor.org) >>
           last == << Insert(<<"email", r>>, ask.actor.org) >>
<1>1. \A w \in S : WriteOk(w, r, ask) /\ w.how # "update"
    <2>1. ASSUME NEW w \in {Insert(<<"user", r>>, "active"), Insert(<<"credential", r>>, ask.username),
                        Insert(<<"membership", r>>, ask.actor.org),
                        Insert(<<"email", r>>, ask.actor.org)}
          PROVE  WriteOk(w, r, ask) /\ w.how # "update"
        BY <2>1 DEF Insert, WriteOk, RowOk, Tables
    <2>2. ASSUME NEW i \in 1..n, NEW w, w = pair(i)[1] \/ w = pair(i)[2]
          PROVE  WriteOk(w, r, ask) /\ w.how # "update"
        BY <2>2 DEF Grant, Upsert, WriteOk
    <2> QED BY <2>1, <2>2
<1>2. n \in Nat
    BY LenProperties
<1>3. \A i \in 1..n : 2 - (i % 2) \in {1, 2}
    OBVIOUS
<1>4. ASSUME NEW i \in 1..n PROVE grants[i] \in S
    <2>1. pair(i)[1] \in S /\ pair(i)[2] \in S
        BY <1>4
    <2>2. grants[i] = pair(i)[2 - (i % 2)]
        BY <1>4
    <2> HIDE DEF S, pair, grants
    <2> QED BY <1>3, <1>4, <2>1, <2>2
<1>5. grants \in Seq(S)
    <2>1. grants \in [1..n -> S]
        BY <1>4
    <2> HIDE DEF S, grants, n
    <2> QED BY <1>2, <2>1, SeqDef
<1>6. first \in Seq(S) /\ last \in Seq(S)
    OBVIOUS
<1>7. InvitationWrites(r, ask) = first \o grants \o last
    BY DEF InvitationWrites
<1> HIDE DEF S, first, last, grants, n
<1>8. first \o grants \in Seq(S) /\ InvitationWrites(r, ask) \in Seq(S)
    BY <1>5, <1>6, <1>7, ConcatProperties
<1>9. Len(last) = 1
    BY DEF last
<1>10. Len(InvitationWrites(r, ask)) = Len(first \o grants) + 1
    <2>1. PICK s : s = first \o grants
        OBVIOUS
    <2>2. Len(s \o last) = Len(s) + Len(last)
        BY <1>6, <1>8, <2>1, ConcatProperties
    <2> QED BY <1>7, <1>9, <2>1, <2>2
<1>11. InvitationWrites(r, ask) # <<>>
    BY <1>8, <1>10, LenProperties
<1>12. \A i \in DOMAIN InvitationWrites(r, ask) : InvitationWrites(r, ask)[i] \in S
    BY <1>8
<1> QED BY <1>1, <1>8, <1>11, <1>12, SequenceOfItsElements DEF TodoOk

LEMMA OneMore ==
    ASSUME NEW S, NEW s \in Seq(S), NEW z \in S, NEW v \in Seq(S), Len(v) = Len(s) + 1,
           \A i \in 1..Len(s) : v[i] = s[i], v[Len(s) + 1] = z
    PROVE  s \o <<z>> = v
<1>1. PICK t : t = <<z>>
    OBVIOUS
<1>2. t \in Seq(S) /\ Len(t) = 1 /\ t[1] = z
    BY <1>1
<1>3. /\ s \o t \in Seq(S) /\ Len(s \o t) = Len(s) + Len(t)
      /\ \A i \in 1 .. Len(s) + Len(t) :
             (s \o t)[i] = IF i <= Len(s) THEN s[i] ELSE t[i - Len(s)]
    BY <1>2, ConcatProperties
<1>4. PICK u : u = s \o t
    OBVIOUS
<1>5. Len(s) \in Nat
    BY LenProperties
<1>6. u \in Seq(S) /\ Len(u) = Len(v) /\ \A i \in 1..Len(u) : u[i] = v[i]
    BY <1>2, <1>3, <1>4, <1>5
<1>7. u = v
    BY <1>6, SeqEqual
<1> QED BY <1>1, <1>4, <1>7

LEMMA TwoJoined ==
    ASSUME NEW x, NEW y
    PROVE  <<x>> \o <<y>> = <<x, y>>
<1>1. PICK S, s, v : S = {x, y} /\ s = <<x>> /\ v = <<x, y>>
    OBVIOUS
<1>2. s \in Seq(S) /\ y \in S
    BY <1>1
<1>3. v \in Seq(S)
    BY <1>1
<1>4. Len(s) = 1 /\ s[1] = x
    BY <1>1
<1>5. Len(v) = 2 /\ v[1] = x /\ v[2] = y
    BY <1>1
<1>6. \A i \in 1..Len(s) : v[i] = s[i]
    BY <1>4, <1>5
<1>7. Len(v) = Len(s) + 1 /\ v[Len(s) + 1] = y
    BY <1>4, <1>5
<1>8. s \o <<y>> = v
    BY <1>2, <1>3, <1>6, <1>7, OneMore
<1> QED BY <1>1, <1>8

LEMMA ThreeJoined ==
    ASSUME NEW x, NEW y, NEW z
    PROVE  <<x>> \o <<y>> \o <<z>> = <<x, y, z>>
<1>1. PICK S, s, v : S = {x, y, z} /\ s = <<x, y>> /\ v = <<x, y, z>>
    OBVIOUS
<1>2. s \in Seq(S) /\ z \in S
    BY <1>1
<1>3. v \in Seq(S)
    BY <1>1
<1>4. Len(s) = 2 /\ s[1] = x /\ s[2] = y
    BY <1>1
<1>5. Len(v) = 3 /\ v[1] = x /\ v[2] = y /\ v[3] = z
    BY <1>1
<1>6. \A i \in 1..Len(s) : v[i] = s[i]
    BY <1>4, <1>5
<1>7. Len(v) = Len(s) + 1 /\ v[Len(s) + 1] = z
    BY <1>4, <1>5
<1>8. s \o <<z>> = v
    BY <1>2, <1>3, <1>6, <1>7, OneMore
<1> QED BY <1>1, <1>8, TwoJoined

LEMMA SendingAllowed ==
    ASSUME NEW r, NEW ask, NEW target, ask.kind = "send"
    PROVE  TodoOk(RequestWrites(r, ask, target), r, ask)
<1> DEFINE todo == RequestWrites(r, ask, target)
<1>1. ASSUME NEW i \in 1..2
      PROVE  WriteOk(todo[i], r, ask) /\ todo[i].how # "update"
    <2>1. CASE i = 1
        BY <2>1 DEF RequestWrites, Insert, WriteOk, RowOk, Tables
    <2>2. CASE i = 2
        BY <2>2 DEF RequestWrites, Insert, WriteOk, RowOk, Tables
    <2> QED BY <2>1, <2>2
<1>2. DOMAIN todo = 1..2
    BY DEF RequestWrites
<1>3. todo \in Seq({todo[i] : i \in DOMAIN todo})
    BY DEF RequestWrites
<1> HIDE DEF todo
<1> QED BY <1>1, <1>2, <1>3 DEF TodoOk, todo

LEMMA DecidingAllowed ==
    ASSUME NEW r, NEW ask, NEW row, ask.kind = "decide", ask.decision \in {"accepted", "rejected"},
           <<"relationship", row.from, row.to, row.type>> = RelationshipKey(ask.of)
    PROVE  TodoOk(DecisionWrites(r, ask, row), r, ask)
<1> DEFINE u == Update(<<"request", ask.of>>, [ state |-> ask.decision, by |-> r ])
           i == InsertMissing(<<"relationship", row.from, row.to, row.type>>, r)
           m == Insert(<<"email", r>>, row.from)
           todo == DecisionWrites(r, ask, row)
<1>1. WriteOk(u, r, ask)
    BY DEF Update, WriteOk, RequestKey
<1>2. ask.decision = "accepted" => WriteOk(i, r, ask) /\ i.how # "update"
    BY DEF InsertMissing, WriteOk
<1>3. WriteOk(m, r, ask) /\ m.how # "update"
    BY DEF Insert, WriteOk, RowOk, Tables
<1>4. todo = IF ask.decision = "accepted" THEN << u, i, m >> ELSE << u, m >>
    <2>1. PICK x, y, z : x = u /\ y = i /\ z = m
        OBVIOUS
    <2>2. todo = << x >> \o (IF ask.decision = "accepted" THEN << y >> ELSE <<>>) \o << z >>
        BY <2>1 DEF DecisionWrites
    <2>3. << x >> \o << y >> \o << z >> = << x, y, z >> /\ << x >> \o <<>> \o << z >> = << x, z >>
          /\ << x >> \o <<>> = << x >>
        BY TwoJoined, ThreeJoined
    <2> HIDE DEF u, i, m, todo
    <2> QED BY <2>1, <2>2, <2>3
<1> HIDE DEF u, i, m, todo
<1>5. CASE ask.decision = "accepted"
    <2>1. todo = << u, i, m >>
        BY <1>4, <1>5
    <2>2. DOMAIN todo = 1..3 /\ todo[1] = u /\ todo[2] = i /\ todo[3] = m
          /\ todo \in Seq({todo[n] : n \in DOMAIN todo})
        BY <2>1
    <2> QED BY <1>1, <1>2, <1>3, <1>5, <2>2 DEF TodoOk, todo
<1>6. CASE ask.decision # "accepted"
    <2>1. todo = << u, m >>
        BY <1>4, <1>6
    <2>2. DOMAIN todo = 1..2 /\ todo[1] = u /\ todo[2] = m
          /\ todo \in Seq({todo[n] : n \in DOMAIN todo})
        BY <2>1
    <2> QED BY <1>1, <1>3, <2>2 DEF TodoOk, todo
<1> QED BY <1>5, <1>6

LEMMA TailAllowed ==
    ASSUME NEW r, NEW ask, NEW todo, TodoOk(todo, r, ask), todo # <<>>
    PROVE  /\ TodoOk(Tail(todo), r, ask)
           /\ \A i \in DOMAIN Tail(todo) : Tail(todo)[i].how # "update"
           /\ Len(todo) <= 1 => Tail(todo) = <<>>
<1> DEFINE S == {todo[i] : i \in DOMAIN todo}
<1>1. todo \in Seq(S)
    BY DEF TodoOk
<1> HIDE DEF S
<1>2. /\ Tail(todo) \in Seq(S) /\ Len(todo) \in Nat
      /\ \A i \in DOMAIN Tail(todo) : i \in 1..(Len(todo) - 1) /\ Tail(todo)[i] = todo[i + 1]
      /\ DOMAIN todo = 1..Len(todo) /\ Len(Tail(todo)) = Len(todo) - 1
    BY <1>1
<1>3. Tail(todo) \in Seq({Tail(todo)[i] : i \in DOMAIN Tail(todo)})
    BY <1>2, SequenceOfItsElements
<1>4. \A i \in DOMAIN Tail(todo) :
          WriteOk(Tail(todo)[i], r, ask) /\ Tail(todo)[i].how # "update"
    BY <1>2 DEF TodoOk
<1>5. Len(todo) <= 1 => Tail(todo) = <<>>
    BY <1>1, <1>2
<1> QED BY <1>3, <1>4, <1>5 DEF TodoOk

-----------------------------------------------------------------------------
(* The shared part of the invariant.                                       *)

LEMMA SharedKept ==
    ASSUME SharedInv, NEW r \in Requests, NEW step \in Steps \union Ended, NEW j,
           MovesOn(r, step, j), pc[r] # "idle" => j.ask = job[r].ask,
           step \notin Ended => JobOk(r, step, j),
           DatabaseOk', Grown, AsksStay => DecisionsOk'
    PROVE  SharedInv'
<1>1. step # "idle"
    BY DEF Steps, Ended
<1> QED BY <1>1, AsksAreKept, HandlersKeep DEF SharedInv

LEMMA ReadsAreDrops ==
    ASSUME DatabaseOk, Reads
    PROVE  DropsOnly
BY DEF DatabaseOk, Reads, DropsOnly

LEMMA InFlightJob ==
    ASSUME HandlersOk, NEW r \in Requests, InFlight(r)
    PROVE  /\ JobOk(r, pc[r], job[r]) /\ AskOk(pc[r], job[r].ask)
           /\ TodoOk(job[r].todo, r, job[r].ask)
BY DEF HandlersOk, JobOk

\* A read, and what the handler goes on to.
LEMMA ReadKeeps ==
    ASSUME SharedInv, Reads, NEW r \in Requests, held[r] # None, InFlight(r),
           NEW step \in Steps, NEW j,
           \/ Answer(r, "refused") \/ Answer(r, "done") \/ Answer(r, "failed")
           \/ Continue(r, step, j) /\ j.ask = job[r].ask /\ JobOk(r, step, j)
    PROVE  SharedInv'
<1>0. DatabaseOk /\ HandlersOk /\ DecisionsOk
    BY DEF SharedInv
<1>1. DropsOnly
    BY <1>0, ReadsAreDrops
<1>2. DatabaseOk' /\ Grown /\ (AsksStay => DecisionsOk')
    BY <1>0, <1>1, DropKeeps, DropDecides
<1>3. ASSUME NEW how \in Ended, Answer(r, how) PROVE SharedInv'
    <2>1. MovesOn(r, how, job[r])
        BY <1>0, <1>3, AnswerMoves
    <2> QED BY <1>2, <1>3, <2>1, SharedKept
<1>4. CASE Continue(r, step, j) /\ j.ask = job[r].ask /\ JobOk(r, step, j)
    <2>1. MovesOn(r, step, j)
        BY <1>0, <1>4, ContinueMoves
    <2> QED BY <1>2, <1>4, <2>1, SharedKept
<1> QED BY <1>3, <1>4 DEF Ended

LEMMA AnswerKeeps ==
    ASSUME SharedInv, DropsOnly, NEW r \in Requests, held[r] # None, InFlight(r),
           NEW how \in Ended, Answer(r, how)
    PROVE  SharedInv'
<1>0. DatabaseOk /\ HandlersOk /\ DecisionsOk
    BY DEF SharedInv
<1>1. DatabaseOk' /\ Grown /\ (AsksStay => DecisionsOk')
    BY <1>0, DropKeeps, DropDecides
<1>2. MovesOn(r, how, job[r])
    BY <1>0, AnswerMoves
<1> QED BY <1>1, <1>2, SharedKept

LEMMA ArriveKeeps ==
    ASSUME SharedInv, NEW r \in Requests, NEW step \in Steps, NEW ask,
           Arrive(r, step, Job(ask)), AskOk(step, ask), step # "commit"
    PROVE  SharedInv'
<1>0. DatabaseOk /\ HandlersOk /\ DecisionsOk
    BY DEF SharedInv
<1>1. MovesOn(r, step, Job(ask))
    BY <1>0, ArriveMoves
<1>2. DropsOnly
    BY <1>0 DEF Arrive, DatabaseOk, DropsOnly
<1>3. DatabaseOk' /\ Grown /\ (AsksStay => DecisionsOk')
    BY <1>0, <1>2, DropKeeps, DropDecides
<1>4. TodoOk(<<>>, r, ask)
    BY DEF TodoOk
<1>5. JobOk(r, step, Job(ask))
    BY <1>4 DEF JobOk, Job
<1>6. pc[r] = "idle"
    BY DEF Arrive
<1> QED BY <1>1, <1>3, <1>5, <1>6, SharedKept

-----------------------------------------------------------------------------
(* Each step keeps the shared part.                                        *)

LEMMA RunsIs ==
    ASSUME SharedInv, NEW r \in Requests, NEW step \in Steps, Runs(r, step),
           NEW j, j = job[r]
    PROVE  /\ InFlight(r) /\ held[r] \in Connections /\ held[r] # None
           /\ DatabaseOk /\ DecisionsOk /\ HandlersOk
           /\ JobOk(r, step, j) /\ AskOk(step, j.ask) /\ TodoOk(j.todo, r, j.ask)
           /\ j = [ ask |-> j.ask, todo |-> j.todo, missed |-> j.missed ]
<1>1. InFlight(r) /\ pc[r] = step
    BY DEF Runs, InFlight, Steps, Ended
<1>2. held[r] \in Connections /\ held[r] # None
    BY DEF Runs, SharedInv, HandlersOk
<1> QED BY <1>1, <1>2, InFlightJob DEF SharedInv, JobOk

LEMMA RegisterShared ==
    ASSUME SharedInv, NEW r \in Requests, Register(r)
    PROVE  SharedInv'
<1>1. PICK g, ask :
          /\ g \in Registrations
          /\ ask = [ identifier |-> g.identifier, number |-> g.number,
                     username |-> g.username, kind |-> "register" ]
          /\ Arrive(r, "findIdentifier", Job(ask))
    BY DEF Register
<1>2. AskOk("findIdentifier", ask)
    BY <1>1 DEF AskOk, Kinds
<1> QED BY <1>1, <1>2, ArriveKeeps DEF Steps

LEMMA InviteShared ==
    ASSUME SharedInv, NEW r \in Requests, Invite(r)
    PROVE  SharedInv'
<1>1. PICK a, i, ask :
          /\ a \in Actors /\ i \in Invitations
          /\ ask = [ username |-> i.username, roles |-> i.roles, actor |-> a,
                     kind |-> "invite" ]
          /\ Arrive(r, "findOrganization", Job(ask))
    BY DEF Invite
<1>2. AskOk("findOrganization", ask)
    BY <1>1, NetworkAssumption DEF AskOk, Kinds
<1> QED BY <1>1, <1>2, ArriveKeeps DEF Steps

LEMMA SendRequestShared ==
    ASSUME SharedInv, NEW r \in Requests, SendRequest(r)
    PROVE  SharedInv'
<1>1. PICK a, g, type, ask :
          /\ a \in Actors /\ g \in Registrations /\ type \in RelationshipTypes
          /\ ask = [ identifier |-> g.identifier, type |-> type, actor |-> a,
                     kind |-> "send" ]
          /\ Arrive(r, "findTarget", Job(ask))
    BY DEF SendRequest
<1>2. AskOk("findTarget", ask)
    BY <1>1 DEF AskOk, Kinds
<1> QED BY <1>1, <1>2, ArriveKeeps DEF Steps

LEMMA DecideShared ==
    ASSUME SharedInv, NEW r \in Requests, Decide(r)
    PROVE  SharedInv'
<1>1. PICK a, q, d, ask :
          /\ a \in Actors /\ q \in Requests /\ d \in {"accepted", "rejected"}
          /\ <<"request", q>> \in DOMAIN db
          /\ ask = [ actor |-> a, of |-> q, decision |-> d, kind |-> "decide" ]
          /\ Arrive(r, "readRequest", Job(ask))
    BY DEF Decide
<1>2. AskOk("readRequest", ask)
    BY <1>1 DEF AskOk, Kinds, RequestKey
<1> QED BY <1>1, <1>2, ArriveKeeps DEF Steps

LEMMA UpdateProfileShared ==
    ASSUME SharedInv, NEW r \in Requests, UpdateProfile(r)
    PROVE  SharedInv'
<1>1. PICK a, alias, ask :
          /\ a \in Actors /\ alias \in Aliases
          /\ ask = [ alias |-> alias, actor |-> a, kind |-> "profile" ]
          /\ Arrive(r, "findOrganization", Job(ask))
    BY DEF UpdateProfile
<1>2. AskOk("findOrganization", ask)
    BY <1>1 DEF AskOk, Kinds
<1> QED BY <1>1, <1>2, ArriveKeeps DEF Steps

LEMMA FindIdentifierShared ==
    ASSUME SharedInv, NEW r \in Requests, FindIdentifier(r)
    PROVE  SharedInv'
<1>1. PICK j : j = job[r]
    OBVIOUS
<1>2. Runs(r, "findIdentifier") /\ Reads
    BY DEF FindIdentifier
<1>3. InFlight(r) /\ held[r] # None /\ JobOk(r, "findIdentifier", j)
    BY <1>1, <1>2, RunsIs DEF Steps
<1>4. JobOk(r, "findUsername", j)
    BY <1>3 DEF JobOk, AskOk, Kinds
<1>5. Answer(r, "refused") \/ Continue(r, "findUsername", j)
    BY <1>1 DEF FindIdentifier
<1> QED BY <1>1, <1>2, <1>3, <1>4, <1>5, ReadKeeps DEF Steps

LEMMA FindOrganizationShared ==
    ASSUME SharedInv, NEW r \in Requests, FindOrganization(r)
    PROVE  SharedInv'
<1>1. PICK j, k : j = job[r] /\ k = <<"organization", job[r].ask.actor.org>>
    OBVIOUS
<1>2. Runs(r, "findOrganization") /\ Reads
    BY DEF FindOrganization
<1>3. /\ InFlight(r) /\ held[r] # None /\ JobOk(r, "findOrganization", j)
      /\ AskOk("findOrganization", j.ask)
      /\ j = [ ask |-> j.ask, todo |-> j.todo, missed |-> j.missed ]
    BY <1>1, <1>2, RunsIs DEF Steps
<1>4. CASE j.ask.kind = "profile"
    <2>1. PICK u, n : /\ u = << Update(k, [ alias |-> j.ask.alias ]) >>
                      /\ n = [j EXCEPT !.todo = u]
        OBVIOUS
    <2>2. n = [ ask |-> j.ask, todo |-> u, missed |-> j.missed ]
        BY <1>3, <2>1
    <2>3. WriteOk(Update(k, [ alias |-> j.ask.alias ]), r, j.ask)
        BY <1>1, <1>4 DEF WriteOk, Update
    <2>4. u \in Seq({u[i] : i \in DOMAIN u}) /\ DOMAIN u = 1..1
        BY <2>1
    <2>5. u[1] = Update(k, [ alias |-> j.ask.alias ])
        BY <2>1
    <2>6. TodoOk(u, r, j.ask)
        BY <2>3, <2>4, <2>5 DEF TodoOk
    <2>7. JobOk(r, "store", n)
        BY <1>4, <2>2, <2>6 DEF JobOk, AskOk, Kinds
    <2>8. Answer(r, "refused") \/ Continue(r, "store", n)
        BY <1>1, <1>4, <2>1 DEF FindOrganization
    <2> QED BY <1>1, <1>2, <1>3, <2>2, <2>7, <2>8, ReadKeeps DEF Steps
<1>5. CASE j.ask.kind # "profile"
    <2>1. JobOk(r, "findUsername", j)
        BY <1>3, <1>5 DEF JobOk, AskOk, Kinds
    <2>2. Answer(r, "refused") \/ Continue(r, "findUsername", j)
        BY <1>1, <1>5 DEF FindOrganization
    <2> QED BY <1>1, <1>2, <1>3, <2>1, <2>2, ReadKeeps DEF Steps
<1> QED BY <1>4, <1>5

LEMMA FindUsernameShared ==
    ASSUME SharedInv, NEW r \in Requests, FindUsername(r)
    PROVE  SharedInv'
<1>1. PICK j, u, n : j = job[r] /\ u = WritesOf(r) /\ n = [j EXCEPT !.todo = u]
    OBVIOUS
<1>2. Runs(r, "findUsername") /\ Reads
    BY DEF FindUsername
<1>3. /\ InFlight(r) /\ held[r] # None /\ JobOk(r, "findUsername", j)
      /\ AskOk("findUsername", j.ask)
      /\ j = [ ask |-> j.ask, todo |-> j.todo, missed |-> j.missed ]
    BY <1>1, <1>2, RunsIs DEF Steps
<1>4. n = [ ask |-> j.ask, todo |-> u, missed |-> j.missed ]
    BY <1>1, <1>3
<1>5. TodoOk(u, r, j.ask)
    <2>1. CASE j.ask.kind = "register"
        BY <1>1, <2>1, RegistrationAllowed DEF WritesOf
    <2>2. CASE j.ask.kind # "register"
        <3>1. j.ask.roles \in Seq(STRING)
            BY <1>3, <2>2 DEF AskOk, Kinds
        <3> QED BY <1>1, <2>2, <3>1, InvitationAllowed DEF WritesOf
    <2> QED BY <2>1, <2>2
<1>6. JobOk(r, "begin", n)
    BY <1>3, <1>4, <1>5 DEF JobOk, AskOk, Kinds
<1>7. Answer(r, "refused") \/ Continue(r, "begin", n)
    BY <1>1 DEF FindUsername
<1> QED BY <1>1, <1>2, <1>3, <1>4, <1>6, <1>7, ReadKeeps DEF Steps

LEMMA FindTargetShared ==
    ASSUME SharedInv, NEW r \in Requests, FindTarget(r)
    PROVE  SharedInv'
<1>1. PICK j, o : /\ j = job[r]
                  /\ o = CHOOSE x \in OrganizationsWith(Sees(r), job[r].ask.identifier) : TRUE
    OBVIOUS
<1>2. PICK u, n : u = RequestWrites(r, j.ask, o) /\ n = [j EXCEPT !.todo = u]
    OBVIOUS
<1>3. Runs(r, "findTarget") /\ Reads
    BY DEF FindTarget
<1>4. /\ InFlight(r) /\ held[r] # None /\ AskOk("findTarget", j.ask)
      /\ j = [ ask |-> j.ask, todo |-> j.todo, missed |-> j.missed ]
    BY <1>1, <1>3, RunsIs DEF Steps
<1>5. n = [ ask |-> j.ask, todo |-> u, missed |-> j.missed ]
    BY <1>2, <1>4
<1>6. JobOk(r, "findActive", n)
    <2>1. j.ask.kind = "send"
        BY <1>4 DEF AskOk, Kinds
    <2> QED BY <1>2, <1>4, <1>5, <2>1, SendingAllowed DEF JobOk, AskOk, Kinds
<1>7. Answer(r, "refused") \/ Continue(r, "findActive", n)
    BY <1>1, <1>2 DEF FindTarget
<1> QED BY <1>1, <1>3, <1>4, <1>5, <1>6, <1>7, ReadKeeps DEF Steps

LEMMA FindActiveShared ==
    ASSUME SharedInv, NEW r \in Requests, FindActive(r)
    PROVE  SharedInv'
<1>1. PICK j : j = job[r]
    OBVIOUS
<1>2. Runs(r, "findActive") /\ Reads
    BY DEF FindActive
<1>3. InFlight(r) /\ held[r] # None /\ JobOk(r, "findActive", j)
    BY <1>1, <1>2, RunsIs DEF Steps
<1>4. JobOk(r, "store", j)
    BY <1>3 DEF JobOk, AskOk, Kinds
<1>5. Answer(r, "refused") \/ Continue(r, "store", j)
    BY <1>1 DEF FindActive
<1> QED BY <1>1, <1>2, <1>3, <1>4, <1>5, ReadKeeps DEF Steps

\* The row a decision goes by is a version of the one in the table.
LEMMA ReadRequestIs ==
    ASSUME SharedInv, NEW r \in Requests, ReadRequest(r), NEW j, j = job[r],
           ~Answer(r, "refused")
    PROVE  \E row, u, n :
               /\ row = View(held[r])[RequestKey(j.ask.of)] /\ row.state = "sent"
               /\ RequestKey(j.ask.of) \in DOMAIN View(held[r])
               /\ <<"relationship", row.from, row.to, row.type>> = RelationshipKey(j.ask.of)
               /\ u = DecisionWrites(r, j.ask, row)
               /\ n = [ ask |-> j.ask, todo |-> u, missed |-> j.missed ]
               /\ TodoOk(u, r, j.ask) /\ AskOk("begin", j.ask)
               /\ Continue(r, "begin", n)
<1>1. PICK k, c, row : k = RequestKey(j.ask.of) /\ c = held[r] /\ row = View(c)[k]
    OBVIOUS
<1>2. PICK u, n : u = DecisionWrites(r, j.ask, row) /\ n = [j EXCEPT !.todo = u]
    OBVIOUS
<1>3. Runs(r, "readRequest") /\ Reads
    BY DEF ReadRequest
<1>4. /\ InFlight(r) /\ c \in Connections /\ AskOk("readRequest", j.ask)
      /\ DatabaseOk /\ DecisionsOk
      /\ j = [ ask |-> j.ask, todo |-> j.todo, missed |-> j.missed ]
    BY <1>1, <1>3, RunsIs DEF Steps
<1>5. /\ k \in DOMAIN View(c) /\ row.to = j.ask.actor.org /\ row.state = "sent"
      /\ Continue(r, "begin", n)
    BY <1>1, <1>2 DEF ReadRequest, Sees, RequestKey
<1>6. k \in DOMAIN db /\ j.ask.decision \in {"accepted", "rejected"} /\ j.ask.kind = "decide"
    BY <1>1, <1>4 DEF AskOk, Kinds
<1>7. SameRequest(row, db[k])
    <2>1. k[1] = "request"
        BY <1>1 DEF RequestKey
    <2> QED BY <1>1, <1>4, <1>5, <1>6, <2>1, SeenRequests DEF RequestFits
<1>8. /\ <<"relationship", row.from, row.to, row.type>> = RelationshipKey(j.ask.of)
      /\ RequestRow(j.ask.of).to = j.ask.actor.org
    BY <1>1, <1>5, <1>7 DEF SameRequest, RelationshipKey, RequestRow, RequestKey
<1>9. TodoOk(u, r, j.ask)
    BY <1>2, <1>6, <1>8, DecidingAllowed
<1>10. AskOk("begin", j.ask)
    BY <1>1, <1>4, <1>6, <1>8 DEF AskOk, Kinds
<1>11. n = [ ask |-> j.ask, todo |-> u, missed |-> j.missed ]
    BY <1>2, <1>4
<1> QED BY <1>1, <1>2, <1>5, <1>8, <1>9, <1>10, <1>11

LEMMA ReadRequestShared ==
    ASSUME SharedInv, NEW r \in Requests, ReadRequest(r)
    PROVE  SharedInv'
<1>1. PICK j : j = job[r]
    OBVIOUS
<1>2. Runs(r, "readRequest") /\ Reads
    BY DEF ReadRequest
<1>3. InFlight(r) /\ held[r] # None
    BY <1>1, <1>2, RunsIs DEF Steps
<1>4. CASE Answer(r, "refused")
    BY <1>2, <1>3, <1>4, ReadsAreDrops, AnswerKeeps DEF Ended, SharedInv
<1>5. CASE ~Answer(r, "refused")
    <2>1. PICK u, n : /\ n = [ ask |-> j.ask, todo |-> u, missed |-> j.missed ]
                      /\ TodoOk(u, r, j.ask) /\ AskOk("begin", j.ask) /\ Continue(r, "begin", n)
        BY <1>1, <1>5, ReadRequestIs
    <2>2. JobOk(r, "begin", n) /\ n.ask = j.ask
        BY <2>1 DEF JobOk
    <2> QED BY <1>1, <1>2, <1>3, <2>1, <2>2, ReadKeeps DEF Steps
<1> QED BY <1>4, <1>5

LEMMA ReadBackShared ==
    ASSUME SharedInv, NEW r \in Requests, ReadBack(r)
    PROVE  SharedInv'
<1>1. Runs(r, "readBack") /\ Reads /\ (Answer(r, "done") \/ Answer(r, "failed"))
    BY DEF ReadBack
<1>2. InFlight(r) /\ held[r] # None
    BY <1>1, RunsIs DEF Steps
<1> QED BY <1>1, <1>2, ReadsAreDrops, AnswerKeeps DEF Ended, SharedInv

\* A handler goes on after a statement that dropped at most.
LEMMA DropMovesOn ==
    ASSUME SharedInv, DropsOnly, NEW r \in Requests, InFlight(r), held[r] # None,
           NEW step \in Steps, NEW j, Continue(r, step, j), j.ask = job[r].ask, JobOk(r, step, j)
    PROVE  SharedInv'
<1>0. DatabaseOk /\ HandlersOk /\ DecisionsOk
    BY DEF SharedInv
<1>1. DatabaseOk' /\ Grown /\ (AsksStay => DecisionsOk')
    BY <1>0, DropKeeps, DropDecides
<1>2. MovesOn(r, step, j)
    BY <1>0, ContinueMoves
<1> QED BY <1>1, <1>2, SharedKept

LEMMA ThrowIs ==
    ASSUME SharedInv, NEW r \in Requests, InFlight(r), held[r] # None, Throw(r)
    PROVE  \E step \in {"failed", "rollback"} :
               /\ step = "rollback" <=> pc[r] \in {"write", "commit"}
               /\ MovesOn(r, step, job[r])
               /\ step = "rollback" => JobOk(r, step, job[r])
<1>1. PICK j : j = job[r]
    OBVIOUS
<1>2. pc[r] \in {"write", "commit"} => JobOk(r, "rollback", j)
    BY <1>1, InFlightJob DEF SharedInv, JobOk, AskOk, Kinds
<1>3. CASE pc[r] \in {"write", "commit"}
    <2>1. ContinueAnew(r, "rollback", j)
        BY <1>1, <1>3 DEF Throw
    <2>2. MovesOn(r, "rollback", j)
        BY <2>1, AnewMoves DEF SharedInv
    <2> QED BY <1>1, <1>2, <1>3, <2>2
<1>4. CASE pc[r] \notin {"write", "commit"}
    <2>1. AnswerFailed(r)
        BY <1>4 DEF Throw
    <2>2. MovesOn(r, "failed", j)
        BY <1>1, <2>1, AnswerFailedMoves DEF SharedInv
    <2> QED BY <1>1, <1>4, <2>2
<1> QED BY <1>3, <1>4

LEMMA ThrowKeeps ==
    ASSUME SharedInv, DropsOnly, NEW r \in Requests, InFlight(r), held[r] # None, Throw(r)
    PROVE  SharedInv'
<1>0. PICK j : j = job[r]
    OBVIOUS
<1>1. PICK step \in {"failed", "rollback"} :
          MovesOn(r, step, j) /\ (step = "rollback" => JobOk(r, step, j))
    BY <1>0, ThrowIs
<1>2. DatabaseOk' /\ Grown /\ (AsksStay => DecisionsOk')
    BY DropKeeps, DropDecides DEF SharedInv
<1>3. CASE step = "failed"
  <2>1. step \in Ended /\ step \in Steps \union Ended
      BY <1>3 DEF Ended
  <2> QED BY <1>0, <1>1, <1>2, <2>1, SharedKept
<1>4. CASE step = "rollback"
  <2>1. step \in Steps
      BY <1>4 DEF Steps
  <2>2. step \in Steps \union Ended /\ (step \notin Ended => JobOk(r, step, j))
      BY <1>1, <1>4, <2>1
  <2> QED BY <1>0, <1>1, <1>2, <2>2, SharedKept
<1> QED BY <1>3, <1>4

LEMMA EndIsDrop ==
    ASSUME DatabaseOk, NEW c \in Connections, tx' = [tx EXCEPT ![c] = NoTransaction], UNCHANGED db
    PROVE  DropsOnly
BY NothingIsOk DEF DatabaseOk, DropsOnly

LEMMA FailsIsDrop ==
    ASSUME DatabaseOk, NEW c \in Connections, Fails(c)
    PROVE  DropsOnly
BY EndIsDrop DEF Fails, Closes

LEMMA BeginIsDrop ==
    ASSUME DatabaseOk, NEW c \in Connections, Begin(c)
    PROVE  DropsOnly
<1>1. TransactionOk(tx[c]) /\ tx = [d \in Connections |-> tx[d]]
    BY DEF DatabaseOk
<1>2. tx'[c] = [ writes |-> tx[c].writes, open |-> TRUE ]
    BY <1>1 DEF Begin, TransactionOk
<1>3. TransactionOk(tx'[c])
    BY <1>1, <1>2 DEF TransactionOk
<1>4. \A d \in Connections \ {c} : tx'[d] = tx[d]
    BY <1>1 DEF Begin
<1> QED BY <1>1, <1>2, <1>3, <1>4 DEF DatabaseOk, Begin, DropsOnly

LEMMA BeginShared ==
    ASSUME SharedInv, NEW r \in Requests, BeginTransaction(r)
    PROVE  SharedInv'
<1>1. PICK j : j = job[r]
    OBVIOUS
<1>2. Runs(r, "begin") /\ Begin(held[r]) /\ Continue(r, "write", j)
    BY <1>1 DEF BeginTransaction
<1>3. InFlight(r) /\ held[r] # None /\ JobOk(r, "begin", j) /\ held[r] \in Connections /\ DatabaseOk
    BY <1>1, <1>2, RunsIs DEF Steps
<1>4. JobOk(r, "write", j)
    BY <1>3 DEF JobOk, AskOk, Kinds
<1>5. DropsOnly
    BY <1>2, <1>3, BeginIsDrop DEF Runs
<1> QED BY <1>1, <1>2, <1>3, <1>4, <1>5, DropMovesOn DEF Steps

\* What WriteRow does, as steps of the database and of the handler.
WriteHappens(r, c, w) == Write(c, Changes(w, View(c)))

LEMMA WriteStep ==
    ASSUME SharedInv, NEW r \in Requests, WriteRow(r), NEW j, j = job[r]
    PROVE  \E c, w, n :
               /\ c = held[r] /\ w = Head(j.todo) /\ Due(r, c, w) /\ j.todo # <<>>
               /\ n = [ ask |-> j.ask, todo |-> Tail(j.todo),
                        missed |-> j.missed \/ (w.how = "update" /\ w.key \notin DOMAIN View(c)) ]
               /\ \/ Clashes(w, View(c)) /\ Fails(c) /\ Throw(r)
                  \/ /\ ~Clashes(w, View(c)) /\ WriteHappens(r, c, w)
                     /\ \/ AfterWrite(r) = "end" /\ Answer(r, "done")
                        \/ AfterWrite(r) # "end" /\ Continue(r, AfterWrite(r), n)
<1>1. PICK c, w : c = held[r] /\ w = Head(j.todo)
    OBVIOUS
<1>2. Due(r, c, w) /\ j.todo # <<>>
    BY <1>1, DueIs DEF WriteRow, SharedInv, Writing
<1>3. JobOk(r, pc[r], j)
    BY <1>2, DueIsInFlight, InFlightJob DEF SharedInv
<1>4. j = [ ask |-> j.ask, todo |-> j.todo, missed |-> j.missed ]
    BY <1>3 DEF JobOk
<1>5. PICK m, n : /\ m = (w.how = "update" /\ w.key \notin DOMAIN View(c))
                  /\ n = [j EXCEPT !.todo = Tail(@), !.missed = @ \/ m]
    OBVIOUS
<1>6. n = [ ask |-> j.ask, todo |-> Tail(j.todo), missed |-> j.missed \/ m ]
    BY <1>4, <1>5
<1>7. \/ Clashes(w, View(c)) /\ Fails(c) /\ Throw(r)
      \/ /\ ~Clashes(w, View(c)) /\ WriteHappens(r, c, w)
         /\ \/ AfterWrite(r) = "end" /\ Answer(r, "done")
            \/ AfterWrite(r) # "end" /\ Continue(r, AfterWrite(r), n)
    BY <1>1, <1>5 DEF WriteRow, Sees, WriteHappens
<1> QED BY <1>1, <1>2, <1>5, <1>6, <1>7

LEMMA NothingWritten ==
    ASSUME DatabaseOk, NEW c \in Connections, Write(c, <<>>)
    PROVE  UNCHANGED <<db, tx>>
<1>1. RowsOk(db) /\ RowsOk(tx[c].writes) /\ tx = [d \in Connections |-> tx[d]]
      /\ TransactionOk(tx[c])
    BY DEF DatabaseOk, EntriesFit
<1>2. Over(<<>>, db) = db /\ Over(<<>>, tx[c].writes) = tx[c].writes
    BY <1>1, OverNothing DEF RowsOk
<1>3. CASE tx[c].open
    <2>1. db' = db /\ tx' = [tx EXCEPT ![c].writes = Over(<<>>, @)]
        BY <1>3 DEF Write
    <2>2. tx'[c] = [ writes |-> tx[c].writes, open |-> tx[c].open ]
        BY <1>1, <1>2, <2>1 DEF TransactionOk
    <2>3. tx'[c] = tx[c]
        BY <1>1, <2>2 DEF TransactionOk
    <2>4. \A d \in Connections : tx'[d] = tx[d]
        BY <1>1, <2>1, <2>3
    <2>5. tx' = [d \in Connections |-> tx'[d]]
        BY <1>1, <2>1
    <2> QED BY <1>1, <2>1, <2>4, <2>5
<1>4. CASE ~tx[c].open
    BY <1>2, <1>4 DEF Write
<1> QED BY <1>3, <1>4

LEMMA WrittenKeeps ==
    ASSUME SharedInv, NEW r, NEW c, NEW w, Due(r, c, w), ~Clashes(w, View(c)),
           WriteHappens(r, c, w)
    PROVE  DatabaseOk' /\ Grown /\ (AsksStay => DecisionsOk')
<1>0. DatabaseOk /\ DecisionsOk /\ c \in Connections
    BY DEF SharedInv, Due
<1>1. CASE \E v : Effect(c, w.key, v) /\ Changes(w, View(c)) = Row(w.key, v)
    <2>1. PICK k, v : /\ Effect(c, k, v) /\ Write(c, Row(k, v))
        BY <1>1 DEF WriteHappens
    <2> QED BY <1>0, <2>1, WriteKeeps, WriteDecides
<1>2. CASE Changes(w, View(c)) = <<>>
    <2>1. UNCHANGED <<db, tx>>
        BY <1>0, <1>2, NothingWritten DEF WriteHappens
    <2>2. DropsOnly
        BY <1>0, <2>1, ReadsAreDrops DEF Reads
    <2> QED BY <1>0, <2>2, DropKeeps, DropDecides
<1> QED BY <1>1, <1>2, WriteEffect

LEMMA AfterWriteIs ==
    ASSUME SharedInv, NEW r, NEW c, NEW w, Due(r, c, w), NEW j, j = job[r],
           NEW step, step = AfterWrite(r), step # "end", NEW n, NEW m,
           n = [ ask |-> j.ask, todo |-> Tail(j.todo), missed |-> m ]
    PROVE  step \in Steps /\ JobOk(r, step, n)
<1>1. /\ r \in Requests /\ InFlight(r) /\ j.todo # <<>> /\ pc[r] \in {"write", "store"}
      /\ AskOk(pc[r], j.ask) /\ TodoOk(j.todo, r, j.ask)
    BY DueIsInFlight, InFlightJob DEF Due, SharedInv
<1>2. TodoOk(Tail(j.todo), r, j.ask) /\ (Len(j.todo) <= 1 => Tail(j.todo) = <<>>)
    BY <1>1, TailAllowed
<1>3. Len(j.todo) \in Nat
    BY <1>1, LenProperties DEF TodoOk
<1>4. CASE Len(j.todo) > 1
    <2>1. step = pc[r]
        BY <1>4 DEF AfterWrite
    <2> QED BY <1>1, <1>2, <2>1 DEF JobOk, Steps
<1>5. CASE ~(Len(j.todo) > 1)
    <2>1. \/ pc[r] = "write" /\ step = "commit"
          \/ pc[r] = "store" /\ step = "readBack" /\ j.ask.kind = "profile"
        BY <1>1, <1>5 DEF AfterWrite
    <2>2. Tail(j.todo) = <<>>
        BY <1>2, <1>3, <1>5
    <2>3. AskOk(step, j.ask)
        BY <1>1, <2>1 DEF AskOk, Kinds
    <2> QED BY <1>2, <2>1, <2>2, <2>3 DEF JobOk, Steps
<1> QED BY <1>4, <1>5

LEMMA WriteRowShared ==
    ASSUME SharedInv, NEW r \in Requests, WriteRow(r)
    PROVE  SharedInv'
<1>1. PICK j, step : j = job[r] /\ step = AfterWrite(r)
    OBVIOUS
<1>2. PICK c, w, n : 
          /\ c = held[r] /\ w = Head(j.todo) /\ Due(r, c, w) /\ j.todo # <<>>
          /\ n = [ ask |-> j.ask, todo |-> Tail(j.todo),
                   missed |-> j.missed \/ (w.how = "update" /\ w.key \notin DOMAIN View(c)) ]
          /\ \/ Clashes(w, View(c)) /\ Fails(c) /\ Throw(r)
             \/ /\ ~Clashes(w, View(c)) /\ WriteHappens(r, c, w)
                /\ \/ step = "end" /\ Answer(r, "done")
                   \/ step # "end" /\ Continue(r, step, n)
    BY <1>1, WriteStep
<1>3. /\ DatabaseOk /\ HandlersOk /\ c \in Connections /\ InFlight(r) /\ held[r] # None
    BY <1>2, DueIsInFlight DEF Due, SharedInv, WriteRow, Writing, Runs
<1>4. CASE Clashes(w, View(c)) /\ Fails(c) /\ Throw(r)
    BY <1>3, <1>4, FailsIsDrop, ThrowKeeps
<1>5. CASE ~Clashes(w, View(c)) /\ WriteHappens(r, c, w) /\ step = "end" /\ Answer(r, "done")
    <2>1. DatabaseOk' /\ Grown /\ (AsksStay => DecisionsOk')
        BY <1>2, <1>5, WrittenKeeps
    <2>2. MovesOn(r, "done", job[r])
        BY <1>3, <1>5, AnswerMoves
    <2> QED BY <2>1, <2>2, SharedKept DEF Ended
<1>6. CASE ~Clashes(w, View(c)) /\ WriteHappens(r, c, w) /\ step # "end" /\ Continue(r, step, n)
    <2>1. DatabaseOk' /\ Grown /\ (AsksStay => DecisionsOk')
        BY <1>2, <1>6, WrittenKeeps
    <2>2. MovesOn(r, step, n)
        BY <1>3, <1>6, ContinueMoves
    <2>3. step \in Steps /\ JobOk(r, step, n) /\ n.ask = j.ask
        BY <1>1, <1>2, <1>6, AfterWriteIs
    <2> QED BY <1>1, <2>1, <2>2, <2>3, SharedKept
<1> QED BY <1>2, <1>4, <1>5, <1>6

LEMMA CommitIs ==
    ASSUME SharedInv, NEW r \in Requests, pc[r] = "commit", held[r] # None, NEW j, j = job[r]
    PROVE  /\ held[r] \in Connections /\ InFlight(r) /\ DatabaseOk /\ DecisionsOk /\ HandlersOk
           /\ JobOk(r, "commit", j) /\ j.ask.kind \in {"register", "invite", "decide"}
           /\ JobOk(r, "readBack", j) /\ JobOk(r, "rollback", j)
<1>1. held[r] \in Connections /\ InFlight(r) /\ DatabaseOk /\ DecisionsOk /\ HandlersOk
    BY DEF SharedInv, HandlersOk, InFlight, Ended
<1>2. JobOk(r, "commit", j)
    BY <1>1, InFlightJob
<1>3. j.ask.kind \in {"register", "invite", "decide"}
    BY <1>2 DEF JobOk, AskOk, Kinds
<1>4. JobOk(r, "readBack", j) /\ JobOk(r, "rollback", j)
    BY <1>2 DEF JobOk, AskOk, Kinds
<1> QED BY <1>1, <1>2, <1>3, <1>4

LEMMA CommitShared ==
    ASSUME SharedInv, NEW r \in Requests, CommitTransaction(r)
    PROVE  SharedInv'
<1>1. PICK j : j = job[r]
    OBVIOUS
<1>2. pc[r] = "commit" /\ held[r] # None /\ Committed(held[r])
    BY DEF CommitTransaction, Commit, Committed
<1>3. /\ held[r] \in Connections /\ DatabaseOk /\ DecisionsOk /\ HandlersOk
      /\ JobOk(r, "readBack", j) /\ JobOk(r, "rollback", j)
    BY <1>1, <1>2, CommitIs
<1>4. DatabaseOk' /\ Grown /\ (AsksStay => DecisionsOk')
    BY <1>2, <1>3, CommitKeeps, CommitDecides
<1>5. \/ Continue(r, "readBack", j) \/ Continue(r, "rollback", j) \/ Answer(r, "done")
    BY <1>1 DEF CommitTransaction
<1>6. \/ MovesOn(r, "readBack", j) \/ MovesOn(r, "rollback", j) \/ MovesOn(r, "done", j)
    BY <1>1, <1>2, <1>3, <1>5, ContinueMoves, AnswerMoves
<1> QED BY <1>1, <1>3, <1>4, <1>6, SharedKept DEF Steps, Ended

LEMMA RollbackShared ==
    ASSUME SharedInv, NEW r \in Requests, RollbackTransaction(r)
    PROVE  SharedInv'
<1>1. /\ held[r] \in Connections /\ InFlight(r) /\ DatabaseOk /\ held[r] # None
      /\ Rollback(held[r]) /\ Answer(r, "failed")
    BY DEF RollbackTransaction, SharedInv, HandlersOk, InFlight, Ended
<1> QED BY <1>1, EndIsDrop, AnswerKeeps DEF Rollback, Ended

LEMMA DeadlockShared ==
    ASSUME SharedInv, NEW r \in Requests, DeadlockDetected(r)
    PROVE  SharedInv'
<1>1. held[r] # None /\ pc[r] \in {"write", "store"}
    BY DEF DeadlockDetected, Waits, Writing, Runs
<1>2. held[r] \in Connections /\ InFlight(r) /\ DatabaseOk
    BY <1>1 DEF SharedInv, HandlersOk, InFlight, Ended
<1> QED BY <1>1, <1>2, FailsIsDrop, ThrowKeeps DEF DeadlockDetected

LEMMA QueryFailsShared ==
    ASSUME SharedInv, NEW r \in Requests, QueryFails(r)
    PROVE  SharedInv'
<1>1. /\ held[r] \in Connections /\ held[r] # None /\ InFlight(r) /\ DatabaseOk /\ DecisionsOk
      /\ HandlersOk
    BY DEF QueryFails, SharedInv, HandlersOk
<1>2. tx' = [tx EXCEPT ![held[r]] = NoTransaction] /\ Throw(r)
    BY DEF QueryFails, Closes
<1>3. CASE UNCHANGED db
    BY <1>1, <1>2, <1>3, EndIsDrop, ThrowKeeps
<1>4. CASE pc[r] = "commit" /\ db' = Over(tx[held[r]].writes, db)
    <2>1. Committed(held[r])
        BY <1>2, <1>4 DEF Committed
    <2>2. DatabaseOk' /\ Grown /\ (AsksStay => DecisionsOk')
        BY <1>1, <2>1, CommitKeeps, CommitDecides
    <2>3. MovesOn(r, "rollback", job[r]) /\ JobOk(r, "rollback", job[r])
        BY <1>1, <1>2, <1>4, ThrowIs
    <2> QED BY <2>2, <2>3, SharedKept DEF Steps
<1> QED BY <1>3, <1>4 DEF QueryFails

\* The places after an idle connection is closed: the same, in another order.
LEMMA IdleReordered ==
    ASSUME HandlersOk, NEW i \in 1..Len(idle), NEW next,
           next = <<idle[i]>> \o SubSeq(idle, 1, i - 1) \o SubSeq(idle, i + 1, Len(idle))
    PROVE  /\ next \in Seq(Connections) /\ Len(next) = Len(idle) /\ Len(idle) \in Nat
           /\ idle[i] \in Connections
           /\ \A n \in 1..Len(idle) :
                  next[n] = IF n = 1 THEN idle[i] ELSE IF n <= i THEN idle[n - 1] ELSE idle[n]
<1>1. PICK s, m : s = idle /\ m = Len(s)
    OBVIOUS
<1>2. s \in Seq(Connections) /\ m \in Nat /\ m = Len(s) /\ i \in 1..m
    BY <1>1 DEF HandlersOk
<1>3. PICK a, b, c : a = <<s[i]>> /\ b = SubSeq(s, 1, i - 1) /\ c = SubSeq(s, i + 1, m)
    OBVIOUS
<1>4. /\ s[i] \in Connections /\ a \in Seq(Connections) /\ Len(a) = 1 /\ a[1] = s[i]
    BY <1>2, <1>3
<1>5. i - 1 \in 0..m /\ i + 1 \in 1..(m + 1) /\ m - i \in Nat
    BY <1>2
<1>6. /\ b \in Seq(Connections) /\ Len(b) = i - 1 /\ \A n \in 1..(i - 1) : b[n] = s[n]
    BY <1>2, <1>3, <1>5
<1>7. /\ c \in Seq(Connections) /\ Len(c) = m - i /\ \A n \in 1..(m - i) : c[n] = s[n + i]
    BY <1>2, <1>3, <1>5
<1>8. PICK d : d = a \o b
    OBVIOUS
<1>9. /\ d \in Seq(Connections) /\ Len(d) = i
      /\ \A n \in 1..i : d[n] = IF n <= 1 THEN a[n] ELSE b[n - 1]
  <2>1. \A x, y \in Seq(Connections) : /\ x \o y \in Seq(Connections)
                                       /\ Len(x \o y) = Len(x) + Len(y)
      BY ConcatProperties
  <2>2. d \in Seq(Connections) /\ Len(d) = Len(a) + Len(b)
      BY <1>4, <1>6, <1>8, <2>1
  <2>3. \A n \in 1..(Len(a) + Len(b)) : d[n] = IF n <= Len(a) THEN a[n] ELSE b[n - Len(a)]
      BY <1>4, <1>6, <1>8, ConcatProperties
  <2>4. Len(a) + Len(b) = i
    <3>1. Len(a) = 1 /\ Len(b) = i - 1
        BY <1>4, <1>6, Zenon
    <3>2. i \in Int
        BY <1>2
    <3>3. 1 + (i - 1) = i
        BY <3>2
    <3> QED BY <3>1, <3>3, Zenon
  <2> QED BY <1>4, <2>2, <2>3, <2>4
<1>10. next = d \o c
    BY <1>1, <1>3, <1>8
<1>11. /\ next \in Seq(Connections) /\ Len(next) = m
       /\ \A n \in 1..m : next[n] = IF n <= i THEN d[n] ELSE c[n - i]
  <2>1. \A x, y \in Seq(Connections) : /\ x \o y \in Seq(Connections)
                                       /\ Len(x \o y) = Len(x) + Len(y)
      BY ConcatProperties
  <2>2. next \in Seq(Connections) /\ Len(next) = Len(d) + Len(c)
      BY <1>7, <1>9, <1>10, <2>1
  <2>3. \A n \in 1..(Len(d) + Len(c)) : next[n] = IF n <= Len(d) THEN d[n] ELSE c[n - Len(d)]
    <3>1. d \in Seq(Connections) /\ c \in Seq(Connections)
        BY <1>7, <1>9
    <3>2. \A n \in 1..(Len(d) + Len(c)) :
              (d \o c)[n] = IF n <= Len(d) THEN d[n] ELSE c[n - Len(d)]
        BY <3>1, ConcatProperties
    <3> QED BY <1>10, <3>2
  <2>4. Len(d) + Len(c) = m
    <3>1. Len(d) = i /\ Len(c) = m - i
        BY <1>7, <1>9, Zenon
    <3>2. i \in Int /\ m \in Int
        BY <1>2
    <3>3. i + (m - i) = m
        BY <3>2
    <3> QED BY <3>1, <3>3, Zenon
  <2> QED BY <1>9, <2>2, <2>3, <2>4
<1>12. ASSUME NEW n \in 1..m
       PROVE  next[n] = IF n = 1 THEN s[i] ELSE IF n <= i THEN s[n - 1] ELSE s[n]
  <2>0. m \in Nat /\ i \in Nat /\ n \in Nat /\ n >= 1 /\ i >= 1 /\ i <= m /\ n <= m
      BY <1>2, <1>12
  <2>1. CASE n = 1
    <3>1. n <= i /\ n \in 1..i
        BY <2>0, <2>1
    <3>2. next[n] = d[n]
        BY <1>11, <1>12, <3>1
    <3>3. d[n] = a[1]
        BY <1>9, <2>1, <3>1
    <3> QED BY <1>4, <2>1, <3>2, <3>3
  <2>2. CASE n # 1 /\ n <= i
    <3>1. n \in 1..i /\ ~(n <= 1) /\ n - 1 \in 1..(i - 1)
        BY <2>0, <2>2
    <3>2. next[n] = d[n]
        BY <1>11, <1>12, <2>2
    <3>3. d[n] = b[n - 1]
        BY <1>9, <3>1
    <3>4. b[n - 1] = s[n - 1]
        BY <1>6, <3>1
    <3> QED BY <2>2, <3>2, <3>3, <3>4
  <2>3. CASE n > i
    <3>1. n - i \in 1..(m - i) /\ (n - i) + i = n /\ n # 1 /\ ~(n <= i)
        BY <2>0, <2>3
    <3>2. next[n] = c[n - i]
        BY <1>11, <1>12, <3>1
    <3>3. c[n - i] = s[n]
        BY <1>7, <3>1
    <3> QED BY <3>1, <3>2, <3>3
  <2>4. n = 1 \/ (n # 1 /\ n <= i) \/ n > i
      BY <2>0
  <2> QED BY <2>1, <2>2, <2>3, <2>4, Zenon
<1>13. /\ next \in Seq(Connections) /\ Len(next) = Len(idle) /\ Len(idle) \in Nat
       /\ idle[i] \in Connections
    BY <1>1, <1>2, <1>4, <1>11, Zenon
<1>14. \A n \in 1..Len(idle) :
          next[n] = IF n = 1 THEN idle[i] ELSE IF n <= i THEN idle[n - 1] ELSE idle[n]
    BY <1>1, <1>12
<1> QED BY <1>13, <1>14

LEMMA IdleClosesIs ==
    ASSUME SharedInv, IdleConnectionCloses
    PROVE  \E i \in 1..Len(idle) :
               /\ tx' = [tx EXCEPT ![idle[i]] = NoTransaction] /\ idle[i] \in Connections
               /\ idle' = <<idle[i]>> \o SubSeq(idle, 1, i - 1) \o SubSeq(idle, i + 1, Len(idle))
               /\ idle' \in Seq(Connections)
               /\ UNCHANGED <<limit, size, db, queue, held, pc, job>>
<1>1. PICK i \in 1..Len(idle) :
          /\ tx' = [tx EXCEPT ![idle[i]] = NoTransaction]
          /\ idle' = <<idle[i]>> \o SubSeq(idle, 1, i - 1) \o SubSeq(idle, i + 1, Len(idle))
          /\ UNCHANGED <<limit, size, db, queue, held, pc, job>>
    BY DEF IdleConnectionCloses, Closes
<1>2. idle' \in Seq(Connections) /\ idle[i] \in Connections
    BY <1>1, IdleReordered DEF SharedInv
<1> QED BY <1>1, <1>2

\* A step that changes no handler and drops at most.
LEMMA HandlersStay ==
    ASSUME SharedInv, DropsOnly, UNCHANGED <<queue, held, pc, job>>, idle' \in Seq(Connections)
    PROVE  SharedInv'
<1>1. AsksStay
    BY DEF AsksStay
<1>2. DatabaseOk' /\ DecisionsOk' /\ Grown
    BY <1>1, DropKeeps, DropDecides DEF SharedInv
<1>3. ASSUME NEW s \in Requests, InFlight(s)' PROVE JobOk(s, pc[s], job[s])'
    <2>1. PICK p, k : p = pc[s] /\ k = job[s] /\ p = pc'[s] /\ k = job'[s]
        OBVIOUS
    <2>2. JobOk(s, p, k)
        BY <1>3, <2>1 DEF SharedInv, HandlersOk, InFlight
    <2>3. JobOk(s, p, k)'
        BY <1>2, <2>2, JobStays
    <2> QED BY <2>1, <2>3
<1>4. HandlersOk'
    BY <1>3 DEF SharedInv, HandlersOk
<1> QED BY <1>2, <1>4 DEF SharedInv

LEMMA IdleClosesShared ==
    ASSUME SharedInv, IdleConnectionCloses
    PROVE  SharedInv'
<1>1. PICK i \in 1..Len(idle) :
          /\ tx' = [tx EXCEPT ![idle[i]] = NoTransaction] /\ idle[i] \in Connections
          /\ idle' \in Seq(Connections) /\ UNCHANGED <<db, queue, held, pc, job>>
    BY IdleClosesIs
<1>2. PICK c \in Connections : tx' = [tx EXCEPT ![c] = NoTransaction]
    BY <1>1
<1>3. DropsOnly
    BY <1>1, <1>2, EndIsDrop DEF SharedInv
<1> QED BY <1>1, <1>3, HandlersStay

LEMMA FreshConnections ==
    ASSUME NEW s \in 1..MaxConnections
    PROVE  /\ [i \in 1..s |-> s + 1 - i] \in Seq(Connections)
           /\ Len([i \in 1..s |-> s + 1 - i]) = s
<1>1. s \in Nat
    BY PoolAssumption
<1>2. [i \in 1..s |-> s + 1 - i] \in [1..s -> Connections]
    BY PoolAssumption DEF Connections
<1>3. [i \in 1..s |-> s + 1 - i] \in Seq(Connections)
    BY <1>1, <1>2, SeqDef
<1> QED BY <1>1, <1>3

LEMMA CrashShared ==
    ASSUME SharedInv, LimitsOk, Crash
    PROVE  SharedInv'
<1>1. DropsOnly
    BY NothingIsOk DEF Crash, DropsOnly, SharedInv, DatabaseOk
<1>2. HandlersOk
    BY DEF SharedInv
<1>3. \A s \in Requests : pc'[s] = (IF InFlight(s) THEN "failed" ELSE pc[s])
    BY DEF Crash
<1>4. job' = job
    BY DEF Crash
<1>5. AsksStay
    BY <1>3, <1>4 DEF AsksStay
<1>6. DatabaseOk' /\ DecisionsOk' 
    BY <1>1, <1>5, DropKeeps, DropDecides DEF SharedInv
<1>7. idle' \in Seq(Connections) /\ queue' \in Seq(Requests)
    <2>1. idle' = [i \in 1..size |-> size + 1 - i] /\ queue' = <<>>
        BY DEF Crash
    <2>2. [i \in 1..size |-> size + 1 - i] \in Seq(Connections)
        BY FreshConnections DEF LimitsOk
    <2> QED BY <2>1, <2>2
<1>8. /\ pc' \in [Requests -> Steps \union Ended \union {"idle"}]
      /\ held' \in [Requests -> Connections \union {None}]
    BY <1>2 DEF Crash, HandlersOk, Ended
<1>9. \A s \in Requests : ~InFlight(s)'
    BY <1>3 DEF InFlight, Ended
<1>10. \A s \in Requests : pc'[s] = "idle" => job'[s] = None
    BY <1>2, <1>3, <1>4 DEF HandlersOk
<1>11. job' = [s \in Requests |-> job'[s]]
    BY <1>2, <1>4 DEF HandlersOk
<1>12. HandlersOk'
    BY <1>7, <1>8, <1>9, <1>10, <1>11 DEF HandlersOk
<1> QED BY <1>6, <1>12 DEF SharedInv

-----------------------------------------------------------------------------
(* The seeded rows.                                                        *)

LEMMA MergedIs ==
    ASSUME NEW r, NEW ask, NEW m, m = Merged(RegistrationWrites(r, ask))
    PROVE  /\ DOMAIN m = { <<"organization", r>>, <<"user", r>>, <<"credential", r>>,
                           <<"role", "organizationAdmin">>, <<"membership", r>>,
                           <<"assignment", r, "organizationAdmin">>, <<"case", r>> }
           /\ m[<<"organization", r>>]
                  = [ identifier |-> ask.identifier, number |-> ask.number, alias |-> None ]
           /\ m[<<"credential", r>>] = ask.username
<1>1. PICK w : w = RegistrationWrites(r, ask)
    OBVIOUS
<1>2. DOMAIN w = 1..7
    BY <1>1 DEF RegistrationWrites
<1>14. /\ w[1] = Insert(<<"organization", r>>,
              [ identifier |-> ask.identifier, number |-> ask.number, alias |-> None ])
      /\ w[2] = Insert(<<"user", r>>, "active")
      /\ w[3] = Insert(<<"credential", r>>, ask.username)
      /\ w[4] = Upsert(<<"role", "organizationAdmin">>, "active")
      /\ w[5] = Insert(<<"membership", r>>, r)
      /\ w[6] = Insert(<<"assignment", r, "organizationAdmin">>, r)
      /\ w[7] = Insert(<<"case", r>>, "submitted")
    BY <1>1 DEF RegistrationWrites
<1>3. /\ w[1].key = <<"organization", r>> /\ w[2].key = <<"user", r>>
      /\ w[3].key = <<"credential", r>> /\ w[4].key = <<"role", "organizationAdmin">>
      /\ w[5].key = <<"membership", r>> /\ w[6].key = <<"assignment", r, "organizationAdmin">>
      /\ w[7].key = <<"case", r>>
      /\ w[1].value = [ identifier |-> ask.identifier, number |-> ask.number, alias |-> None ]
      /\ w[3].value = ask.username
    BY <1>14 DEF Insert, Upsert
<1>4. \A i \in 1..7 : i \in {1, 2, 3, 4, 5, 6, 7}
    OBVIOUS
<1>5. \A i \in 1..7 : w[i].key = <<"organization", r>> => i = 1
    BY <1>3, <1>4
<1>6. \A i \in 1..7 : w[i].key = <<"credential", r>> => i = 3
    BY <1>3, <1>4
<1>7. {w[i].key : i \in DOMAIN w} = 
                         { <<"organization", r>>, <<"user", r>>, <<"credential", r>>,
                           <<"role", "organizationAdmin">>, <<"membership", r>>,
                           <<"assignment", r, "organizationAdmin">>, <<"case", r>> }
    <2>1. {w[i].key : i \in DOMAIN w} = {w[1].key, w[2].key, w[3].key, w[4].key, w[5].key,
                                         w[6].key, w[7].key}
        BY ONLY <1>2, <1>4
    <2> QED BY ONLY <1>3, <2>1
<1>8. m = [ k \in {w[i].key : i \in DOMAIN w} |->
            w[CHOOSE i \in DOMAIN w : w[i].key = k].value ]
    BY <1>1 DEF Merged
<1>9. DOMAIN m = {w[i].key : i \in DOMAIN w}
    BY <1>8
<1>10. m[<<"organization", r>>] = w[CHOOSE i \in DOMAIN w : w[i].key = <<"organization", r>>].value
    BY <1>7, <1>8
<1>11. m[<<"credential", r>>] = w[CHOOSE i \in DOMAIN w : w[i].key = <<"credential", r>>].value
    BY <1>7, <1>8
<1>12. (CHOOSE i \in DOMAIN w : w[i].key = <<"organization", r>>) = 1
    BY <1>2, <1>3, <1>5
<1>13. (CHOOSE i \in DOMAIN w : w[i].key = <<"credential", r>>) = 3
    BY <1>2, <1>3, <1>6
<1> QED BY <1>3, <1>7, <1>9, <1>10, <1>11, <1>12, <1>13

\* A seeded row.
SeedRow(k, v) ==
    \/ \E r \in 1..Seeded :
           /\ k = <<"organization", r>>
           /\ v = [ identifier |-> SeededRegistrations[r].identifier,
                    number |-> SeededRegistrations[r].number, alias |-> None ]
    \/ \E r \in 1..Seeded : k = <<"credential", r>> /\ v = SeededRegistrations[r].username
    \/ \E q \in SeededSent :
           /\ k = <<"request", q.id>>
           /\ v = [ from |-> q.from, to |-> q.to, type |-> q.type, state |-> "sent",
                    by |-> None ]
    \/ k = <<"role", "organizationAdmin">>
    \/ /\ k[1] \in {"user", "membership", "assignment", "case"} /\ k[2] \in 1..Seeded

LEMMA SeedsAre ==
    ASSUME Init, NEW k \in DOMAIN db
    PROVE  SeedRow(k, db[k])
<1> DEFINE rows(r) == Merged(RegistrationWrites(r, SeededAsk(r)))
           keys == UNION {DOMAIN rows(r) : r \in 1..Seeded}
           organizations == [ l \in keys |->
                      LET r == IF l[1] = "role" THEN 1 ELSE l[2]
                      IN  Merged(RegistrationWrites(r, SeededAsk(r)))[l] ]
           sent == [ l \in {<<"request", q.id>> : q \in SeededSent} |->
                      LET q == CHOOSE q \in SeededSent : q.id = l[2]
                      IN  [ from |-> q.from, to |-> q.to, type |-> q.type,
                            state |-> "sent", by |-> None ] ]
<1>1. db = Over(sent, organizations)
    BY DEF Init
<1>2. \A r : /\ DOMAIN rows(r) = { <<"organization", r>>, <<"user", r>>, <<"credential", r>>,
                           <<"role", "organizationAdmin">>, <<"membership", r>>,
                           <<"assignment", r, "organizationAdmin">>, <<"case", r>> }
             /\ rows(r)[<<"organization", r>>]
                  = [ identifier |-> SeededAsk(r).identifier, number |-> SeededAsk(r).number,
                      alias |-> None ]
             /\ rows(r)[<<"credential", r>>] = SeededAsk(r).username
    BY MergedIs
<1>3. CASE k \in DOMAIN sent
    <2>1. PICK p \in SeededSent : k = <<"request", p.id>>
        BY <1>3
    <2>2. PICK q : q = CHOOSE x \in SeededSent : x.id = k[2]
        OBVIOUS
    <2>3. q \in SeededSent /\ q.id = k[2]
        BY <2>1, <2>2
    <2>4. db[k] = sent[k]
        BY <1>1, <1>3, OverFirst
    <2>5. sent[k] = [ from |-> q.from, to |-> q.to, type |-> q.type, state |-> "sent",
                      by |-> None ]
        BY <1>3, <2>2
    <2>6. k = <<"request", q.id>>
        BY <2>1, <2>3
    <2> QED BY <2>3, <2>4, <2>5, <2>6 DEF SeedRow
<1>4. CASE k \notin DOMAIN sent
    <2>1. k \in DOMAIN organizations /\ db[k] = organizations[k]
        BY <1>1, <1>4, OverKeys, OverSecond
    <2>2. PICK r \in 1..Seeded : k \in DOMAIN rows(r)
        BY <2>1
    <2> HIDE DEF rows, sent
    <2>3. \/ k = <<"organization", r>> \/ k = <<"credential", r>>
          \/ k = <<"role", "organizationAdmin">>
          \/ /\ k[1] \in {"user", "membership", "assignment", "case"} /\ k[2] = r
        <3>1. k \in { <<"organization", r>>, <<"user", r>>, <<"credential", r>>,
                      <<"role", "organizationAdmin">>, <<"membership", r>>,
                      <<"assignment", r, "organizationAdmin">>, <<"case", r>> }
            BY <1>2, <2>2
        <3> QED BY ONLY <3>1
    <2>4. CASE k = <<"organization", r>> \/ k = <<"credential", r>>
        <3>1. k[1] # "role" /\ k[2] = r
            BY <2>4
        <3>2. organizations[k] = rows(r)[k]
            BY <2>1, <3>1 DEF rows
        <3> HIDE DEF organizations
        <3> QED BY <1>2, <2>1, <2>2, <2>4, <3>2 DEF SeedRow, SeededAsk
    <2> QED BY <2>2, <2>3, <2>4 DEF SeedRow
<1> QED BY <1>3, <1>4

LEMMA SeedClaims ==
    ASSUME NEW k, NEW l, NEW v, NEW w, SeedRow(k, v), SeedRow(l, w), NEW x,
           x \in Claims(k, v), x \in Claims(l, w)
    PROVE  k = l
<1> SUFFICES ASSUME k # l PROVE FALSE
    OBVIOUS
<1>1. k[1] \in Tables /\ l[1] \in Tables
    BY DEF SeedRow, Tables
<1>2. x # k /\ x # l
    BY <1>1, KeysClaimThemselves
<1>3. \/ k[1] = "organization" /\ l[1] = "organization"
      \/ k[1] = "credential" /\ l[1] = "credential"
      \/ k[1] = "request" /\ l[1] = "request"
    BY <1>1, <1>2, ClaimHeads
<1>4. CASE k[1] = "organization" /\ l[1] = "organization"
    <2>1. PICK r \in 1..Seeded :
              /\ k = <<"organization", r>> /\ v.identifier = SeededRegistrations[r].identifier
              /\ v.number = SeededRegistrations[r].number
        BY <1>4 DEF SeedRow
    <2>2. PICK s \in 1..Seeded :
              /\ l = <<"organization", s>> /\ w.identifier = SeededRegistrations[s].identifier
              /\ w.number = SeededRegistrations[s].number
        BY <1>4 DEF SeedRow
    <2>3. r # s
        BY <2>1, <2>2
    <2>4. x \in {<<"identifier", v.identifier>>, <<"number", v.number>>}
        BY <1>2, <1>4 DEF Claims
    <2>5. x \in {<<"identifier", w.identifier>>, <<"number", w.number>>}
        BY <1>2, <1>4 DEF Claims
    <2> QED BY <2>1, <2>2, <2>3, <2>4, <2>5, NetworkAssumption
<1>5. CASE k[1] = "credential" /\ l[1] = "credential"
    <2>1. PICK r \in 1..Seeded : k = <<"credential", r>> /\ v = SeededRegistrations[r].username
        BY <1>5 DEF SeedRow
    <2>2. PICK s \in 1..Seeded : l = <<"credential", s>> /\ w = SeededRegistrations[s].username
        BY <1>5 DEF SeedRow
    <2>3. x = <<"username", v>> /\ x = <<"username", w>>
        BY <1>2, <1>5 DEF Claims
    <2> QED BY <2>1, <2>2, <2>3, NetworkAssumption
<1>6. CASE k[1] = "request" /\ l[1] = "request"
    <2>1. PICK q \in SeededSent : k = <<"request", q.id>> /\ v.from = q.from /\ v.to = q.to
        BY <1>6 DEF SeedRow
    <2>2. PICK p \in SeededSent : l = <<"request", p.id>> /\ w.from = p.from /\ w.to = p.to
        BY <1>6 DEF SeedRow
    <2>3. x = <<"pair", v.from, v.to>> /\ x = <<"pair", w.from, w.to>>
        BY <1>2, <1>6 DEF Claims
    <2>4. q.from = p.from /\ q.to = p.to
        BY <2>1, <2>2, <2>3
    <2> QED BY <2>1, <2>2, <2>4, NetworkAssumption
<1> QED BY <1>3, <1>4, <1>5, <1>6

LEMMA InitShared ==
    ASSUME Init
    PROVE  SharedInv /\ LimitsOk
<1>1. /\ tx = [c \in Connections |-> NoTransaction] /\ job = [r \in Requests |-> None]
      /\ limit \in 1..MaxInFlight /\ size \in 1..MaxConnections /\ queue = <<>>
      /\ idle = [i \in 1..size |-> size + 1 - i] /\ held = [r \in Requests |-> None]
      /\ pc = [r \in Requests |-> IF r <= Seeded THEN "done" ELSE "idle"]
    BY DEF Init, PoolInit
<1>2. \A k \in DOMAIN db : RowOk(k, db[k])
    <2>1. ASSUME NEW k, NEW v, SeedRow(k, v) PROVE RowOk(k, v)
        BY <2>1 DEF SeedRow, RowOk, Tables
    <2> QED BY <2>1, SeedsAre
<1>3. db = [k \in DOMAIN db |-> db[k]]
    BY OverIsFunction DEF Init
<1>4. Distinct(db)
    BY SeedsAre, SeedClaims DEF Distinct
<1>5. RowsOk(db) /\ Over(<<>>, db) = db /\ RowsOk(<<>>) /\ HeldBy(<<>>, db) = {}
    BY <1>2, <1>3, OverNothing, NothingHeld DEF RowsOk
<1>6. DatabaseOk
    BY <1>1, <1>4, <1>5, NothingIsOk DEF DatabaseOk, EntriesFit
<1>7. ASSUME NEW k, NEW v, SeedRow(k, v), k \in DOMAIN db => v = db[k] PROVE RequestFits(k, v)
    <2>1. k[1] = "request" => v.state = "sent"
        BY <1>7 DEF SeedRow
    <2> QED BY <1>7, <2>1 DEF RequestFits, DecidedByTarget, SameRequest
<1>8. DecisionsOk
    BY <1>1, <1>7, SeedsAre, NothingIsOk DEF DecisionsOk, RequestsFit
<1>9. idle \in Seq(Connections)
    BY <1>1, FreshConnections
<1>10. \A r \in Requests : ~InFlight(r)
    BY <1>1 DEF InFlight, Ended
<1>11. HandlersOk
    BY <1>1, <1>9, <1>10 DEF HandlersOk, Ended
<1> QED BY <1>1, <1>6, <1>8, <1>11 DEF SharedInv, LimitsOk

LEMMA UniqueEntriesHold ==
    ASSUME SharedInv
    PROVE  UniqueEntries
<1>1. Distinct(db)
    BY DEF SharedInv, DatabaseOk, EntriesFit
<1>2. ASSUME NEW k \in Keys("organization"), NEW l \in Keys("organization"), k # l
      PROVE  db[k].identifier # db[l].identifier /\ db[k].number # db[l].number
    <2>1. /\ k \in DOMAIN db /\ l \in DOMAIN db
          /\ {<<"identifier", db[k].identifier>>, <<"number", db[k].number>>}
                 \subseteq Claims(k, db[k])
          /\ {<<"identifier", db[l].identifier>>, <<"number", db[l].number>>}
                 \subseteq Claims(l, db[l])
        BY DEF Keys, Claims
    <2> QED BY <1>1, <1>2, <2>1, DistinctIs
<1>3. ASSUME NEW k \in Keys("credential"), NEW l \in Keys("credential"), k # l
      PROVE  db[k] # db[l]
    <2>1. /\ k \in DOMAIN db /\ l \in DOMAIN db
          /\ <<"username", db[k]>> \in Claims(k, db[k])
          /\ <<"username", db[l]>> \in Claims(l, db[l])
        BY DEF Keys, Claims
    <2> QED BY <1>1, <1>3, <2>1, DistinctIs
<1>4. ASSUME NEW k \in Keys("request"), NEW l \in Keys("request"), k # l,
             db[k].state = "sent", db[l].state = "sent"
      PROVE  <<db[k].from, db[k].to>> # <<db[l].from, db[l].to>>
    <2>1. /\ k \in DOMAIN db /\ l \in DOMAIN db
          /\ <<"pair", db[k].from, db[k].to>> \in Claims(k, db[k])
          /\ <<"pair", db[l].from, db[l].to>> \in Claims(l, db[l])
        BY <1>4 DEF Keys, Claims
    <2>2. SUFFICES ASSUME <<db[k].from, db[k].to>> = <<db[l].from, db[l].to>> PROVE FALSE
        OBVIOUS
    <2>3. db[k].from = db[l].from /\ db[k].to = db[l].to
        BY <2>2
    <2> QED BY <1>1, <1>4, <2>1, <2>3, DistinctIs
<1> QED BY <1>2, <1>3, <1>4 DEF UniqueEntries

LEMMA StepShared ==
    ASSUME SharedInv, NEW r \in Requests, Step(r)
    PROVE  SharedInv'
BY FindIdentifierShared, FindOrganizationShared, FindUsernameShared, FindTargetShared,
   FindActiveShared, ReadRequestShared, BeginShared, WriteRowShared, CommitShared,
   RollbackShared, ReadBackShared, DeadlockShared DEF Step

LEMMA LimitsStay ==
    ASSUME Next
    PROVE  UNCHANGED <<limit, size>>
<1>1. ASSUME NEW r, NEW step, NEW j, Arrive(r, step, j) PROVE UNCHANGED <<limit, size>>
    BY <1>1 DEF Arrive
<1>2. ASSUME NEW r, NEW step, NEW j, Continue(r, step, j) PROVE UNCHANGED <<limit, size>>
    BY <1>2 DEF Continue
<1>3. ASSUME NEW r, NEW how, Answer(r, how) PROVE UNCHANGED <<limit, size>>
    BY <1>3 DEF Answer
<1>4. ASSUME NEW r, Throw(r) PROVE UNCHANGED <<limit, size>>
    BY <1>2, <1>3, <1>4 DEF Throw, ContinueAnew, AnswerFailed
<1>5. ASSUME NEW r, Step(r) PROVE UNCHANGED <<limit, size>>
    <2>1. CASE FindIdentifier(r) \/ FindOrganization(r) \/ FindUsername(r)
        BY <1>2, <1>3, <2>1 DEF FindIdentifier, FindOrganization, FindUsername
    <2>2. CASE FindTarget(r) \/ FindActive(r) \/ ReadRequest(r)
        BY <1>2, <1>3, <2>2 DEF FindTarget, FindActive, ReadRequest
    <2>3. CASE BeginTransaction(r) \/ CommitTransaction(r) \/ RollbackTransaction(r) \/ ReadBack(r)
        BY <1>2, <1>3, <2>3 DEF BeginTransaction, CommitTransaction, RollbackTransaction, ReadBack
    <2>4. CASE WriteRow(r)
        BY <1>2, <1>3, <1>4, <2>4 DEF WriteRow
    <2>5. CASE DeadlockDetected(r)
        BY <1>4, <2>5 DEF DeadlockDetected
    <2> QED BY <1>5, <2>1, <2>2, <2>3, <2>4, <2>5 DEF Step
<1>6. ASSUME NEW r, Register(r) \/ Invite(r) \/ SendRequest(r) \/ Decide(r) \/ UpdateProfile(r)
      PROVE  UNCHANGED <<limit, size>>
    BY <1>1, <1>6 DEF Register, Invite, SendRequest, Decide, UpdateProfile
<1>7. ASSUME NEW r, QueryFails(r) PROVE UNCHANGED <<limit, size>>
    BY <1>4, <1>7 DEF QueryFails
<1>8. CASE Crash
    BY <1>8 DEF Crash
<1>9. CASE IdleConnectionCloses
    BY <1>9 DEF IdleConnectionCloses
<1> QED BY <1>5, <1>6, <1>7, <1>8, <1>9 DEF Next

LEMMA NextShared ==
    ASSUME SharedInv, LimitsOk, Next
    PROVE  SharedInv' /\ LimitsOk'
<1>1. LimitsOk'
    BY LimitsStay DEF LimitsOk
<1>2. CASE Crash \/ IdleConnectionCloses
    BY <1>1, <1>2, CrashShared, IdleClosesShared
<1>3. CASE ~Crash /\ ~IdleConnectionCloses
    <2>1. PICK r \in Requests :
              \/ Register(r) \/ Invite(r) \/ SendRequest(r) \/ Decide(r) \/ UpdateProfile(r)
              \/ Step(r) \/ QueryFails(r)
        BY <1>3 DEF Next
    <2> QED BY <1>1, <2>1, RegisterShared, InviteShared, SendRequestShared, DecideShared,
               UpdateProfileShared, StepShared, QueryFailsShared
<1> QED BY <1>2, <1>3

LEMMA StutterShared ==
    ASSUME SharedInv, LimitsOk, UNCHANGED poolVars
    PROVE  SharedInv' /\ LimitsOk'
<1>1. DropsOnly
    BY DEF poolVars, DropsOnly, SharedInv, DatabaseOk
<1>2. SharedInv'
    BY <1>1, HandlersStay DEF poolVars, SharedInv, HandlersOk
<1> QED BY <1>2 DEF LimitsOk, poolVars

\* The database and the handlers' variables fit each other on any pool.
THEOREM SharedHolds == Spec => [](SharedInv /\ LimitsOk)
<1>1. SharedInv /\ LimitsOk /\ [Next]_poolVars => SharedInv' /\ LimitsOk'
    BY NextShared, StutterShared
<1> QED BY <1>1, InitShared, PTL DEF Spec

\* However few the connections, and whoever commits or rolls back whose
\* transaction: identifiers, numbers, usernames and active requests are unique.
THEOREM EntriesAreUnique == Spec => []UniqueEntries
BY SharedHolds, UniqueEntriesHold, PTL

-----------------------------------------------------------------------------
(* A connection for every request in flight.                               *)

LEMMA AskedKeysShape ==
    ASSUME NEW r, NEW ask, ask.kind \in {"register", "invite"},
           ask.kind = "invite" => ask.roles \in Seq(STRING), NEW k \in AskedKeys(r, ask)
    PROVE  k[1] \notin {"role", "relationship"} /\ k[2] = r
<1>1. PICK writes : /\ writes = IF ask.kind = "register" THEN RegistrationWrites(r, ask)
                                ELSE InvitationWrites(r, ask)
    OBVIOUS
<1>2. k \in {writes[i].key : i \in DOMAIN writes} /\ k[1] # "role"
    BY <1>1 DEF AskedKeys
<1>3. PICK i \in DOMAIN writes : k = writes[i].key
    BY <1>2
<1>4. WriteOk(writes[i], r, ask) /\ writes[i].how # "update"
    BY <1>1, RegistrationAllowed, InvitationAllowed DEF TodoOk
<1> QED BY <1>2, <1>3, <1>4 DEF WriteOk

LEMMA AskedAreWritten ==
    ASSUME NEW r, NEW ask, ask.kind \in {"register", "invite"},
           ask.kind = "invite" => ask.roles \in Seq(STRING),
           NEW todo, todo = IF ask.kind = "register" THEN RegistrationWrites(r, ask)
                            ELSE InvitationWrites(r, ask)
    PROVE  AskedKeys(r, ask) \subseteq PendingKeys(todo)
<1> SUFFICES ASSUME NEW k \in AskedKeys(r, ask) PROVE k \in PendingKeys(todo)
    OBVIOUS
<1>1. k \in {todo[i].key : i \in DOMAIN todo}
    BY DEF AskedKeys
<1>2. PICK i \in DOMAIN todo : k = todo[i].key
    BY <1>1
<1>3. todo[i].how # "update"
    BY RegistrationAllowed, InvitationAllowed
<1> QED BY <1>2, <1>3 DEF PendingKeys

LEMMA DecisionIsWritten ==
    ASSUME NEW r, NEW ask, NEW row, ask.kind = "decide", ask.decision \in {"accepted", "rejected"},
           <<"relationship", row.from, row.to, row.type>> = RelationshipKey(ask.of),
           NEW todo, todo = DecisionWrites(r, ask, row)
    PROVE  StartsDecision(todo) /\ Goal(r, ask) \subseteq PendingKeys(todo)
<1>1. PICK x, y, z : /\ x = Update(<<"request", ask.of>>, [ state |-> ask.decision, by |-> r ])
                     /\ y = InsertMissing(<<"relationship", row.from, row.to, row.type>>, r)
                     /\ z = Insert(<<"email", r>>, row.from)
    OBVIOUS
<1>2. todo = IF ask.decision = "accepted" THEN << x, y, z >> ELSE << x, z >>
    <2>1. todo = << x >> \o (IF ask.decision = "accepted" THEN << y >> ELSE <<>>) \o << z >>
        BY <1>1 DEF DecisionWrites
    <2>2. /\ << x >> \o << y >> \o << z >> = << x, y, z >>
          /\ << x >> \o <<>> \o << z >> = << x, z >> /\ << x >> \o <<>> = << x >>
        BY TwoJoined, ThreeJoined
    <2> QED BY <2>1, <2>2
<1>3. x.how = "update" /\ y.how = "insertMissing" /\ y.key = RelationshipKey(ask.of)
    BY <1>1 DEF Update, InsertMissing
<1>4. CASE ask.decision = "accepted"
    <2>1. todo = << x, y, z >>
        BY <1>2, <1>4
    <2>2. DOMAIN todo = 1..3 /\ todo[1] = x /\ todo[2] = y /\ todo # <<>>
        BY <2>1
    <2>3. RelationshipKey(ask.of) \in PendingKeys(todo)
        BY <1>3, <2>2 DEF PendingKeys
    <2> QED BY <1>3, <2>2, <2>3 DEF StartsDecision, Goal
<1>5. CASE ask.decision # "accepted"
    <2>1. todo = << x, z >>
        BY <1>2, <1>5
    <2>2. todo[1] = x /\ todo # <<>>
        BY <2>1
    <2> QED BY <1>3, <1>5, <2>2 DEF StartsDecision, Goal
<1> QED BY <1>4, <1>5

LEMMA RunningIsFinite ==
    /\ IsFiniteSet(Running) /\ Cardinality(Running) \in Nat
    /\ \A r \in Requests : IsFiniteSet(Running \ {r}) /\ IsFiniteSet(Running \union {r})
<1>1. IsFiniteSet(Requests)
    BY FS_Interval, PoolAssumption DEF Requests
<1>2. Running \subseteq Requests
    BY DEF Running
<1>3. \A r \in Requests : Running \ {r} \subseteq Requests /\ Running \union {r} \subseteq Requests
    BY <1>2
<1> QED BY <1>1, <1>2, <1>3, FS_Subset, FS_CardinalityType

LEMMA ContinueOwned ==
    ASSUME HandlersOk, ConnectionsOwned, NEW r \in Requests, InFlight(r), NEW step \in Steps,
           NEW j, Continue(r, step, j)
    PROVE  ConnectionsOwned' /\ held' = held
<1>1. queue = <<>> /\ UNCHANGED <<held, queue, idle, limit, size>>
    BY DEF Continue, ConnectionsOwned
<1>2. \A s \in Requests : InFlight(s)' <=> InFlight(s)
    BY DEF Continue, HandlersOk, InFlight, Steps, Ended
<1>3. Running' = Running
    BY <1>2 DEF Running
<1> QED BY <1>1, <1>2, <1>3 DEF ConnectionsOwned

LEMMA AnswerOwned ==
    ASSUME HandlersOk, LimitsOk, ConnectionsOwned, NEW r \in Requests, InFlight(r), held[r] # None,
           NEW how \in Ended, Answer(r, how)
    PROVE  ConnectionsOwned' /\ held' = [held EXCEPT ![r] = None]
<1>1. /\ UNCHANGED <<queue, limit, size>> /\ held' = [held EXCEPT ![r] = None]
      /\ idle' = Append(idle, held[r]) /\ pc' = [pc EXCEPT ![r] = how]
    BY DEF Answer, ConnectionsOwned
<1>2. /\ idle \in Seq(Connections) /\ held[r] \in Connections
      /\ held \in [Requests -> Connections \union {None}]
    BY DEF HandlersOk
<1>3. /\ Len(idle') = Len(idle) + 1 /\ idle'[Len(idle) + 1] = held[r] /\ Len(idle) \in Nat
      /\ \A i \in 1..Len(idle) : idle'[i] = idle[i]
    BY <1>1, <1>2
<1>4. \A s \in Requests : InFlight(s)' <=> InFlight(s) /\ s # r
    BY <1>1 DEF HandlersOk, InFlight, Ended
<1>5. Running' = Running \ {r} /\ r \in Running
    BY <1>4 DEF Running
<1>6. Cardinality(Running') = Cardinality(Running) - 1
    BY <1>5, RunningIsFinite, FS_RemoveElement
<1>7. /\ Cardinality(Running') <= limit /\ Len(idle') + Cardinality(Running') = size
    <2>1. limit \in Nat /\ size \in Nat
        BY PoolAssumption DEF LimitsOk
    <2> QED BY <1>1, <1>3, <1>6, <2>1, RunningIsFinite DEF ConnectionsOwned
<1>8. \A s \in Requests : held'[s] # None <=> InFlight(s)'
    BY <1>1, <1>2, <1>4 DEF ConnectionsOwned
<1>9. \A s, t \in Requests : held'[s] # None /\ held'[s] = held'[t] => s = t
    BY <1>1, <1>2 DEF ConnectionsOwned
<1>10. \A i, k \in 1..Len(idle') : idle'[i] = idle'[k] => i = k
    <2>1. \A i \in 1..Len(idle') : i \in 1..Len(idle) \/ i = Len(idle) + 1
        BY <1>3
    <2>2. \A i \in 1..Len(idle) : idle'[i] # held[r]
        BY <1>3 DEF ConnectionsOwned
    <2>3. \A i, k \in 1..Len(idle) : idle[i] = idle[k] => i = k
        BY DEF ConnectionsOwned
    <2> QED BY <1>3, <2>1, <2>2, <2>3
<1>11. \A i \in 1..Len(idle'), s \in Requests : idle'[i] # held'[s]
    <2>1. \A i \in 1..Len(idle') : i \in 1..Len(idle) \/ i = Len(idle) + 1
        BY <1>3
    <2>2. \A s \in Requests : held[r] # held'[s]
        BY <1>1, <1>2 DEF ConnectionsOwned
    <2>3. \A i \in 1..Len(idle), s \in Requests : idle[i] # held'[s]
        <3>1. \A i \in 1..Len(idle) : idle[i] \in Connections
            BY <1>2
        <3> QED BY <1>1, <1>2, <3>1, PoolAssumption DEF ConnectionsOwned
    <2> QED BY <1>3, <2>1, <2>2, <2>3
<1> QED BY <1>1, <1>7, <1>8, <1>9, <1>10, <1>11 DEF ConnectionsOwned

\* Each place is one connection, that of a handler whose query failed among them.
LEMMA PlacesOwned ==
    ASSUME HandlersOk, ConnectionsOwned, NEW r \in Requests, held[r] # None,
           NEW places, places = <<held[r]>> \o idle
    PROVE  /\ \A n, m \in 1..Len(places) : places[n] = places[m] => n = m
           /\ \A n \in 1..Len(places), s \in Requests : s # r => places[n] # held[s]
           /\ \A n \in 1..Len(places) : places[n] # None
<1>1. /\ places \in Seq(Connections) /\ Len(idle) \in Nat /\ Len(places) = Len(idle) + 1
      /\ places[1] = held[r] /\ \A i \in 1..Len(idle) : places[i + 1] = idle[i]
  <2>1. Len(places) = Len(idle) + 1 /\ Len(idle) \in Nat
      BY PlacesAre
  <2>2. places \in Seq(Connections)
    <3>1. <<held[r]>> \in Seq(Connections) /\ idle \in Seq(Connections)
        BY DEF HandlersOk
    <3> QED BY <3>1, ConcatProperties
  <2>3. places[1] = held[r]
      BY PlacesAre, SMTT(60)
  <2>4. \A i \in 1..Len(idle) : places[i + 1] = idle[i]
      BY PlacesAre, SMTT(60)
  <2> QED BY <2>1, <2>2, <2>3, <2>4
<1>2. \A n \in 1..Len(places) : n = 1 \/ (n - 1 \in 1..Len(idle) /\ n = (n - 1) + 1)
    BY <1>1
<1>3. \A n \in 1..Len(places) : n = 1 \/ (n - 1 \in 1..Len(idle) /\ places[n] = idle[n - 1])
    BY <1>1, <1>2
<1>4. ASSUME NEW n \in 1..Len(places), NEW m \in 1..Len(places), places[n] = places[m]
      PROVE  n = m
    <2>1. \A i \in 1..Len(idle) : idle[i] # held[r]
        BY DEF ConnectionsOwned
    <2>2. \A i, k \in 1..Len(idle) : idle[i] = idle[k] => i = k
        BY DEF ConnectionsOwned
    <2>3. CASE n = 1 \/ m = 1
        BY <1>1, <1>3, <1>4, <2>1, <2>3
    <2>4. CASE n # 1 /\ m # 1
        <3>1. n - 1 \in 1..Len(idle) /\ m - 1 \in 1..Len(idle) /\ idle[n - 1] = idle[m - 1]
            BY <1>3, <1>4, <2>4
        <3>2. n - 1 = m - 1
            BY <2>2, <3>1
        <3> QED BY <1>1, <3>2
    <2> QED BY <2>3, <2>4
<1>5. ASSUME NEW n \in 1..Len(places), NEW s \in Requests, s # r PROVE places[n] # held[s]
    <2>1. held[s] # held[r]
        BY <1>5 DEF ConnectionsOwned
    <2>2. \A i \in 1..Len(idle) : idle[i] # held[s]
        BY DEF ConnectionsOwned
    <2> QED BY <1>1, <1>3, <2>1, <2>2
<1>6. \A n \in 1..Len(places) : places[n] \in Connections
    BY <1>1
<1> QED BY <1>4, <1>5, <1>6, PoolAssumption

LEMMA AnewOwned ==
    ASSUME HandlersOk, ConnectionsOwned, NEW r \in Requests, InFlight(r), NEW step \in Steps,
           NEW j, ContinueAnew(r, step, j)
    PROVE  ConnectionsOwned' /\ \A s \in Requests \ {r} : held'[s] = held[s]
<1>1. queue = <<>> /\ held[r] # None /\ held \in [Requests -> Connections \union {None}]
    BY DEF ConnectionsOwned, HandlersOk
<1>2. PICK places : places = <<held[r]>> \o idle
    OBVIOUS
<1>3. /\ pc' = [pc EXCEPT ![r] = step] /\ UNCHANGED <<limit, size, queue>>
      /\ held' = [held EXCEPT ![r] = places[Len(places)]]
      /\ idle' = SubSeq(places, 1, Len(places) - 1)
    BY <1>1, <1>2 DEF ContinueAnew
<1>4. /\ Len(idle) \in Nat /\ Len(places) = Len(idle) + 1 /\ Len(idle') = Len(idle)
      /\ \A i \in 1..Len(idle) : idle'[i] = places[i]
    BY <1>1, <1>2, <1>3, PlacesAre
<1>5. /\ \A n, m \in 1..Len(places) : places[n] = places[m] => n = m
      /\ \A n \in 1..Len(places), s \in Requests : s # r => places[n] # held[s]
      /\ \A n \in 1..Len(places) : places[n] # None
    BY <1>1, <1>2, PlacesOwned
<1>6. Len(places) \in 1..Len(places) /\ \A i \in 1..Len(idle) : i \in 1..Len(places) /\ i # Len(places)
    BY <1>4
<1>7. held'[r] = places[Len(places)] /\ \A s \in Requests \ {r} : held'[s] = held[s]
    BY <1>1, <1>3
<1>8. \A s \in Requests : InFlight(s)' <=> InFlight(s)
    BY <1>3 DEF HandlersOk, InFlight, Steps, Ended
<1>9. Running' = Running
    BY <1>8 DEF Running
<1>10. \A s \in Requests : held'[s] # None <=> InFlight(s)'
    BY <1>5, <1>6, <1>7, <1>8 DEF ConnectionsOwned
<1>11. \A s, t \in Requests : held'[s] # None /\ held'[s] = held'[t] => s = t
    BY <1>5, <1>6, <1>7 DEF ConnectionsOwned
<1>12. \A i, k \in 1..Len(idle') : idle'[i] = idle'[k] => i = k
    BY <1>4, <1>5, <1>6
<1>13. \A i \in 1..Len(idle'), s \in Requests : idle'[i] # held'[s]
    <2>1. ASSUME NEW i \in 1..Len(idle'), NEW s \in Requests PROVE idle'[i] # held'[s]
        <3>1. i \in 1..Len(places) /\ i # Len(places) /\ idle'[i] = places[i]
            BY <1>4, <1>6, <2>1
        <3> QED BY <1>5, <1>6, <1>7, <3>1
    <2> QED BY <2>1
<1>14. queue' = <<>> /\ Cardinality(Running') <= limit' /\ Len(idle') + Cardinality(Running') = size'
    BY <1>1, <1>3, <1>4, <1>9 DEF ConnectionsOwned
<1> QED BY <1>7, <1>10, <1>11, <1>12, <1>13, <1>14 DEF ConnectionsOwned

LEMMA AnswerFailedOwned ==
    ASSUME HandlersOk, LimitsOk, ConnectionsOwned, NEW r \in Requests, InFlight(r), AnswerFailed(r)
    PROVE  ConnectionsOwned' /\ \A s \in Requests \ {r} : held'[s] = held[s]
<1>1. queue = <<>> /\ held[r] # None /\ held \in [Requests -> Connections \union {None}]
    BY DEF ConnectionsOwned, HandlersOk
<1>2. /\ pc' = [pc EXCEPT ![r] = "failed"] /\ UNCHANGED <<limit, size, queue>>
      /\ held' = [held EXCEPT ![r] = None] /\ idle' = <<held[r]>> \o idle
    BY <1>1 DEF AnswerFailed
<1>3. Len(idle') = Len(idle) + 1 /\ Len(idle) \in Nat
    BY <1>1, <1>2, PlacesAre
<1>4. /\ \A n, m \in 1..Len(idle') : idle'[n] = idle'[m] => n = m
      /\ \A n \in 1..Len(idle'), s \in Requests : s # r => idle'[n] # held[s]
      /\ \A n \in 1..Len(idle') : idle'[n] # None
    BY <1>1, <1>2, PlacesOwned
<1>5. held'[r] = None /\ \A s \in Requests \ {r} : held'[s] = held[s]
    BY <1>1, <1>2
<1>6. \A s \in Requests : InFlight(s)' <=> InFlight(s) /\ s # r
    BY <1>2 DEF HandlersOk, InFlight, Ended
<1>7. Running' = Running \ {r} /\ r \in Running
    BY <1>6 DEF Running
<1>8. Cardinality(Running') = Cardinality(Running) - 1
    BY <1>7, RunningIsFinite, FS_RemoveElement
<1>9. Cardinality(Running') <= limit /\ Len(idle') + Cardinality(Running') = size
    <2>1. limit \in Nat /\ size \in Nat
        BY PoolAssumption DEF LimitsOk
    <2> QED BY <1>3, <1>8, <2>1, RunningIsFinite DEF ConnectionsOwned
<1>10. \A s \in Requests : held'[s] # None <=> InFlight(s)'
    BY <1>5, <1>6 DEF ConnectionsOwned
<1>11. \A s, t \in Requests : held'[s] # None /\ held'[s] = held'[t] => s = t
    BY <1>5 DEF ConnectionsOwned
<1>12. \A i \in 1..Len(idle'), s \in Requests : idle'[i] # held'[s]
    BY <1>4, <1>5
<1> QED BY <1>1, <1>2, <1>4, <1>5, <1>9, <1>10, <1>11, <1>12 DEF ConnectionsOwned

LEMMA IdleClosesOwned ==
    ASSUME HandlersOk, ConnectionsOwned, NEW i \in 1..Len(idle),
           idle' = <<idle[i]>> \o SubSeq(idle, 1, i - 1) \o SubSeq(idle, i + 1, Len(idle)),
           UNCHANGED <<limit, size, queue, held, pc>>
    PROVE  ConnectionsOwned'
<1>1. PICK next : next = idle'
    OBVIOUS
<1>2. /\ Len(next) = Len(idle) /\ Len(idle) \in Nat
      /\ \A n \in 1..Len(idle) :
             next[n] = IF n = 1 THEN idle[i] ELSE IF n <= i THEN idle[n - 1] ELSE idle[n]
    BY <1>1, IdleReordered
<1> DEFINE from(n) == IF n = 1 THEN i ELSE IF n <= i THEN n - 1 ELSE n
<1>3. \A n \in 1..Len(idle) : from(n) \in 1..Len(idle) /\ next[n] = idle[from(n)]
  <2>1. ASSUME NEW n \in 1..Len(idle)
        PROVE  from(n) \in 1..Len(idle) /\ next[n] = idle[from(n)]
    <3>1. CASE n = 1
        BY <1>2, <2>1, <3>1
    <3>2. CASE n # 1 /\ n <= i
        BY <1>2, <2>1, <3>2
    <3>3. CASE n # 1 /\ ~(n <= i)
        BY <1>2, <2>1, <3>3
    <3> QED BY <3>1, <3>2, <3>3
  <2> QED BY <2>1
<1>4. \A n, m \in 1..Len(idle) : from(n) = from(m) => n = m
  <2>1. \A n, m, k \in Nat :
            (IF n = 1 THEN k ELSE IF n <= k THEN n - 1 ELSE n)
                = (IF m = 1 THEN k ELSE IF m <= k THEN m - 1 ELSE m)
            /\ n >= 1 /\ m >= 1 /\ k >= 1 => n = m
      OBVIOUS
  <2>2. i \in Nat /\ i >= 1 /\ \A n \in 1..Len(idle) : n \in Nat /\ n >= 1
      BY <1>2
  <2> QED BY <2>1, <2>2
<1> HIDE DEF from
<1>5. ASSUME NEW n \in 1..Len(next), NEW m \in 1..Len(next), next[n] = next[m]
      PROVE  n = m
  <2>1. n \in 1..Len(idle) /\ m \in 1..Len(idle)
      BY <1>2, <1>5
  <2>2. /\ from(n) \in 1..Len(idle) /\ from(m) \in 1..Len(idle)
        /\ idle[from(n)] = idle[from(m)]
      BY <1>3, <1>5, <2>1
  <2>3. \A a, b \in 1..Len(idle) : idle[a] = idle[b] => a = b
      BY DEF ConnectionsOwned
  <2>4. from(n) = from(m)
      BY <2>2, <2>3
  <2> QED BY <1>4, <2>1, <2>4
<1>6. \A n \in 1..Len(next), s \in Requests : next[n] # held[s]
    BY <1>2, <1>3 DEF ConnectionsOwned
<1>7. \A s \in Requests : InFlight(s)' <=> InFlight(s)
    BY DEF InFlight
<1>8. Running' = Running
    BY <1>7 DEF Running
<1>9. /\ \A s \in Requests : held'[s] # None <=> InFlight(s)'
      /\ \A s, t \in Requests : held'[s] # None /\ held'[s] = held'[t] => s = t
    BY <1>7 DEF ConnectionsOwned
<1>10. \A n \in 1..Len(idle'), s \in Requests : idle'[n] # held'[s]
    BY <1>1, <1>6
<1>11. \A n, m \in 1..Len(idle') : idle'[n] = idle'[m] => n = m
    BY <1>1, <1>5
<1>12. queue' = <<>> /\ Cardinality(Running') <= limit' /\ Len(idle') + Cardinality(Running') = size'
    BY <1>1, <1>2, <1>8 DEF ConnectionsOwned
<1> QED BY <1>9, <1>10, <1>11, <1>12 DEF ConnectionsOwned

LEMMA ArriveOwned ==
    ASSUME HandlersOk, LimitsOk, ~Saturable, ConnectionsOwned, NEW r \in Requests,
           NEW step \in Steps, NEW j, Arrive(r, step, j)
    PROVE  /\ ConnectionsOwned' /\ held[r] = None /\ held'[r] \in Connections
           /\ \A s \in Requests \ {r} : held'[s] = held[s]
           /\ \A s \in Requests : held[s] # held'[r]
<1>1. /\ pc[r] = "idle" /\ pc' = [pc EXCEPT ![r] = step] /\ UNCHANGED <<limit, size>>
      /\ Cardinality(Running) < limit
    BY DEF Arrive, Running
<1>2. /\ limit \in Nat /\ size \in Nat /\ limit <= size
    BY PoolAssumption DEF LimitsOk, Saturable
<1>3. /\ idle \in Seq(Connections) /\ held \in [Requests -> Connections \union {None}]
      /\ Len(idle) \in Nat
    BY DEF HandlersOk
<1>4. Len(idle) > 0
    BY <1>1, <1>2, <1>3, RunningIsFinite DEF ConnectionsOwned
<1>5. idle # <<>>
    BY <1>4
<1>6. /\ held' = [held EXCEPT ![r] = idle[Len(idle)]] /\ queue' = queue
      /\ idle' = SubSeq(idle, 1, Len(idle) - 1)
    BY <1>5 DEF Arrive
<1>7. /\ Len(idle') = Len(idle) - 1 /\ \A i \in 1..Len(idle') : idle'[i] = idle[i]
    <2>1. PICK n : n = Len(idle) - 1
        OBVIOUS
    <2>2. n \in 0..Len(idle) /\ idle' = SubSeq(idle, 1, n)
        BY <1>3, <1>4, <1>6, <2>1
    <2>3. Len(idle') = n /\ \A i \in 1..n : idle'[i] = idle[i]
        BY <1>3, <2>2
    <2> QED BY <2>1, <2>3
<1>8. idle[Len(idle)] \in Connections /\ idle[Len(idle)] # None
    BY <1>3, <1>4, PoolAssumption
<1>9. ~InFlight(r) /\ held[r] = None
    BY <1>1 DEF InFlight, ConnectionsOwned
<1>10. \A s \in Requests : InFlight(s)' <=> InFlight(s) \/ s = r
    BY <1>1 DEF HandlersOk, InFlight, Steps, Ended
<1>11. Running' = Running \union {r} /\ r \notin Running
    BY <1>9, <1>10 DEF Running
<1>12. Cardinality(Running') = Cardinality(Running) + 1
    BY <1>11, RunningIsFinite, FS_AddElement
<1>13. Cardinality(Running') <= limit /\ Len(idle') + Cardinality(Running') = size
    BY <1>1, <1>2, <1>3, <1>7, <1>12, RunningIsFinite DEF ConnectionsOwned
<1>14. \A s \in Requests : held[s] # idle[Len(idle)]
    BY <1>3, <1>4 DEF ConnectionsOwned
<1>15. /\ held'[r] = idle[Len(idle)] /\ \A s \in Requests \ {r} : held'[s] = held[s]
    BY <1>3, <1>6
<1>16. \A s \in Requests : held'[s] # None <=> InFlight(s)'
    BY <1>8, <1>10, <1>15 DEF ConnectionsOwned
<1>17. \A s, t \in Requests : held'[s] # None /\ held'[s] = held'[t] => s = t
    BY <1>14, <1>15 DEF ConnectionsOwned
<1>18. \A i, k \in 1..Len(idle') : idle'[i] = idle'[k] => i = k
    BY <1>3, <1>7 DEF ConnectionsOwned
<1>19. \A i \in 1..Len(idle'), s \in Requests : idle'[i] # held'[s]
    <2>1. \A i \in 1..Len(idle') : i \in 1..Len(idle) /\ i # Len(idle)
        BY <1>3, <1>7
    <2>2. \A i \in 1..Len(idle') : idle'[i] # idle[Len(idle)]
        <3>1. Len(idle) \in 1..Len(idle)
            BY <1>3, <1>4
        <3>2. \A i, k \in 1..Len(idle) : idle[i] = idle[k] => i = k
            BY DEF ConnectionsOwned
        <3> QED BY <1>7, <2>1, <3>1, <3>2
    <2> QED BY <1>7, <1>15, <2>1, <2>2 DEF ConnectionsOwned
<1>20. queue' = <<>> /\ limit' = limit /\ size' = size
    BY <1>1, <1>6 DEF ConnectionsOwned
<1>21. ConnectionsOwned'
    BY <1>13, <1>16, <1>17, <1>18, <1>19, <1>20 DEF ConnectionsOwned
<1> QED BY <1>8, <1>9, <1>14, <1>15, <1>21

LEMMA FreshOwned ==
    ASSUME LimitsOk, NEW i, i = [n \in 1..size |-> size + 1 - n]
    PROVE  /\ Len(i) = size /\ \A n, m \in 1..Len(i) : i[n] = i[m] => n = m
           /\ \A n \in 1..Len(i) : i[n] # None
<1>1. size \in Nat /\ size <= MaxConnections
    BY PoolAssumption DEF LimitsOk
<1>2. Len(i) = size
    BY FreshConnections DEF LimitsOk
<1>3. \A n \in 1..size : i[n] \in Connections /\ i[n] = size + 1 - n
    BY <1>1, PoolAssumption DEF Connections
<1> QED BY <1>1, <1>2, <1>3, PoolAssumption

LEMMA CrashOwned ==
    ASSUME LimitsOk, HandlersOk, ConnectionsOwned, Crash
    PROVE  ConnectionsOwned'
<1>1. /\ queue' = <<>> /\ idle' = [n \in 1..size |-> size + 1 - n]
      /\ \A r \in Requests : held'[r] = None /\ pc'[r] = (IF InFlight(r) THEN "failed" ELSE pc[r])
      /\ UNCHANGED <<limit, size>>
    BY DEF Crash
<1>2. \A r \in Requests : ~InFlight(r)'
    BY <1>1 DEF InFlight, Ended
<1>3. Running' = {}
    BY <1>2 DEF Running
<1>4. Cardinality(Running') = 0
    BY <1>3, FS_EmptySet
<1>5. /\ Len(idle') = size /\ \A n, m \in 1..Len(idle') : idle'[n] = idle'[m] => n = m
      /\ \A n \in 1..Len(idle') : idle'[n] # None
    BY <1>1, FreshOwned
<1>6. limit \in Nat /\ size \in Nat
    BY PoolAssumption DEF LimitsOk
<1>7. Cardinality(Running') <= limit' /\ Len(idle') + Cardinality(Running') = size'
    BY <1>1, <1>4, <1>5, <1>6
<1> QED BY <1>1, <1>2, <1>5, <1>7 DEF ConnectionsOwned

-----------------------------------------------------------------------------
(* What a step of one handler leaves to the others.                        *)

NewKeysOf(r) ==
    \A k \in DOMAIN db' : k \in DOMAIN db \/ k[1] \in {"role", "relationship"} \/ k[2] = r

LEMMA GoalStays ==
    ASSUME Grown, NEW r, NEW ask, ask.kind = "decide" => RequestKey(ask.of) \in DOMAIN db
    PROVE  /\ ask.kind = "decide" => RelationshipKey(ask.of)' = RelationshipKey(ask.of)
           /\ Goal(r, ask)' = Goal(r, ask)
<1>1. ask.kind = "decide" => RelationshipKey(ask.of)' = RelationshipKey(ask.of)
    BY DEF Grown, RelationshipKey, RequestRow, RequestKey, SameRequest
<1> QED BY <1>1 DEF Goal

LEMMA WritesFitStays ==
    ASSUME Grown, NEW r, NEW ask, NEW todo, NEW rows, WritesFit(r, ask, todo, rows),
           ask.kind = "decide" => RequestKey(ask.of) \in DOMAIN db
    PROVE  WritesFit(r, ask, todo, rows)'
<1>1. \A k \in DOMAIN db : k \in DOMAIN db'
    BY DEF Grown
<1> QED BY <1>1, GoalStays DEF WritesFit, StartsDecision, PendingKeys

LEMMA ProgressStays ==
    ASSUME Grown, NEW r, NewKeysOf(r), NEW s, s # r, NEW step, NEW j, ProgressFits(s, step, j),
           step = "begin" /\ j.ask.kind = "decide" => RequestKey(j.ask.of) \in DOMAIN db
    PROVE  ProgressFits(s, step, j)'
<1>1. \A k \in DOMAIN db : k \in DOMAIN db'
    BY DEF Grown
<1>2. ASSUME step = "begin"
      PROVE  /\ Goal(s, j.ask)' \subseteq PendingKeys(j.todo)
             /\ j.ask.kind = "decide" => StartsDecision(j.todo)
    BY <1>2, GoalStays DEF ProgressFits
<1>3. ASSUME step \in Steps \/ j # None, j.ask.kind \in {"register", "invite"}
      PROVE  /\ AskedKeys(s, j.ask) \subseteq DOMAIN db => AskedKeys(s, j.ask) \subseteq DOMAIN db'
             /\ AskedKeys(s, j.ask) \intersect DOMAIN db = {} =>
                    AskedKeys(s, j.ask) \intersect DOMAIN db' = {}
    <2>1. j.ask.kind = "invite" => j.ask.roles \in Seq(STRING)
        BY <1>3 DEF ProgressFits
    <2>2. \A k \in AskedKeys(s, j.ask) : k[1] \notin {"role", "relationship"} /\ k[2] = s
        BY <1>3, <2>1, AskedKeysShape
    <2> QED BY <1>1, <2>2 DEF NewKeysOf
<1> QED BY <1>2, <1>3 DEF ProgressFits, StartsDecision, PendingKeys

LEMMA OthersKept ==
    ASSUME SharedInv, HandlersOwn, Grown, NEW r \in Requests, NewKeysOf(r),
           NEW s \in Requests, s # r, pc'[s] = pc[s], job'[s] = job[s],
           pc[s] \in {"write", "commit"} => tx'[held'[s]].writes = tx[held[s]].writes
    PROVE  HandlerOwn(s)'
<1>1. PICK p, j : p = pc[s] /\ j = job[s]
    OBVIOUS
<1>2. pc'[s] = p /\ job'[s] = j /\ HandlerOwn(s)
    BY <1>1 DEF HandlersOwn
<1>3. InFlight(s) => (j.ask.kind = "decide" => RequestKey(j.ask.of) \in DOMAIN db)
    BY <1>1, InFlightJob DEF SharedInv, AskOk
<1>4. ASSUME p \in {"write", "commit"}
      PROVE  WritesFit(s, job[s].ask, job[s].todo, tx[held[s]].writes)'
    <2>1. PICK w : w = tx[held[s]].writes
        OBVIOUS
    <2>2. w = tx'[held'[s]].writes
        BY <1>1, <1>4, <2>1
    <2>3. WritesFit(s, j.ask, j.todo, w)
        BY <1>1, <1>2, <1>4, <2>1 DEF HandlerOwn
    <2>4. WritesFit(s, j.ask, j.todo, w)'
        BY <1>1, <1>3, <1>4, <2>3, WritesFitStays DEF InFlight, Ended
    <2> QED BY <1>2, <2>2, <2>4
<1>5. ASSUME p # "idle" PROVE ProgressFits(s, pc[s], job[s])'
    <2>1. ProgressFits(s, p, j)
        BY <1>1, <1>2, <1>5 DEF HandlerOwn
    <2>2. p = "begin" => InFlight(s)
        BY <1>1 DEF InFlight, Ended
    <2>3. ProgressFits(s, p, j)'
        BY <1>3, <2>1, <2>2, ProgressStays
    <2> QED BY <1>2, <2>3
<1>6. p = "idle" => \A k \in DOMAIN db' : k[1] \in {"role", "relationship"} \/ k[2] # s
    BY <1>1, <1>2 DEF HandlerOwn, NewKeysOf
<1> QED BY <1>2, <1>4, <1>5, <1>6 DEF HandlerOwn

\* A step of the handler of r, which has or gets the connection c.
OwnStep(r, step, j, c) ==
    /\ pc' = [pc EXCEPT ![r] = step] /\ job' = [job EXCEPT ![r] = j]
    /\ c \in Connections /\ held[r] \in {c, None}
    /\ \A s \in Requests \ {r} : held'[s] = held[s] /\ held[s] # c
    /\ \A d \in Connections \ {c} : tx'[d] = tx[d]
    /\ \/ tx'[c] = NoTransaction /\ step \notin {"write", "commit"}
       \/ /\ held'[r] = c /\ step \in {"write", "commit", "rollback"}
          /\ step # "rollback" => tx'[c].open

LEMMA OwnStepTransactions ==
    ASSUME HandlersOk, ConnectionsOwned, TransactionsOwned, NEW r \in Requests, NEW step, NEW j,
           NEW c, OwnStep(r, step, j, c)
    PROVE  TransactionsOwned'
<1>1. /\ pc'[r] = step /\ \A s \in Requests \ {r} : pc'[s] = pc[s]
    BY DEF OwnStep, HandlersOk
<1>2. ASSUME NEW d \in Connections
      PROVE  \/ tx'[d] = NoTransaction
             \/ \E s \in Requests : held'[s] = d /\ pc'[s] \in {"write", "commit", "rollback"}
    <2>1. CASE d = c
        BY <1>1, <2>1 DEF OwnStep
    <2>2. CASE d # c
        <3>1. tx'[d] = tx[d]
            BY <2>2 DEF OwnStep
        <3>2. \/ tx[d] = NoTransaction
              \/ \E s \in Requests : held[s] = d /\ pc[s] \in {"write", "commit", "rollback"}
            BY DEF TransactionsOwned
        <3>3. held[r] # d
            BY <2>2, PoolAssumption DEF OwnStep
        <3> QED BY <1>1, <3>1, <3>2, <3>3 DEF OwnStep
    <2> QED BY <2>1, <2>2
<1>3. ASSUME NEW s \in Requests, pc'[s] \in {"write", "commit"}
      PROVE  tx'[held'[s]].open
    <2>1. CASE s = r
        BY <1>1, <1>3, <2>1 DEF OwnStep
    <2>2. CASE s # r
        <3>1. pc[s] \in {"write", "commit"} /\ held'[s] = held[s] /\ held[s] # c
            BY <1>1, <1>3, <2>2 DEF OwnStep
        <3>2. held[s] \in Connections
            BY <3>1 DEF ConnectionsOwned, HandlersOk, InFlight, Ended
        <3> QED BY <3>1, <3>2 DEF TransactionsOwned, OwnStep
    <2> QED BY <2>1, <2>2
<1> QED BY <1>2, <1>3 DEF TransactionsOwned

LEMMA OwnedKept ==
    ASSUME SharedInv, OwnedInv, NEW r \in Requests, NEW step, step # "idle", NEW j, NEW c,
           OwnStep(r, step, j, c), ConnectionsOwned', Grown, NewKeysOf(r),
           AcceptedHaveRelationship', ProgressFits(r, step, j)',
           NEW rows, rows = tx'[c].writes,
           step \in {"write", "commit"} => WritesFit(r, j.ask, j.todo, rows)'
    PROVE  OwnedInv'
<1>0. HandlersOk /\ ConnectionsOwned /\ TransactionsOwned /\ HandlersOwn
    BY DEF SharedInv, OwnedInv
<1>1. TransactionsOwned'
    BY <1>0, OwnStepTransactions
<1>2. pc'[r] = step /\ job'[r] = j
    BY <1>0 DEF OwnStep, HandlersOk
<1>3. HandlerOwn(r)'
    <2>1. ASSUME step \in {"write", "commit"}
          PROVE  WritesFit(r, job[r].ask, job[r].todo, tx[held[r]].writes)'
        <3>1. tx'[held'[r]].writes = rows
            BY <2>1 DEF OwnStep
        <3> QED BY <1>2, <2>1, <3>1
    <2>2. ProgressFits(r, pc[r], job[r])'
        BY <1>2
    <2> QED BY <1>2, <2>1, <2>2 DEF HandlerOwn
<1>4. ASSUME NEW s \in Requests, s # r PROVE HandlerOwn(s)'
    <2>1. pc'[s] = pc[s] /\ job'[s] = job[s] /\ held'[s] = held[s] /\ held[s] # c
        BY <1>0, <1>4 DEF OwnStep, HandlersOk
    <2>2. pc[s] \in {"write", "commit"} => held[s] \in Connections
        BY <1>0 DEF ConnectionsOwned, HandlersOk, InFlight, Ended
    <2>3. pc[s] \in {"write", "commit"} => tx'[held'[s]].writes = tx[held[s]].writes
        BY <2>1, <2>2 DEF OwnStep
    <2> QED BY <1>0, <1>4, <2>1, <2>3, OthersKept
<1>5. HandlersOwn'
    BY <1>3, <1>4 DEF HandlersOwn
<1> QED BY <1>1, <1>5 DEF OwnedInv

LEMMA AcceptedStay ==
    ASSUME Grown, AcceptedHaveRelationship,
           \A k \in DOMAIN db' : k[1] = "request" /\ db'[k].state = "accepted" =>
               k \in DOMAIN db /\ db[k].state = "accepted"
    PROVE  AcceptedHaveRelationship'
<1> SUFFICES ASSUME NEW q \in Requests, RequestKey(q) \in DOMAIN db', RequestRow(q)'.state = "accepted"
             PROVE  RelationshipKey(q)' \in DOMAIN db'
    BY DEF AcceptedHaveRelationship, RequestKey
<1>1. RequestKey(q)[1] = "request" /\ RequestRow(q)' = db'[RequestKey(q)]
      /\ RequestRow(q) = db[RequestKey(q)]
    BY DEF RequestKey, RequestRow
<1>2. RequestKey(q) \in DOMAIN db /\ RequestRow(q).state = "accepted"
    BY <1>1
<1>3. RelationshipKey(q) \in DOMAIN db'
    BY <1>2 DEF AcceptedHaveRelationship, Grown
<1>4. RelationshipKey(q)' = RelationshipKey(q)
    BY <1>1, <1>2 DEF Grown, SameRequest, RelationshipKey
<1> QED BY <1>3, <1>4

LEMMA SameRows ==
    ASSUME UNCHANGED db, AcceptedHaveRelationship, NEW r
    PROVE  Grown /\ NewKeysOf(r) /\ AcceptedHaveRelationship'
<1>1. Grown /\ NewKeysOf(r)
    BY DEF Grown, NewKeysOf, SameRequest
<1> QED BY <1>1, AcceptedStay

LEMMA ProgressEnds ==
    ASSUME UNCHANGED db, NEW r, NEW step \in Steps, NEW j, ProgressFits(r, step, j),
           NEW how \in Ended \union {"rollback"},
           how = "done" => step = "readBack" \/ j.ask.kind \notin {"register", "invite"}
    PROVE  ProgressFits(r, how, j)'
BY DEF ProgressFits, Ended, Steps

LEMMA ProgressGoesOn ==
    ASSUME UNCHANGED db, NEW r, NEW step \in Steps \ {"rollback", "readBack"}, NEW j,
           ProgressFits(r, step, j), NEW next \in Steps \ {"begin", "rollback", "readBack"}, NEW n,
           n.ask = j.ask
    PROVE  ProgressFits(r, next, n)'
BY DEF ProgressFits, Steps

LEMMA ProgressBegins ==
    ASSUME UNCHANGED db, NEW r, NEW step \in Steps \ {"rollback", "readBack"}, NEW j,
           ProgressFits(r, step, j), NEW n, n.ask = j.ask, Goal(r, n.ask) \subseteq PendingKeys(n.todo),
           n.ask.kind = "decide" => StartsDecision(n.todo),
           n.ask.kind = "decide" => RequestKey(n.ask.of) \in DOMAIN db
    PROVE  ProgressFits(r, "begin", n)'
<1>1. Grown
    BY DEF Grown, SameRequest
<1>2. Goal(r, n.ask)' = Goal(r, n.ask)
    BY <1>1, GoalStays
<1> QED BY <1>2 DEF ProgressFits, Steps, StartsDecision, PendingKeys

LEMMA OwnFacts ==
    ASSUME SharedInv, OwnedInv, NEW r \in Requests, InFlight(r), NEW c, c = held[r],
           NEW j, j = job[r]
    PROVE  /\ c \in Connections /\ held[r] # None /\ pc[r] \in Steps
           /\ ProgressFits(r, pc[r], j)
           /\ pc[r] \notin {"write", "commit", "rollback"} => tx[c] = NoTransaction
           /\ \A s \in Requests \ {r} : held[s] # c
           /\ pc[r] \in {"write", "commit"} =>
                  tx[c].open /\ WritesFit(r, j.ask, j.todo, tx[c].writes)
           /\ HandlersOk /\ ConnectionsOwned /\ AcceptedHaveRelationship /\ DatabaseOk
           /\ j = [ ask |-> j.ask, todo |-> j.todo, missed |-> j.missed ]
           /\ AskOk(pc[r], j.ask) /\ TodoOk(j.todo, r, j.ask)
<1>1. /\ HandlersOk /\ ConnectionsOwned /\ TransactionsOwned /\ HandlerOwn(r)
      /\ AcceptedHaveRelationship /\ DatabaseOk
    BY DEF OwnedInv, HandlersOwn, SharedInv
<1>2. c \in Connections /\ held[r] # None
    BY <1>1 DEF ConnectionsOwned, HandlersOk
<1>3. pc[r] \in Steps
    BY <1>1 DEF HandlersOk, InFlight
<1>4. \A s \in Requests \ {r} : held[s] # c
    BY <1>1, <1>2 DEF ConnectionsOwned
<1>5. pc[r] \notin {"write", "commit", "rollback"} => tx[c] = NoTransaction
    BY <1>1, <1>2, <1>4 DEF TransactionsOwned
<1>6. ProgressFits(r, pc[r], j)
    BY <1>1 DEF HandlerOwn, InFlight
<1>7. pc[r] \in {"write", "commit"} =>
          tx[c].open /\ WritesFit(r, j.ask, j.todo, tx[c].writes)
    BY <1>1 DEF HandlerOwn, TransactionsOwned
<1>8. /\ j = [ ask |-> j.ask, todo |-> j.todo, missed |-> j.missed ]
      /\ AskOk(pc[r], j.ask) /\ TodoOk(j.todo, r, j.ask)
    BY <1>1, InFlightJob DEF JobOk
<1> QED BY <1>1, <1>2, <1>3, <1>4, <1>5, <1>6, <1>7, <1>8

LEMMA AnswerStep ==
    ASSUME SharedInv, LimitsOk, OwnedInv, NEW r \in Requests, InFlight(r), NEW how \in Ended,
           Answer(r, how), NEW c, c = held[r], \A d \in Connections \ {c} : tx'[d] = tx[d],
           tx'[c] = NoTransaction
    PROVE  OwnStep(r, how, job[r], c) /\ ConnectionsOwned'
<1>1. /\ c \in Connections /\ held[r] # None /\ HandlersOk /\ ConnectionsOwned
      /\ \A s \in Requests \ {r} : held[s] # c
    BY OwnFacts
<1>2. ConnectionsOwned' /\ held' = [held EXCEPT ![r] = None]
    BY <1>1, AnswerOwned
<1>3. pc' = [pc EXCEPT ![r] = how] /\ job' = [job EXCEPT ![r] = job[r]]
    BY <1>1 DEF Answer, HandlersOk
<1>4. \A s \in Requests \ {r} : held'[s] = held[s]
    BY <1>1, <1>2 DEF HandlersOk
<1> QED BY <1>1, <1>2, <1>3, <1>4 DEF OwnStep, Ended

LEMMA ContinueStep ==
    ASSUME SharedInv, OwnedInv, NEW r \in Requests, InFlight(r), NEW step \in Steps, NEW j,
           Continue(r, step, j), NEW c, c = held[r], \A d \in Connections \ {c} : tx'[d] = tx[d],
           \/ tx'[c] = NoTransaction /\ step \notin {"write", "commit"}
           \/ /\ step \in {"write", "commit", "rollback"}
              /\ step # "rollback" => tx'[c].open
    PROVE  OwnStep(r, step, j, c) /\ ConnectionsOwned'
<1>1. /\ c \in Connections /\ HandlersOk /\ ConnectionsOwned
      /\ \A s \in Requests \ {r} : held[s] # c
    BY OwnFacts
<1>2. ConnectionsOwned' /\ held' = held
    BY <1>1, ContinueOwned
<1>3. pc' = [pc EXCEPT ![r] = step] /\ job' = [job EXCEPT ![r] = j]
    BY DEF Continue
<1> QED BY <1>1, <1>2, <1>3 DEF OwnStep

LEMMA AnswerKeepsOwn ==
    ASSUME SharedInv, LimitsOk, OwnedInv, NEW r \in Requests, InFlight(r), NEW how \in Ended,
           Answer(r, how), NEW c, c = held[r], \A d \in Connections \ {c} : tx'[d] = tx[d],
           tx'[c] = NoTransaction, UNCHANGED db,
           how = "done" => pc[r] = "readBack" \/ job[r].ask.kind \notin {"register", "invite"}
    PROVE  OwnedInv'
<1>1. PICK j, rows : j = job[r] /\ rows = tx'[c].writes
    OBVIOUS
<1>2. pc[r] \in Steps /\ ProgressFits(r, pc[r], j) /\ AcceptedHaveRelationship
    BY <1>1, OwnFacts
<1>3. ProgressFits(r, how, j)'
    BY <1>1, <1>2, ProgressEnds
<1>4. OwnStep(r, how, j, c) /\ ConnectionsOwned'
    BY <1>1, AnswerStep
<1>5. Grown /\ NewKeysOf(r) /\ AcceptedHaveRelationship'
    BY <1>2, SameRows
<1> QED BY <1>1, <1>3, <1>4, <1>5, OwnedKept DEF Ended

LEMMA ThrowStep ==
    ASSUME SharedInv, LimitsOk, OwnedInv, NEW r \in Requests, InFlight(r), Throw(r),
           NEW c, c = held[r], \A d \in Connections \ {c} : tx'[d] = tx[d], tx'[c] = NoTransaction
    PROVE  \E step \in {"failed", "rollback"} :
               /\ step = "rollback" <=> pc[r] \in {"write", "commit"}
               /\ OwnStep(r, step, job[r], c) /\ ConnectionsOwned'
<1>1. /\ c \in Connections /\ held[r] # None /\ HandlersOk /\ ConnectionsOwned
      /\ \A s \in Requests \ {r} : held[s] # c
    BY OwnFacts
<1>2. ConnectionsOwned' /\ \A s \in Requests \ {r} : held'[s] = held[s]
    <2>1. CASE pc[r] \in {"write", "commit"}
        BY <1>1, <2>1, AnewOwned DEF Throw, Steps
    <2>2. CASE pc[r] \notin {"write", "commit"}
        BY <1>1, <2>2, AnswerFailedOwned DEF Throw
    <2> QED BY <2>1, <2>2
<1>3. PICK step \in {"failed", "rollback"} :
          /\ step = "rollback" <=> pc[r] \in {"write", "commit"}
          /\ MovesOn(r, step, job[r])
    BY <1>1, ThrowIs
<1>4. pc' = [pc EXCEPT ![r] = step] /\ job' = [job EXCEPT ![r] = job[r]]
    BY <1>3 DEF MovesOn
<1>5. OwnStep(r, step, job[r], c)
    BY <1>1, <1>2, <1>4 DEF OwnStep
<1> QED BY <1>2, <1>3, <1>5

LEMMA ThrowKeepsOwn ==
    ASSUME SharedInv, LimitsOk, OwnedInv, NEW r \in Requests, InFlight(r), Throw(r),
           NEW c, c = held[r], \A d \in Connections \ {c} : tx'[d] = tx[d], UNCHANGED db,
           tx'[c] = NoTransaction
    PROVE  OwnedInv'
<1>1. PICK j, rows : j = job[r] /\ rows = tx'[c].writes
    OBVIOUS
<1>2. pc[r] \in Steps /\ ProgressFits(r, pc[r], j) /\ AcceptedHaveRelationship
    BY <1>1, OwnFacts
<1>3. PICK step \in {"failed", "rollback"} : OwnStep(r, step, j, c) /\ ConnectionsOwned'
    BY <1>1, ThrowStep
<1>4. ProgressFits(r, step, j)'
    BY <1>1, <1>2, ProgressEnds DEF Ended
<1>5. Grown /\ NewKeysOf(r) /\ AcceptedHaveRelationship'
    BY <1>2, SameRows
<1> QED BY <1>1, <1>3, <1>4, <1>5, OwnedKept

LEMMA ReadAnswers ==
    ASSUME SharedInv, LimitsOk, OwnedInv, NEW r \in Requests, InFlight(r), Reads,
           NEW how \in Ended, Answer(r, how), pc[r] \notin {"write", "commit", "rollback"},
           how = "done" => pc[r] = "readBack"
    PROVE  OwnedInv'
<1>1. PICK c : c = held[r]
    OBVIOUS
<1>2. tx[c] = NoTransaction
    BY <1>1, OwnFacts
<1> QED BY <1>1, <1>2, AnswerKeepsOwn DEF Reads

LEMMA ReadGoesOn ==
    ASSUME SharedInv, OwnedInv, NEW r \in Requests, InFlight(r), Reads,
           pc[r] \notin {"write", "commit", "rollback", "readBack"},
           NEW step \in Steps \ {"write", "commit", "rollback", "readBack"}, NEW n,
           n.ask = job[r].ask, Continue(r, step, n),
           step = "begin" => /\ Goal(r, n.ask) \subseteq PendingKeys(n.todo)
                             /\ n.ask.kind = "decide" => StartsDecision(n.todo)
    PROVE  OwnedInv'
<1>1. PICK c, j, rows : c = held[r] /\ j = job[r] /\ rows = tx'[c].writes
    OBVIOUS
<1>2. /\ pc[r] \in Steps \ {"rollback", "readBack"} /\ ProgressFits(r, pc[r], j)
      /\ tx[c] = NoTransaction /\ AcceptedHaveRelationship /\ AskOk(pc[r], j.ask)
    BY <1>1, OwnFacts
<1>3. ProgressFits(r, step, n)'
    <2>1. CASE step = "begin"
        <3>1. n.ask.kind = "decide" => RequestKey(n.ask.of) \in DOMAIN db
            BY <1>1, <1>2 DEF AskOk
        <3> QED BY <1>1, <1>2, <2>1, <3>1, ProgressBegins DEF Reads
    <2>2. CASE step # "begin"
        BY <1>1, <1>2, <2>2, ProgressGoesOn DEF Reads
    <2> QED BY <2>1, <2>2
<1>4. OwnStep(r, step, n, c) /\ ConnectionsOwned'
    BY <1>1, <1>2, ContinueStep DEF Reads
<1>5. Grown /\ NewKeysOf(r) /\ AcceptedHaveRelationship'
    BY <1>2, SameRows DEF Reads
<1> QED BY <1>1, <1>3, <1>4, <1>5, OwnedKept DEF Steps

-----------------------------------------------------------------------------
(* Arrivals and reads.                                                     *)

LEMMA ArriveKeepsOwn ==
    ASSUME SharedInv, LimitsOk, ~Saturable, OwnedInv, NEW r \in Requests, NEW ask,
           NEW step \in Steps \ {"begin", "write", "commit", "rollback", "readBack"},
           ask.kind = "invite" => ask.roles \in Seq(STRING), Arrive(r, step, Job(ask))
    PROVE  OwnedInv'
<1>0. HandlersOk /\ ConnectionsOwned /\ HandlerOwn(r) /\ AcceptedHaveRelationship
      /\ TransactionsOwned
    BY DEF SharedInv, OwnedInv, HandlersOwn
<1>1. PICK j, c, rows : j = Job(ask) /\ c = held'[r] /\ rows = tx'[c].writes
    OBVIOUS
<1>2. /\ ConnectionsOwned' /\ held[r] = None /\ c \in Connections
      /\ \A s \in Requests \ {r} : held'[s] = held[s]
      /\ \A s \in Requests : held[s] # c
    BY <1>0, <1>1, ArriveOwned
<1>3. /\ pc[r] = "idle" /\ pc' = [pc EXCEPT ![r] = step] /\ job' = [job EXCEPT ![r] = j]
      /\ UNCHANGED <<db, tx>>
    BY <1>1 DEF Arrive
<1>4. tx[c] = NoTransaction
    BY <1>0, <1>2 DEF TransactionsOwned
<1>5. OwnStep(r, step, j, c)
    BY <1>2, <1>3, <1>4 DEF OwnStep
<1>6. j.ask = ask
    BY <1>1 DEF Job
<1>7. ProgressFits(r, step, j)'
    <2>1. ASSUME ask.kind \in {"register", "invite"}
          PROVE  AskedKeys(r, ask) \intersect DOMAIN db' = {}
        <3>1. \A k \in DOMAIN db : k[1] \in {"role", "relationship"} \/ k[2] # r
            BY <1>0, <1>3 DEF HandlerOwn
        <3>2. \A k \in AskedKeys(r, ask) : k[1] \notin {"role", "relationship"} /\ k[2] = r
            BY <2>1, AskedKeysShape
        <3> QED BY <1>3, <3>1, <3>2
    <2> QED BY <1>6, <2>1 DEF ProgressFits, Steps
<1>8. Grown /\ NewKeysOf(r) /\ AcceptedHaveRelationship'
    BY <1>0, <1>3, SameRows
<1> QED BY <1>1, <1>2, <1>5, <1>7, <1>8, OwnedKept DEF Steps

LEMMA ArrivalsOwned ==
    ASSUME SharedInv, LimitsOk, ~Saturable, OwnedInv, NEW r \in Requests,
           Register(r) \/ Invite(r) \/ SendRequest(r) \/ Decide(r) \/ UpdateProfile(r)
    PROVE  OwnedInv'
<1>1. CASE Register(r)
    <2>1. PICK ask : Arrive(r, "findIdentifier", Job(ask)) /\ ask.kind = "register"
        BY <1>1 DEF Register
    <2> QED BY <2>1, ArriveKeepsOwn DEF Steps
<1>2. CASE Invite(r)
    <2>1. PICK ask : Arrive(r, "findOrganization", Job(ask)) /\ ask.roles \in Seq(STRING)
        BY <1>2, NetworkAssumption DEF Invite
    <2> QED BY <2>1, ArriveKeepsOwn DEF Steps
<1>3. CASE SendRequest(r)
    <2>1. PICK ask : Arrive(r, "findTarget", Job(ask)) /\ ask.kind = "send"
        BY <1>3 DEF SendRequest
    <2> QED BY <2>1, ArriveKeepsOwn DEF Steps
<1>4. CASE Decide(r)
    <2>1. PICK ask : Arrive(r, "readRequest", Job(ask)) /\ ask.kind = "decide"
        BY <1>4 DEF Decide
    <2> QED BY <2>1, ArriveKeepsOwn DEF Steps
<1>5. CASE UpdateProfile(r)
    <2>1. PICK ask : Arrive(r, "findOrganization", Job(ask)) /\ ask.kind = "profile"
        BY <1>5 DEF UpdateProfile
    <2> QED BY <2>1, ArriveKeepsOwn DEF Steps
<1> QED BY <1>1, <1>2, <1>3, <1>4, <1>5

LEMMA RunsOwned ==
    ASSUME NEW r, NEW step \in Steps, Runs(r, step)
    PROVE  pc[r] = step /\ InFlight(r) /\ held[r] # None
BY DEF Runs, InFlight, Steps, Ended

LEMMA FindIdentifierOwned ==
    ASSUME SharedInv, LimitsOk, OwnedInv, NEW r \in Requests, FindIdentifier(r)
    PROVE  OwnedInv'
<1>1. pc[r] = "findIdentifier" /\ InFlight(r) /\ Reads
    BY RunsOwned DEF FindIdentifier, Steps
<1>2. Continue(r, "findUsername", job[r]) \/ Answer(r, "refused")
    BY DEF FindIdentifier
<1> QED BY <1>1, <1>2, ReadAnswers, ReadGoesOn DEF Steps, Ended

LEMMA FindOrganizationOwned ==
    ASSUME SharedInv, LimitsOk, OwnedInv, NEW r \in Requests, FindOrganization(r)
    PROVE  OwnedInv'
<1>1. pc[r] = "findOrganization" /\ InFlight(r) /\ Reads
    BY RunsOwned DEF FindOrganization, Steps
<1>2. PICK j, todo, n : /\ j = job[r]
          /\ todo = << Update(<<"organization", j.ask.actor.org>>, [ alias |-> j.ask.alias ]) >>
          /\ n = [j EXCEPT !.todo = todo]
    OBVIOUS
<1>3. j = [ ask |-> j.ask, todo |-> j.todo, missed |-> j.missed ]
    BY <1>1, <1>2, OwnFacts
<1>4. n.ask = j.ask
    BY <1>2, <1>3
<1>5. Continue(r, "findUsername", j) \/ Continue(r, "store", n) \/ Answer(r, "refused")
    BY <1>2 DEF FindOrganization
<1> QED BY <1>1, <1>2, <1>4, <1>5, ReadAnswers, ReadGoesOn DEF Steps, Ended

LEMMA FindUsernameOwned ==
    ASSUME SharedInv, LimitsOk, OwnedInv, NEW r \in Requests, FindUsername(r)
    PROVE  OwnedInv'
<1>1. pc[r] = "findUsername" /\ InFlight(r) /\ Reads
    BY RunsOwned DEF FindUsername, Steps
<1>2. PICK j, todo, n : j = job[r] /\ todo = WritesOf(r) /\ n = [j EXCEPT !.todo = todo]
    OBVIOUS
<1>3. j = [ ask |-> j.ask, todo |-> j.todo, missed |-> j.missed ] /\ AskOk("findUsername", j.ask)
    BY <1>1, <1>2, OwnFacts
<1>4. n.ask = j.ask /\ n.todo = todo
    BY <1>2, <1>3
<1>5. Continue(r, "begin", n) \/ Answer(r, "refused")
    BY <1>2 DEF FindUsername
<1>6. j.ask.kind \in {"register", "invite"} /\ (j.ask.kind = "invite" => j.ask.roles \in Seq(STRING))
    BY <1>3 DEF AskOk, Kinds
<1>7. AskedKeys(r, j.ask) \subseteq PendingKeys(todo)
    BY <1>2, <1>6, AskedAreWritten DEF WritesOf
<1>8. Goal(r, n.ask) \subseteq PendingKeys(n.todo) /\ n.ask.kind # "decide"
    BY <1>4, <1>6, <1>7 DEF Goal
<1> QED BY <1>1, <1>2, <1>4, <1>5, <1>8, ReadAnswers, ReadGoesOn DEF Steps, Ended

LEMMA FindTargetOwned ==
    ASSUME SharedInv, LimitsOk, OwnedInv, NEW r \in Requests, FindTarget(r)
    PROVE  OwnedInv'
<1>1. pc[r] = "findTarget" /\ InFlight(r) /\ Reads
    BY RunsOwned DEF FindTarget, Steps
<1>2. PICK j : j = job[r]
    OBVIOUS
<1>3. \/ \E todo : Continue(r, "findActive", [j EXCEPT !.todo = todo])
      \/ Answer(r, "refused")
    BY <1>2 DEF FindTarget
<1>4. j = [ ask |-> j.ask, todo |-> j.todo, missed |-> j.missed ]
    BY <1>1, <1>2, OwnFacts
<1>5. ASSUME NEW todo, Continue(r, "findActive", [j EXCEPT !.todo = todo]) PROVE OwnedInv'
    <2>1. PICK n : n = [j EXCEPT !.todo = todo]
        OBVIOUS
    <2>2. n.ask = j.ask
        BY <1>4, <2>1
    <2> QED BY <1>1, <1>2, <1>5, <2>1, <2>2, ReadGoesOn DEF Steps
<1> QED BY <1>1, <1>3, <1>5, ReadAnswers DEF Ended

LEMMA FindActiveOwned ==
    ASSUME SharedInv, LimitsOk, OwnedInv, NEW r \in Requests, FindActive(r)
    PROVE  OwnedInv'
<1>1. pc[r] = "findActive" /\ InFlight(r) /\ Reads
    BY RunsOwned DEF FindActive, Steps
<1>2. Continue(r, "store", job[r]) \/ Answer(r, "refused")
    BY DEF FindActive
<1> QED BY <1>1, <1>2, ReadAnswers, ReadGoesOn DEF Steps, Ended

LEMMA ReadRequestOwned ==
    ASSUME SharedInv, LimitsOk, OwnedInv, NEW r \in Requests, ReadRequest(r)
    PROVE  OwnedInv'
<1>1. pc[r] = "readRequest" /\ InFlight(r) /\ Reads
    BY RunsOwned DEF ReadRequest, Steps
<1>2. CASE Answer(r, "refused")
    BY <1>1, <1>2, ReadAnswers DEF Ended
<1>3. CASE ~Answer(r, "refused")
    <2>1. PICK j : j = job[r]
        OBVIOUS
    <2>2. PICK row, u, n :
              /\ <<"relationship", row.from, row.to, row.type>> = RelationshipKey(j.ask.of)
              /\ u = DecisionWrites(r, j.ask, row)
              /\ n = [ ask |-> j.ask, todo |-> u, missed |-> j.missed ]
              /\ AskOk("begin", j.ask) /\ Continue(r, "begin", n)
        BY <1>3, <2>1, ReadRequestIs
    <2>3. AskOk("readRequest", j.ask)
        BY <1>1, <2>1, OwnFacts
    <2>4. j.ask.kind = "decide" /\ j.ask.decision \in {"accepted", "rejected"}
        BY <2>3 DEF AskOk, Kinds
    <2>5. StartsDecision(u) /\ Goal(r, j.ask) \subseteq PendingKeys(u)
        BY <2>2, <2>4, DecisionIsWritten
    <2>6. n.ask = j.ask /\ n.todo = u
        BY <2>2
    <2> QED BY <1>1, <2>1, <2>2, <2>5, <2>6, ReadGoesOn DEF Steps
<1> QED BY <1>2, <1>3

LEMMA ReadBackOwned ==
    ASSUME SharedInv, LimitsOk, OwnedInv, NEW r \in Requests, ReadBack(r)
    PROVE  OwnedInv'
<1>1. pc[r] = "readBack" /\ InFlight(r) /\ Reads
    BY RunsOwned DEF ReadBack, Steps
<1>2. Answer(r, "done") \/ Answer(r, "failed")
    BY DEF ReadBack
<1> QED BY <1>1, <1>2, ReadAnswers DEF Ended

-----------------------------------------------------------------------------
(* Writes.                                                                 *)

LEMMA PendingTail ==
    ASSUME NEW r, NEW ask, NEW todo, TodoOk(todo, r, ask), todo # <<>>, NEW k \in PendingKeys(todo)
    PROVE  \/ k = todo[1].key /\ todo[1].how # "update"
           \/ k \in PendingKeys(Tail(todo))
<1> DEFINE S == {todo[i] : i \in DOMAIN todo}
<1>1. todo \in Seq(S)
    BY DEF TodoOk
<1> HIDE DEF S
<1>2. PICK i \in DOMAIN todo : todo[i].how # "update" /\ k = todo[i].key
    BY DEF PendingKeys
<1>3. CASE i = 1
    BY <1>2, <1>3
<1>4. CASE i # 1
    <2>1. /\ Tail(todo) \in Seq(S) /\ Len(todo) \in Nat /\ i \in 1..Len(todo)
          /\ \A n \in 1..(Len(todo) - 1) : Tail(todo)[n] = todo[n + 1]
          /\ DOMAIN Tail(todo) = 1..(Len(todo) - 1)
        BY <1>1
    <2>2. PICK m : m = i - 1
        OBVIOUS
    <2>3. m \in 1..(Len(todo) - 1) /\ i = m + 1
        BY <1>4, <2>1, <2>2
    <2>4. m \in DOMAIN Tail(todo) /\ Tail(todo)[m] = todo[i]
        BY <2>1, <2>3
    <2>5. m \in {n \in DOMAIN Tail(todo) : Tail(todo)[n].how # "update"}
        BY <1>2, <2>4
    <2> QED BY <1>2, <2>4, <2>5 DEF PendingKeys
<1> QED BY <1>3, <1>4

LEMMA WritesStillFit ==
    ASSUME SharedInv, OwnedInv, NEW r, NEW c, NEW w, Due(r, c, w), pc[r] = "write",
           ~Clashes(w, View(c)), NEW j, j = job[r],
           NEW rows, rows = Over(Changes(w, View(c)), tx[c].writes)
    PROVE  WritesFit(r, j.ask, Tail(j.todo), rows)
<1>1. PICK old, ask, todo : old = tx[c].writes /\ ask = j.ask /\ todo = j.todo
    OBVIOUS
<1>2. /\ r \in Requests /\ InFlight(r) /\ c = held[r] /\ c \in Connections /\ todo # <<>>
      /\ w = todo[1] /\ WriteOk(w, r, ask)
    BY <1>1, DueIsInFlight, DueIsAllowed DEF Due, SharedInv
<1>3. /\ AskOk("write", ask) /\ TodoOk(todo, r, ask) /\ WritesFit(r, ask, todo, old) /\ DatabaseOk
    BY <1>1, <1>2, OwnFacts
<1>4. ask.kind \in {"register", "invite", "decide"}
      /\ (ask.kind = "decide" => RequestKey(ask.of) \in DOMAIN db)
    BY <1>3 DEF AskOk, Kinds
<1>5. \A k : k \in DOMAIN View(c) <=> k \in DOMAIN old \/ k \in DOMAIN db
    BY <1>1, OverKeys DEF View
<1>6. \A k \in PendingKeys(todo) : (k = w.key /\ w.how # "update") \/ k \in PendingKeys(Tail(todo))
    BY <1>2, <1>3, PendingTail
<1>7. StartsDecision(todo) => w.how = "update"
    BY <1>2 DEF StartsDecision
<1>8. CASE \E v : /\ Changes(w, View(c)) = Row(w.key, v)
                  /\ w.how = "update" => w.key \in DOMAIN View(c)
                  /\ (w.how = "update" /\ ask.kind = "decide") => v.state = ask.decision
    <2>0. PICK v : /\ rows = Over(Row(w.key, v), old)
                   /\ w.how = "update" => w.key \in DOMAIN View(c)
                   /\ (w.how = "update" /\ ask.kind = "decide") => v.state = ask.decision
        BY <1>1, <1>8
    <2>1. \A k : k \in DOMAIN rows <=> k = w.key \/ k \in DOMAIN old
        BY <2>0, RowKeys
    <2>2. rows[w.key] = v /\ \A k \in DOMAIN old : k # w.key => rows[k] = old[k]
        BY <2>0, RowItself, RowOthers
    <2>3. w.key \in DOMAIN db \/ w.key \in DOMAIN old \/ w.key[1] \in {"role", "relationship"}
          \/ w.key[2] = r
        BY <1>2, <1>5, <2>0 DEF WriteOk
    <2>4. w.key[1] = "relationship" =>
              ask.kind = "decide" /\ ask.decision = "accepted" /\ w.key = RelationshipKey(ask.of)
        BY <1>2 DEF WriteOk, RequestKey
    <2>5. w.key[1] = "request" =>
              ask.kind = "decide" /\ w.key = RequestKey(ask.of) /\ v.state = ask.decision
        BY <1>2, <1>4, <2>0 DEF WriteOk, RelationshipKey
    <2>6. ask.kind = "decide" => RequestKey(ask.of) \in DOMAIN rows
        <3>1. ask.kind = "decide" /\ w.how = "update" => w.key = RequestKey(ask.of)
            BY <1>2 DEF WriteOk
        <3> QED BY <1>3, <1>7, <2>1, <3>1 DEF WritesFit
    <2>7. Goal(r, ask) \subseteq DOMAIN db \union DOMAIN rows \union PendingKeys(Tail(todo))
        BY <1>3, <1>6, <2>1 DEF WritesFit
    <2> QED BY <1>1, <1>3, <2>1, <2>2, <2>3, <2>4, <2>5, <2>6, <2>7 DEF WritesFit
<1>9. CASE Changes(w, View(c)) = <<>> /\ w.key \in DOMAIN View(c) /\ w.how = "insertMissing"
    <2>1. old = [k \in DOMAIN old |-> old[k]]
        BY <1>1, <1>2, <1>3 DEF DatabaseOk, EntriesFit, RowsOk
    <2>2. rows = old
        BY <1>1, <1>9, <2>1, OverNothing
    <2>3. ask.kind = "decide" => RequestKey(ask.of) \in DOMAIN old
        BY <1>3, <1>7, <1>9 DEF WritesFit
    <2>4. Goal(r, ask) \subseteq DOMAIN db \union DOMAIN old \union PendingKeys(Tail(todo))
        BY <1>3, <1>5, <1>6, <1>9 DEF WritesFit
    <2> QED BY <1>1, <1>3, <2>2, <2>3, <2>4 DEF WritesFit
<1> QED BY <1>1, <1>4, <1>8, <1>9, WriteEffect

LEMMA InsideWritten ==
    ASSUME NEW c \in Connections, tx = [d \in Connections |-> tx[d]], tx[c].open,
           TransactionOk(tx[c]), NEW changes, Write(c, changes)
    PROVE  /\ UNCHANGED db /\ \A d \in Connections \ {c} : tx'[d] = tx[d]
           /\ tx'[c].writes = Over(changes, tx[c].writes) /\ tx'[c].open
<1>1. PICK t : t = tx[c]
    OBVIOUS
<1>2. t = [ writes |-> t.writes, open |-> t.open ]
    BY <1>1 DEF TransactionOk
<1>3. db' = db /\ tx' = [tx EXCEPT ![c].writes = Over(changes, @)]
    BY DEF Write
<1>4. tx'[c] = [t EXCEPT !.writes = Over(changes, t.writes)]
    BY <1>1, <1>3
<1>5. tx'[c] = [ writes |-> Over(changes, t.writes), open |-> t.open ]
    BY <1>2, <1>4
<1> QED BY <1>1, <1>3, <1>5

LEMMA WriteInsideOwned ==
    ASSUME SharedInv, OwnedInv, NEW r, NEW c, NEW w, Due(r, c, w), pc[r] = "write",
           ~Clashes(w, View(c)), WriteHappens(r, c, w), NEW j, j = job[r],
           NEW step, step = AfterWrite(r), NEW n, n.ask = j.ask, n.todo = Tail(j.todo),
           Continue(r, step, n)
    PROVE  OwnedInv'
<1>1. r \in Requests /\ InFlight(r) /\ c = held[r] /\ c \in Connections
    BY DueIsInFlight DEF Due
<1>2. /\ tx[c].open /\ ProgressFits(r, "write", j) /\ AcceptedHaveRelationship
      /\ DatabaseOk /\ AskOk("write", j.ask)
    BY <1>1, OwnFacts
<1>3. step \in {"write", "commit"}
    BY DEF AfterWrite
<1>4. PICK changes, rows : changes = Changes(w, View(c)) /\ rows = Over(changes, tx[c].writes)
    OBVIOUS
<1>5. /\ UNCHANGED db /\ \A d \in Connections \ {c} : tx'[d] = tx[d]
      /\ tx'[c].writes = rows /\ tx'[c].open
    BY <1>1, <1>2, <1>4, InsideWritten DEF WriteHappens, DatabaseOk
<1>6. OwnStep(r, step, n, c) /\ ConnectionsOwned'
    BY <1>1, <1>3, <1>5, ContinueStep DEF Steps
<1>7. Grown /\ NewKeysOf(r) /\ AcceptedHaveRelationship'
    BY <1>2, <1>5, SameRows
<1>8. ProgressFits(r, step, n)'
    BY <1>2, <1>3, <1>5, ProgressGoesOn DEF Steps
<1>9. WritesFit(r, n.ask, n.todo, rows)
    BY <1>4, WritesStillFit
<1>10. WritesFit(r, n.ask, n.todo, rows)'
    BY <1>2, <1>7, <1>9, WritesFitStays DEF AskOk
<1> QED BY <1>1, <1>3, <1>5, <1>6, <1>7, <1>8, <1>10, OwnedKept

\* A statement of its own, outside a transaction.
LEMMA StoreAdds ==
    ASSUME SharedInv, OwnedInv, NEW r, NEW c, NEW w, Due(r, c, w), pc[r] = "store",
           ~Clashes(w, View(c)), WriteHappens(r, c, w)
    PROVE  /\ UNCHANGED tx /\ tx[c] = NoTransaction /\ Grown /\ NewKeysOf(r)
           /\ AcceptedHaveRelationship'
<1>1. PICK j, ask : j = job[r] /\ ask = j.ask
    OBVIOUS
<1>2. r \in Requests /\ InFlight(r) /\ c = held[r] /\ c \in Connections /\ WriteOk(w, r, ask)
    BY <1>1, DueIsInFlight, DueIsAllowed DEF Due, SharedInv
<1>3. /\ tx[c] = NoTransaction /\ AcceptedHaveRelationship /\ DatabaseOk /\ AskOk("store", ask)
    BY <1>1, <1>2, OwnFacts
<1>4. UNCHANGED tx /\ db' = Over(Changes(w, View(c)), db)
    BY <1>3 DEF WriteHappens, Write, NoTransaction
<1>5. Grown
    BY WrittenKeeps
<1>6. ask.kind \in {"send", "profile"}
    BY <1>3 DEF AskOk, Kinds
<1>7. \A k : k \in DOMAIN View(c) <=> k \in DOMAIN db
    <2>1. tx[c].writes = <<>>
        BY <1>3, NothingIsOk
    <2> QED BY <2>1, OverKeys DEF View
<1>8. CASE \E v : /\ Changes(w, View(c)) = Row(w.key, v) /\ Effect(c, w.key, v)
                  /\ w.how = "update" => w.key \in DOMAIN View(c)
    <2>1. PICK v : /\ db' = Over(Row(w.key, v), db)
                   /\ w.how = "update" => w.key \in DOMAIN View(c)
        BY <1>4, <1>8
    <2>2. \A k : k \in DOMAIN db' <=> k = w.key \/ k \in DOMAIN db
        BY <2>1, RowKeys
    <2>3. \A k \in DOMAIN db : k # w.key => db'[k] = db[k]
        BY <2>1, RowOthers
    <2>4. w.key \in DOMAIN db \/ w.key[1] \in {"role", "relationship"} \/ w.key[2] = r
        BY <1>2, <1>6, <1>7, <2>1 DEF WriteOk
    <2>5. NewKeysOf(r)
        BY <2>2, <2>4 DEF NewKeysOf
    <2>6. w.key[1] = "request" => w.how = "insert" /\ w.value.state = "sent"
        BY <1>2, <1>6 DEF WriteOk, RelationshipKey
    <2>7. w.key[1] = "request" => db'[w.key].state = "sent"
        <3>1. w.key[1] = "request" => Changes(w, View(c)) = Row(w.key, w.value)
            BY <2>6 DEF Changes, Row
        <3>2. w.key[1] = "request" => db'[w.key] = w.value
            BY <1>4, <3>1, RowItself
        <3> QED BY <2>6, <3>2
    <2>8. \A k \in DOMAIN db' : k[1] = "request" /\ db'[k].state = "accepted" =>
              k \in DOMAIN db /\ db[k].state = "accepted"
        BY <2>2, <2>3, <2>7
    <2> QED BY <1>3, <1>4, <1>5, <2>5, <2>8, AcceptedStay
<1>9. CASE Changes(w, View(c)) = <<>>
    <2>1. UNCHANGED db
        BY <1>2, <1>3, <1>9, NothingWritten DEF WriteHappens
    <2> QED BY <1>3, <1>4, <2>1, SameRows
<1> QED BY <1>1, <1>8, <1>9, WriteEffect

LEMMA StoreOwned ==
    ASSUME SharedInv, LimitsOk, OwnedInv, NEW r, NEW c, NEW w, Due(r, c, w), pc[r] = "store",
           ~Clashes(w, View(c)), WriteHappens(r, c, w), NEW j, j = job[r],
           NEW step, step = AfterWrite(r), NEW n, n.ask = j.ask,
           \/ step = "end" /\ Answer(r, "done")
           \/ step # "end" /\ Continue(r, step, n)
    PROVE  OwnedInv'
<1>1. r \in Requests /\ InFlight(r) /\ c = held[r] /\ c \in Connections
    BY DueIsInFlight DEF Due
<1>2. /\ UNCHANGED tx /\ tx[c] = NoTransaction /\ Grown /\ NewKeysOf(r)
      /\ AcceptedHaveRelationship'
    BY StoreAdds
<1>3. AskOk("store", j.ask)
    BY <1>1, OwnFacts
<1>4. j.ask.kind \in {"send", "profile"}
    BY <1>3 DEF AskOk, Kinds
<1>5. \A s \in {"done", "store", "readBack"} : ProgressFits(r, s, j)' /\ ProgressFits(r, s, n)'
    BY <1>4 DEF ProgressFits
<1>6. PICK rows : rows = tx'[c].writes
    OBVIOUS
<1>7. CASE step = "end" /\ Answer(r, "done")
    <2>1. OwnStep(r, "done", j, c) /\ ConnectionsOwned'
        BY <1>1, <1>2, <1>7, AnswerStep DEF Ended
    <2> QED BY <1>1, <1>2, <1>5, <1>6, <2>1, OwnedKept
<1>8. CASE step # "end" /\ Continue(r, step, n)
    <2>1. step \in {"store", "readBack"}
        BY <1>8 DEF AfterWrite
    <2>2. OwnStep(r, step, n, c) /\ ConnectionsOwned'
        BY <1>1, <1>2, <1>8, <2>1, ContinueStep DEF Steps
    <2> QED BY <1>1, <1>2, <1>5, <1>6, <2>1, <2>2, OwnedKept
<1> QED BY <1>7, <1>8

LEMMA EndsOwn ==
    ASSUME SharedInv, OwnedInv, NEW r \in Requests, InFlight(r), NEW c, c = held[r],
           tx' = [tx EXCEPT ![c] = NoTransaction]
    PROVE  tx'[c] = NoTransaction /\ \A d \in Connections \ {c} : tx'[d] = tx[d]
<1>1. c \in Connections /\ tx = [d \in Connections |-> tx[d]]
    BY OwnFacts DEF DatabaseOk
<1> QED BY <1>1

LEMMA FailsKeepsOwn ==
    ASSUME SharedInv, LimitsOk, OwnedInv, NEW r \in Requests, InFlight(r), Throw(r),
           NEW c, c = held[r], Fails(c)
    PROVE  OwnedInv'
<1>1. tx' = [tx EXCEPT ![c] = NoTransaction] /\ UNCHANGED db
    BY DEF Fails, Closes
<1> QED BY <1>1, EndsOwn, ThrowKeepsOwn

LEMMA WriteRowOwned ==
    ASSUME SharedInv, LimitsOk, OwnedInv, NEW r \in Requests, WriteRow(r)
    PROVE  OwnedInv'
<1>1. PICK j, step : j = job[r] /\ step = AfterWrite(r)
    OBVIOUS
<1>2. PICK c, w, n : 
          /\ c = held[r] /\ w = Head(j.todo) /\ Due(r, c, w) /\ j.todo # <<>>
          /\ n = [ ask |-> j.ask, todo |-> Tail(j.todo),
                   missed |-> j.missed \/ (w.how = "update" /\ w.key \notin DOMAIN View(c)) ]
          /\ \/ Clashes(w, View(c)) /\ Fails(c) /\ Throw(r)
             \/ /\ ~Clashes(w, View(c)) /\ WriteHappens(r, c, w)
                /\ \/ step = "end" /\ Answer(r, "done")
                   \/ step # "end" /\ Continue(r, step, n)
    BY <1>1, WriteStep
<1>3. InFlight(r) /\ pc[r] \in {"write", "store"}
    BY <1>2, DueIsInFlight DEF Due
<1>4. n.ask = j.ask /\ n.todo = Tail(j.todo)
    BY <1>2
<1>5. CASE Clashes(w, View(c)) /\ Fails(c) /\ Throw(r)
    BY <1>2, <1>3, <1>5, FailsKeepsOwn
<1>6. CASE /\ ~Clashes(w, View(c)) /\ WriteHappens(r, c, w)
           /\ \/ step = "end" /\ Answer(r, "done")
              \/ step # "end" /\ Continue(r, step, n)
    <2>1. CASE pc[r] = "store"
        BY <1>1, <1>2, <1>4, <1>6, <2>1, StoreOwned
    <2>2. CASE pc[r] = "write"
        <3>1. step # "end"
            BY <1>1, <2>2 DEF AfterWrite
        <3> QED BY <1>1, <1>2, <1>4, <1>6, <2>2, <3>1, WriteInsideOwned
    <2> QED BY <1>3, <2>1, <2>2
<1> QED BY <1>2, <1>5, <1>6

LEMMA DeadlockOwned ==
    ASSUME SharedInv, LimitsOk, OwnedInv, NEW r \in Requests, DeadlockDetected(r)
    PROVE  OwnedInv'
<1>1. PICK c : c = held[r]
    OBVIOUS
<1>2. InFlight(r) /\ Fails(c) /\ Throw(r)
    BY <1>1 DEF DeadlockDetected, Waits, Writing, Runs, InFlight, Ended
<1> QED BY <1>1, <1>2, FailsKeepsOwn

-----------------------------------------------------------------------------
(* Transactions end.                                                       *)

LEMMA CommittedIsOwn ==
    ASSUME SharedInv, OwnedInv, NEW r \in Requests, pc[r] = "commit", NEW c, c = held[r],
           Committed(c), NEW j, j = job[r]
    PROVE  /\ Grown /\ NewKeysOf(r) /\ AcceptedHaveRelationship'
           /\ Goal(r, j.ask)' \subseteq DOMAIN db'
           /\ tx'[c] = NoTransaction /\ \A d \in Connections \ {c} : tx'[d] = tx[d]
<1>1. PICK rows : rows = tx[c].writes
    OBVIOUS
<1>2. /\ InFlight(r) /\ DecisionsOk
    BY DEF SharedInv, InFlight, Ended
<1>3. /\ c \in Connections /\ WritesFit(r, j.ask, j.todo, rows) /\ AskOk("commit", j.ask)
      /\ DatabaseOk /\ HandlersOk /\ AcceptedHaveRelationship
    BY <1>1, <1>2, OwnFacts
<1>4. Grown
    BY <1>2, <1>3, CommitKeeps
<1>5. db' = Over(rows, db) /\ tx' = [tx EXCEPT ![c] = NoTransaction]
    BY <1>1 DEF Committed
<1>6. tx = [d \in Connections |-> tx[d]]
    BY <1>3 DEF DatabaseOk
<1>7. tx'[c] = NoTransaction /\ \A d \in Connections \ {c} : tx'[d] = tx[d]
    BY <1>3, <1>5, <1>6
<1>8. \A k : k \in DOMAIN db' <=> k \in DOMAIN rows \/ k \in DOMAIN db
    BY <1>5, OverKeys
<1>9. NewKeysOf(r)
    BY <1>3, <1>8 DEF NewKeysOf, WritesFit
<1>10. /\ j.ask.kind = "decide" => RequestKey(j.ask.of) \in DOMAIN db
       /\ j.ask.kind = "decide" => j.ask.decision \in {"accepted", "rejected"}
    BY <1>3 DEF AskOk
<1>11. /\ Goal(r, j.ask)' = Goal(r, j.ask)
       /\ j.ask.kind = "decide" => RelationshipKey(j.ask.of)' = RelationshipKey(j.ask.of)
    BY <1>4, <1>10, GoalStays
<1>12. j.todo = <<>>
    BY <1>2, InFlightJob DEF SharedInv, JobOk
<1>13. PendingKeys(j.todo) = {}
    BY <1>12 DEF PendingKeys
<1>14. Goal(r, j.ask)' \subseteq DOMAIN db'
    BY <1>3, <1>8, <1>11, <1>13 DEF WritesFit
<1>15. AcceptedHaveRelationship'
    <2>1. SUFFICES ASSUME NEW q \in Requests, RequestKey(q) \in DOMAIN db',
                          RequestRow(q)'.state = "accepted"
                   PROVE  RelationshipKey(q)' \in DOMAIN db'
        BY DEF AcceptedHaveRelationship, RequestKey
    <2>2. /\ RequestKey(q)[1] = "request" /\ RequestRow(q)' = db'[RequestKey(q)]
          /\ RequestRow(q) = db[RequestKey(q)]
        BY DEF RequestKey, RequestRow
    <2>3. CASE RequestKey(q) \in DOMAIN rows
        <3>1. db'[RequestKey(q)] = rows[RequestKey(q)]
            BY <1>5, <2>3, OverFirst
        <3>2. /\ j.ask.kind = "decide" /\ RequestKey(q) = RequestKey(j.ask.of)
              /\ j.ask.decision = "accepted"
            BY <1>3, <2>1, <2>2, <2>3, <3>1 DEF WritesFit
        <3>3. q = j.ask.of
            BY <3>2 DEF RequestKey
        <3>4. Goal(r, j.ask) = {RelationshipKey(q)}
            BY <3>2, <3>3 DEF Goal
        <3> QED BY <1>11, <1>14, <3>2, <3>3, <3>4
    <2>4. CASE RequestKey(q) \notin DOMAIN rows
        <3>1. RequestKey(q) \in DOMAIN db
            BY <1>8, <2>1, <2>4
        <3>2. db'[RequestKey(q)] = db[RequestKey(q)]
            BY <1>5, <2>4, <3>1, OverSecond
        <3>3. RelationshipKey(q) \in DOMAIN db'
            <4>1. RequestRow(q).state = "accepted"
                BY <2>1, <2>2, <3>2
            <4>2. RelationshipKey(q) \in DOMAIN db
                BY <1>3, <3>1, <4>1 DEF AcceptedHaveRelationship
            <4> QED BY <1>4, <4>2 DEF Grown
        <3>4. RelationshipKey(q)' = RelationshipKey(q)
            BY <2>2, <3>2 DEF RelationshipKey
        <3> QED BY <3>3, <3>4
    <2> QED BY <2>3, <2>4
<1> QED BY <1>4, <1>7, <1>9, <1>14, <1>15

LEMMA ProgressCommitted ==
    ASSUME NEW r, NEW j, ProgressFits(r, "commit", j), Goal(r, j.ask)' \subseteq DOMAIN db',
           NEW step \in {"readBack", "rollback", "done"}
    PROVE  ProgressFits(r, step, j)'
<1>1. j.ask.kind \in {"register", "invite"} => AskedKeys(r, j.ask) \subseteq DOMAIN db'
    BY DEF Goal
<1>2. j.ask.kind = "invite" => j.ask.roles \in Seq(STRING)
    BY DEF ProgressFits, Steps
<1> QED BY <1>1, <1>2 DEF ProgressFits, Steps

LEMMA CommitsOwned ==
    ASSUME SharedInv, OwnedInv, NEW r \in Requests, pc[r] = "commit", NEW c, c = held[r],
           Committed(c), NEW j, j = job[r], NEW step \in {"readBack", "rollback", "done"},
           OwnStep(r, step, j, c), ConnectionsOwned'
    PROVE  OwnedInv'
<1>1. InFlight(r)
    BY DEF InFlight, Ended
<1>2. /\ Grown /\ NewKeysOf(r) /\ AcceptedHaveRelationship'
      /\ Goal(r, j.ask)' \subseteq DOMAIN db'
    BY CommittedIsOwn
<1>3. ProgressFits(r, "commit", j)
    BY <1>1, OwnFacts
<1>4. ProgressFits(r, step, j)'
    BY <1>2, <1>3, ProgressCommitted
<1>5. PICK rows : rows = tx'[c].writes
    OBVIOUS
<1> QED BY <1>2, <1>4, <1>5, OwnedKept

LEMMA CommitOwned ==
    ASSUME SharedInv, LimitsOk, OwnedInv, NEW r \in Requests, CommitTransaction(r)
    PROVE  OwnedInv'
<1>1. PICK c, j : c = held[r] /\ j = job[r]
    OBVIOUS
<1>2. pc[r] = "commit" /\ Committed(c) /\ InFlight(r)
    BY <1>1 DEF CommitTransaction, Commit, Committed, InFlight, Ended
<1>3. tx'[c] = NoTransaction /\ \A d \in Connections \ {c} : tx'[d] = tx[d]
    BY <1>1, <1>2, CommittedIsOwn
<1>4. \/ Continue(r, "readBack", j) \/ Continue(r, "rollback", j) \/ Answer(r, "done")
    BY <1>1 DEF CommitTransaction
<1>5. PICK step \in {"readBack", "rollback", "done"} :
          OwnStep(r, step, j, c) /\ ConnectionsOwned'
    <2>1. CASE Continue(r, "readBack", j) \/ Continue(r, "rollback", j)
        BY <1>1, <1>2, <1>3, <2>1, ContinueStep DEF Steps
    <2>2. CASE Answer(r, "done")
        BY <1>1, <1>2, <1>3, <2>2, AnswerStep DEF Ended
    <2> QED BY <1>4, <2>1, <2>2
<1> QED BY <1>1, <1>2, <1>5, CommitsOwned

LEMMA RollbackOwned ==
    ASSUME SharedInv, LimitsOk, OwnedInv, NEW r \in Requests, RollbackTransaction(r)
    PROVE  OwnedInv'
<1>1. PICK c : c = held[r]
    OBVIOUS
<1>2. /\ InFlight(r) /\ Answer(r, "failed") /\ UNCHANGED db
      /\ tx' = [tx EXCEPT ![c] = NoTransaction]
    BY <1>1 DEF RollbackTransaction, Rollback, InFlight, Ended
<1> QED BY <1>1, <1>2, EndsOwn, AnswerKeepsOwn DEF Ended

LEMMA BeginOwned ==
    ASSUME SharedInv, LimitsOk, OwnedInv, NEW r \in Requests, BeginTransaction(r)
    PROVE  OwnedInv'
<1>1. PICK c, j, rows : c = held[r] /\ j = job[r] /\ rows = tx'[c].writes
    OBVIOUS
<1>2. pc[r] = "begin" /\ InFlight(r) /\ Begin(c) /\ Continue(r, "write", j)
    BY <1>1, RunsOwned DEF BeginTransaction, Steps
<1>3. /\ c \in Connections /\ tx[c] = NoTransaction /\ ProgressFits(r, "begin", j)
      /\ AcceptedHaveRelationship /\ DatabaseOk /\ AskOk("begin", j.ask)
    BY <1>1, <1>2, OwnFacts
<1>4. tx = [d \in Connections |-> tx[d]]
    BY <1>3 DEF DatabaseOk
<1>5. UNCHANGED db /\ tx' = [tx EXCEPT ![c].open = TRUE]
    BY <1>2 DEF Begin
<1>6. tx'[c] = [NoTransaction EXCEPT !.open = TRUE]
    BY <1>3, <1>4, <1>5
<1>7. tx'[c] = [ writes |-> <<>>, open |-> TRUE ]
    BY <1>6 DEF NoTransaction
<1>8. tx'[c].open /\ rows = <<>> /\ \A d \in Connections \ {c} : tx'[d] = tx[d]
  <2>1. \A d \in Connections \ {c} : tx'[d] = tx[d]
      BY ONLY <1>3, <1>4, <1>5
  <2>2. tx'[c].open = TRUE /\ tx'[c].writes = <<>>
      BY ONLY <1>7
  <2>3. rows = <<>>
      BY ONLY <1>1, <2>2
  <2> QED BY ONLY <2>1, <2>2, <2>3
<1>9. OwnStep(r, "write", j, c) /\ ConnectionsOwned'
    BY <1>1, <1>2, <1>8, ContinueStep DEF Steps
<1>10. Grown /\ NewKeysOf(r) /\ AcceptedHaveRelationship'
    BY <1>3, <1>5, SameRows
<1>11. ProgressFits(r, "write", j)'
    BY <1>3, <1>5, ProgressGoesOn DEF Steps
<1>12. WritesFit(r, j.ask, j.todo, rows)
    BY <1>3, <1>8 DEF WritesFit, ProgressFits
<1>13. WritesFit(r, j.ask, j.todo, rows)'
    BY <1>3, <1>10, <1>12, WritesFitStays DEF AskOk
<1> QED BY <1>1, <1>9, <1>10, <1>11, <1>13, OwnedKept

LEMMA QueryFailsOwned ==
    ASSUME SharedInv, LimitsOk, OwnedInv, NEW r \in Requests, QueryFails(r)
    PROVE  OwnedInv'
<1>1. PICK c, j : c = held[r] /\ j = job[r]
    OBVIOUS
<1>2. InFlight(r) /\ tx' = [tx EXCEPT ![c] = NoTransaction] /\ Throw(r)
    BY <1>1 DEF QueryFails, Closes
<1>3. tx'[c] = NoTransaction /\ \A d \in Connections \ {c} : tx'[d] = tx[d]
    BY <1>1, <1>2, EndsOwn
<1>4. CASE UNCHANGED db
    BY <1>1, <1>2, <1>3, <1>4, ThrowKeepsOwn
<1>5. CASE pc[r] = "commit" /\ db' = Over(tx[c].writes, db)
    <2>1. Committed(c)
        BY <1>2, <1>5 DEF Committed
    <2>2. OwnStep(r, "rollback", j, c) /\ ConnectionsOwned'
        BY <1>1, <1>2, <1>3, <1>5, ThrowStep
    <2> QED BY <1>1, <1>5, <2>1, <2>2, CommitsOwned
<1> QED BY <1>1, <1>4, <1>5 DEF QueryFails

LEMMA CrashKeepsOwn ==
    ASSUME SharedInv, LimitsOk, OwnedInv, Crash
    PROVE  OwnedInv'
<1>1. HandlersOk /\ ConnectionsOwned /\ HandlersOwn /\ AcceptedHaveRelationship
    BY DEF SharedInv, OwnedInv
<1>2. /\ \A s \in Requests : pc'[s] = (IF InFlight(s) THEN "failed" ELSE pc[s])
      /\ UNCHANGED <<db, job>> /\ tx' = [c \in Connections |-> NoTransaction]
    BY DEF Crash
<1>3. ConnectionsOwned'
    BY <1>1, CrashOwned
<1>4. TransactionsOwned'
    BY <1>2 DEF TransactionsOwned, InFlight, Ended
<1>5. AcceptedHaveRelationship'
    BY <1>1, <1>2, SameRows
<1>6. ASSUME NEW s \in Requests PROVE HandlerOwn(s)'
    <2>1. PICK p, q, j : p = pc[s] /\ q = pc'[s] /\ j = job[s]
        OBVIOUS
    <2>2. HandlerOwn(s) /\ j = job'[s] /\ q = (IF InFlight(s) THEN "failed" ELSE p)
        BY <1>1, <1>2, <2>1 DEF HandlersOwn
    <2>3. CASE InFlight(s)
        <3>1. p \in Steps /\ p # "idle" /\ ProgressFits(s, p, j)
            BY <1>1, <2>1, <2>2, <2>3 DEF HandlersOk, InFlight, HandlerOwn
        <3>2. ProgressFits(s, "failed", j)'
            BY <1>2, <3>1, ProgressEnds DEF Ended
        <3> QED BY <2>1, <2>2, <2>3, <3>2 DEF HandlerOwn
    <2>4. CASE ~InFlight(s)
        <3>1. p \notin {"write", "commit"} /\ q = p /\ (p # "idle" => ProgressFits(s, p, j))
            BY <2>1, <2>2, <2>4 DEF InFlight, Ended, HandlerOwn
        <3>2. p = "idle" => \A k \in DOMAIN db' : k[1] \in {"role", "relationship"} \/ k[2] # s
            BY <1>2, <2>1, <2>2 DEF HandlerOwn
        <3>3. p # "begin"
            BY <2>1, <2>4 DEF InFlight, Ended
        <3>4. p # "idle" => ProgressFits(s, p, j)'
            BY <1>2, <3>1, <3>3 DEF ProgressFits
        <3> QED BY <2>1, <2>2, <3>1, <3>2, <3>4 DEF HandlerOwn
    <2> QED BY <2>3, <2>4
<1> QED BY <1>3, <1>4, <1>5, <1>6 DEF OwnedInv, HandlersOwn

-----------------------------------------------------------------------------

LEMMA InitOwned ==
    ASSUME Init, ~Saturable
    PROVE  OwnedInv
<1>1. /\ tx = [c \in Connections |-> NoTransaction] /\ job = [r \in Requests |-> None]
      /\ limit \in 1..MaxInFlight /\ size \in 1..MaxConnections /\ queue = <<>>
      /\ idle = [i \in 1..size |-> size + 1 - i] /\ held = [r \in Requests |-> None]
      /\ pc = [r \in Requests |-> IF r <= Seeded THEN "done" ELSE "idle"]
    BY DEF Init, PoolInit
<1>2. LimitsOk
    BY <1>1 DEF LimitsOk
<1>3. \A r \in Requests : ~InFlight(r) /\ pc[r] \in {"done", "idle"}
    BY <1>1 DEF InFlight, Ended
<1>4. Running = {}
    BY <1>3 DEF Running
<1>5. Cardinality(Running) = 0
    BY <1>4, FS_EmptySet
<1>6. /\ Len(idle) = size /\ \A n, m \in 1..Len(idle) : idle[n] = idle[m] => n = m
      /\ \A n \in 1..Len(idle) : idle[n] # None
    BY <1>1, <1>2, FreshOwned
<1>7. limit \in Nat /\ size \in Nat
    BY <1>1, PoolAssumption
<1>8. Cardinality(Running) <= limit /\ Len(idle) + Cardinality(Running) = size
    BY <1>5, <1>6, <1>7
<1>9. ConnectionsOwned
    BY <1>1, <1>3, <1>6, <1>8 DEF ConnectionsOwned
<1>10. TransactionsOwned
    BY <1>1, <1>3 DEF TransactionsOwned
<1>11. AcceptedHaveRelationship
    <2>1. ASSUME NEW q, RequestKey(q) \in DOMAIN db PROVE RequestRow(q).state = "sent"
        <3>1. PICK k, v : k = RequestKey(q) /\ v = db[k]
            OBVIOUS
        <3>2. SeedRow(k, v) /\ k[1] = "request"
            BY <2>1, <3>1, SeedsAre DEF RequestKey
        <3>3. v.state = "sent"
            BY <3>2 DEF SeedRow
        <3> QED BY <3>1, <3>3 DEF RequestRow, RequestKey
    <2> QED BY <2>1 DEF AcceptedHaveRelationship
<1>12. ASSUME NEW r \in Requests PROVE HandlerOwn(r)
    <2>1. ProgressFits(r, "done", None)
        BY DEF ProgressFits, Steps
    <2>2. ASSUME pc[r] = "idle", NEW k \in DOMAIN db
          PROVE  k[1] \in {"role", "relationship"} \/ k[2] # r
        <3>1. ~(r <= Seeded)
            BY <1>1, <2>2
        <3>2. r \notin 1..Seeded
            BY <3>1
        <3>3. PICK v : SeedRow(k, v)
            BY SeedsAre
        <3>4. k[1] = "role" \/ k[2] \in 1..Seeded
            BY <3>3, NetworkAssumption DEF SeedRow
        <3> QED BY <3>2, <3>4
    <2> QED BY <1>1, <1>3, <2>1, <2>2 DEF HandlerOwn
<1> QED BY <1>9, <1>10, <1>11, <1>12 DEF OwnedInv, HandlersOwn

\* A step that changes neither rows nor handlers.
LEMMA QuietOwned ==
    ASSUME OwnedInv, ConnectionsOwned', UNCHANGED <<db, tx, held, pc, job>>
    PROVE  OwnedInv'
<1>1. TransactionsOwned'
    BY DEF OwnedInv, TransactionsOwned
<1>2. AcceptedHaveRelationship' 
    BY AcceptedStay DEF OwnedInv, Grown, SameRequest
<1>3. ASSUME NEW s \in Requests PROVE HandlerOwn(s)'
    <2>1. HandlerOwn(s)
        BY DEF OwnedInv, HandlersOwn
    <2> QED BY <2>1 DEF HandlerOwn, WritesFit, ProgressFits, Goal, RelationshipKey, RequestRow
<1> QED BY <1>1, <1>2, <1>3 DEF OwnedInv, HandlersOwn

LEMMA StutterOwned ==
    ASSUME OwnedInv, UNCHANGED poolVars
    PROVE  OwnedInv'
<1>1. ConnectionsOwned'
    BY DEF OwnedInv, ConnectionsOwned, poolVars, Running, InFlight
<1> QED BY <1>1, QuietOwned DEF poolVars

\* An idle connection has no transaction: each is its handler's own.
LEMMA IdleClosesKeepsOwn ==
    ASSUME SharedInv, OwnedInv, IdleConnectionCloses
    PROVE  OwnedInv'
<1>1. PICK i \in 1..Len(idle) :
          /\ tx' = [tx EXCEPT ![idle[i]] = NoTransaction] /\ idle[i] \in Connections
          /\ idle' = <<idle[i]>> \o SubSeq(idle, 1, i - 1) \o SubSeq(idle, i + 1, Len(idle))
          /\ UNCHANGED <<limit, size, db, queue, held, pc, job>>
    BY IdleClosesIs
<1>2. PICK c : c = idle[i]
    OBVIOUS
<1>3. \A r \in Requests : held[r] # c
    BY <1>1, <1>2 DEF OwnedInv, ConnectionsOwned
<1>4. tx[c] = NoTransaction /\ c \in Connections
    BY <1>1, <1>2, <1>3 DEF OwnedInv, TransactionsOwned
<1>5. tx = [d \in Connections |-> tx[d]]
    BY DEF SharedInv, DatabaseOk
<1>6. tx' = tx
    BY <1>1, <1>2, <1>4, <1>5
<1>7. ConnectionsOwned'
    BY <1>1, IdleClosesOwned DEF SharedInv, OwnedInv
<1> QED BY <1>1, <1>6, <1>7, QuietOwned

LEMMA NextOwned ==
    ASSUME SharedInv, LimitsOk, ~Saturable, OwnedInv, Next
    PROVE  OwnedInv'
<1>1. CASE Crash \/ IdleConnectionCloses
    BY <1>1, CrashKeepsOwn, IdleClosesKeepsOwn
<1>2. CASE ~Crash /\ ~IdleConnectionCloses
    <2>1. PICK r \in Requests :
              \/ Register(r) \/ Invite(r) \/ SendRequest(r) \/ Decide(r) \/ UpdateProfile(r)
              \/ Step(r) \/ QueryFails(r)
        BY <1>2 DEF Next
    <2>2. CASE Step(r)
        BY <2>2, FindIdentifierOwned, FindOrganizationOwned, FindUsernameOwned, FindTargetOwned,
           FindActiveOwned, ReadRequestOwned, BeginOwned, WriteRowOwned, CommitOwned,
           RollbackOwned, ReadBackOwned, DeadlockOwned DEF Step
    <2> QED BY <2>1, <2>2, ArrivalsOwned, QueryFailsOwned
<1> QED BY <1>1, <1>2

-----------------------------------------------------------------------------
(* Requests handled one at a time.                                         *)

LEMMA Alone ==
    ASSUME LimitsOk, ConnectionsOwned, limit = 1, NEW r \in Requests, InFlight(r),
           NEW s \in Requests, InFlight(s)
    PROVE  s = r
<1>1. r \in Running /\ s \in Running
    BY DEF Running
<1>2. Cardinality(Running) <= 1
    BY DEF ConnectionsOwned
<1>3. Cardinality(Running) # 0
    BY <1>1, RunningIsFinite, FS_EmptySet
<1>4. Cardinality(Running) = 1
    BY <1>2, <1>3, RunningIsFinite
<1>5. \E x : Running = {x}
    BY <1>4, RunningIsFinite, FS_Singleton
<1> QED BY <1>1, <1>5

\* The handler of r goes from its step to another, with job j.
Turns(r, step, j) == pc' = [pc EXCEPT ![r] = step] /\ job' = [job EXCEPT ![r] = j]

LEMMA QuietSerial ==
    ASSUME HandlersOk, SerialInv, UNCHANGED db, NEW r \in Requests, NEW step, NEW j,
           Turns(r, step, j),
           \/ step \notin Deciding
           \/ j.ask.kind # "decide"
           \/ pc[r] \in Deciding /\ j.ask = job[r].ask
           \/ RequestRow(j.ask.of).state = "sent"
    PROVE  SerialInv'
<1>1. \A s \in Requests : /\ pc'[s] = IF s = r THEN step ELSE pc[s]
                          /\ job'[s] = IF s = r THEN j ELSE job[s]
    BY DEF Turns, HandlersOk
<1>2. ASSUME NEW s \in Requests PROVE DecidesSent(s)'
    <2>1. DecidesSent(s)
        BY DEF SerialInv
    <2>2. CASE s = r
        BY <1>1, <2>1, <2>2 DEF DecidesSent, RequestRow
    <2>3. CASE s # r
        BY <1>1, <2>1, <2>3 DEF DecidesSent, RequestRow
    <2> QED BY <2>2, <2>3
<1>3. RelationshipsFromAccepted'
    BY DEF SerialInv, RelationshipsFromAccepted, RequestRow, RelationshipKey
<1> QED BY <1>2, <1>3 DEF SerialInv

LEMMA RelationshipsStay ==
    ASSUME Grown, RelationshipsFromAccepted,
           \A k \in DOMAIN db' : k[1] = "relationship" => k \in DOMAIN db,
           \A k \in DOMAIN db : k[1] = "request" /\ db[k].state = "accepted" =>
               db'[k].state = "accepted"
    PROVE  RelationshipsFromAccepted'
<1> SUFFICES ASSUME NEW k \in DOMAIN db', k[1] = "relationship"
             PROVE  \E q \in Requests : /\ RequestKey(q) \in DOMAIN db'
                                        /\ RequestRow(q)'.state = "accepted"
                                        /\ k = RelationshipKey(q)'
    BY DEF RelationshipsFromAccepted, RequestKey
<1>1. k \in DOMAIN db
    OBVIOUS
<1>2. PICK q \in Requests : /\ RequestKey(q) \in DOMAIN db
                            /\ RequestRow(q).state = "accepted" /\ k = RelationshipKey(q)
    BY <1>1 DEF RelationshipsFromAccepted
<1>3. /\ RequestKey(q)[1] = "request" /\ RequestRow(q)' = db'[RequestKey(q)]
      /\ RequestRow(q) = db[RequestKey(q)]
    BY DEF RequestKey, RequestRow
<1>4. RequestKey(q) \in DOMAIN db' /\ RelationshipKey(q)' = RelationshipKey(q)
    BY <1>2, <1>3 DEF Grown, SameRequest, RelationshipKey
<1>5. RequestRow(q)'.state = "accepted"
    BY <1>2, <1>3
<1> QED BY <1>2, <1>4, <1>5

LEMMA NobodyDecides ==
    ASSUME LimitsOk, HandlersOk, ConnectionsOwned, limit = 1, NEW r \in Requests, InFlight(r),
           NEW step, step \notin Deciding, NEW j, Turns(r, step, j), NEW s \in Requests
    PROVE  DecidesSent(s)'
<1>1. pc'[s] = IF s = r THEN step ELSE pc[s]
    BY DEF Turns, HandlersOk
<1>2. CASE s = r
    BY <1>1, <1>2 DEF DecidesSent
<1>3. CASE s # r
    <2>1. ~InFlight(s)
        BY <1>3, Alone
    <2>2. pc[s] \notin Deciding
        BY <2>1 DEF InFlight, Ended, Deciding
    <2> QED BY <1>1, <1>3, <2>2 DEF DecidesSent
<1> QED BY <1>2, <1>3

LEMMA CommitSerial ==
    ASSUME SharedInv, LimitsOk, OwnedInv, limit = 1, SerialInv, NEW r \in Requests,
           pc[r] = "commit", NEW c, c = held[r], Committed(c), NEW j, j = job[r],
           NEW step, step \notin Deciding, Turns(r, step, j)
    PROVE  SerialInv'
<1>1. PICK rows, ask : rows = tx[c].writes /\ ask = j.ask
    OBVIOUS
<1>2. InFlight(r)
    BY DEF InFlight, Ended
<1>3. /\ c \in Connections /\ WritesFit(r, ask, j.todo, rows) /\ AskOk("commit", ask)
      /\ HandlersOk /\ ConnectionsOwned
    BY <1>1, <1>2, OwnFacts
<1>4. Grown /\ db' = Over(rows, db)
    BY <1>1, CommittedIsOwn DEF Committed
<1>5. \A k : k \in DOMAIN db' <=> k \in DOMAIN rows \/ k \in DOMAIN db
    BY <1>4, OverKeys
<1>6. \A s \in Requests : DecidesSent(s)'
    BY <1>2, <1>3, NobodyDecides
<1>7. \A k \in DOMAIN db : k[1] = "request" /\ db[k].state = "accepted" => db'[k].state = "accepted"
    <2>1. SUFFICES ASSUME NEW k \in DOMAIN db, k[1] = "request", db[k].state = "accepted"
                   PROVE  db'[k].state = "accepted"
        OBVIOUS
    <2>2. CASE k \in DOMAIN rows
        <3>1. ask.kind = "decide" /\ k = RequestKey(ask.of)
            BY <1>3, <2>1, <2>2 DEF WritesFit
        <3>2. DecidesSent(r)
            BY DEF SerialInv
        <3>3. db[k].state = "sent"
            BY <1>1, <3>1, <3>2 DEF DecidesSent, Deciding, RequestRow, RequestKey
        <3> QED BY <2>1, <3>3
    <2>3. CASE k \notin DOMAIN rows
        <3>1. db'[k] = db[k]
            BY <1>4, <2>3, OverSecond
        <3> QED BY <2>1, <3>1
    <2> QED BY <2>2, <2>3
<1>8. CASE ~(ask.kind = "decide" /\ ask.decision = "accepted")
    <2>1. \A k \in DOMAIN db' : k[1] = "relationship" => k \in DOMAIN db
        BY <1>3, <1>5, <1>8 DEF WritesFit
    <2>2. RelationshipsFromAccepted'
        BY <1>4, <1>7, <2>1, RelationshipsStay DEF SerialInv
    <2> QED BY <1>6, <2>2 DEF SerialInv
<1>9. CASE ask.kind = "decide" /\ ask.decision = "accepted"
    <2>1. ask.of \in Requests /\ RequestKey(ask.of) \in DOMAIN db
        BY <1>3, <1>9 DEF AskOk
    <2>2. j.todo = <<>>
        BY <1>2, InFlightJob DEF SharedInv, JobOk
    <2>3. RequestKey(ask.of) \in DOMAIN rows
        BY <1>3, <1>9, <2>2 DEF WritesFit, StartsDecision
    <2>4. RequestKey(ask.of)[1] = "request" /\ RequestRow(ask.of)' = db'[RequestKey(ask.of)]
        BY DEF RequestKey, RequestRow
    <2>5. rows[RequestKey(ask.of)].state = "accepted"
        BY <1>3, <1>9, <2>3, <2>4 DEF WritesFit
    <2>6. RequestRow(ask.of)'.state = "accepted" /\ RequestKey(ask.of) \in DOMAIN db'
        BY <1>4, <1>5, <2>3, <2>4, <2>5, OverFirst
    <2>7. RelationshipKey(ask.of)' = RelationshipKey(ask.of)
        BY <1>4, <1>9, <2>1, GoalStays
    <2>8. ASSUME NEW k \in DOMAIN db', k[1] = "relationship"
          PROVE  \E q \in Requests : /\ RequestKey(q) \in DOMAIN db'
                                     /\ RequestRow(q)'.state = "accepted"
                                     /\ k = RelationshipKey(q)'
        <3>1. CASE k \in DOMAIN rows
            <4>1. k = RelationshipKey(ask.of)
                BY <1>3, <2>8, <3>1 DEF WritesFit
            <4> QED BY <2>1, <2>6, <2>7, <4>1
        <3>2. CASE k \notin DOMAIN rows
            <4>1. k \in DOMAIN db
                BY <1>5, <2>8, <3>2
            <4>2. PICK q \in Requests : /\ RequestKey(q) \in DOMAIN db
                                        /\ RequestRow(q).state = "accepted"
                                        /\ k = RelationshipKey(q)
                BY <2>8, <4>1 DEF SerialInv, RelationshipsFromAccepted
            <4>3. /\ RequestKey(q)[1] = "request" /\ RequestRow(q)' = db'[RequestKey(q)]
                  /\ RequestRow(q) = db[RequestKey(q)]
                BY DEF RequestKey, RequestRow
            <4>4. RequestKey(q) \in DOMAIN db' /\ RelationshipKey(q)' = RelationshipKey(q)
                BY <1>4, <4>2, <4>3 DEF Grown, SameRequest, RelationshipKey
            <4>5. RequestRow(q)'.state = "accepted"
                BY <1>7, <4>2, <4>3
            <4> QED BY <4>2, <4>4, <4>5
        <3> QED BY <3>1, <3>2
    <2>9. RelationshipsFromAccepted'
        BY <2>8 DEF RelationshipsFromAccepted, RequestKey
    <2> QED BY <1>6, <2>9 DEF SerialInv
<1> QED BY <1>8, <1>9

LEMMA StoreSerial ==
    ASSUME SharedInv, LimitsOk, OwnedInv, limit = 1, SerialInv, NEW r, NEW c, NEW w, Due(r, c, w),
           pc[r] = "store", ~Clashes(w, View(c)), WriteHappens(r, c, w),
           NEW step, step \notin Deciding, NEW j, Turns(r, step, j)
    PROVE  SerialInv'
<1>1. PICK ask : ask = job[r].ask
    OBVIOUS
<1>2. r \in Requests /\ InFlight(r) /\ c = held[r] /\ c \in Connections /\ WriteOk(w, r, ask)
    BY <1>1, DueIsInFlight, DueIsAllowed DEF Due, SharedInv
<1>3. /\ tx[c] = NoTransaction /\ DatabaseOk /\ AskOk("store", ask) /\ HandlersOk
      /\ ConnectionsOwned
    BY <1>1, <1>2, OwnFacts
<1>4. db' = Over(Changes(w, View(c)), db)
    BY <1>3 DEF WriteHappens, Write, NoTransaction
<1>5. Grown
    BY WrittenKeeps
<1>6. ask.kind \in {"send", "profile"}
    BY <1>3 DEF AskOk, Kinds
<1>7. \A s \in Requests : DecidesSent(s)'
    BY <1>2, <1>3, NobodyDecides
<1>8. CASE Changes(w, View(c)) = <<>>
    <2>1. UNCHANGED db
        BY <1>2, <1>3, <1>8, NothingWritten DEF WriteHappens
    <2>2. RelationshipsFromAccepted'
        BY <1>5, <2>1, RelationshipsStay DEF SerialInv
    <2> QED BY <1>7, <2>2 DEF SerialInv
<1>9. CASE \E v : Effect(c, w.key, v) /\ Changes(w, View(c)) = Row(w.key, v)
    <2>1. PICK v : Effect(c, w.key, v) /\ db' = Over(Row(w.key, v), db)
        BY <1>4, <1>9
    <2>2. \A k : k \in DOMAIN db' <=> k = w.key \/ k \in DOMAIN db
        BY <2>1, RowKeys
    <2>3. \A k \in DOMAIN db : k # w.key => db'[k] = db[k]
        BY <2>1, RowOthers
    <2>4. w.key[1] # "relationship"
        BY <1>2, <1>6 DEF WriteOk
    <2>5. w.key[1] = "request" => w.how = "insert"
        BY <1>2, <1>6 DEF WriteOk, RelationshipKey
    <2>6. w.key[1] = "request" => w.key \notin DOMAIN db
        <3>1. w.how = "insert" => w.key \notin DOMAIN View(c)
            BY <1>1, <1>2, <1>3, InsertEffect DEF SharedInv, Due
        <3>2. w.key \in DOMAIN db => w.key \in DOMAIN View(c)
            BY <1>2, <1>3, ViewFits
        <3> QED BY <2>5, <3>1, <3>2
    <2>7. \A k \in DOMAIN db' : k[1] = "relationship" => k \in DOMAIN db
        BY <2>2, <2>4
    <2>8. \A k \in DOMAIN db : k[1] = "request" /\ db[k].state = "accepted" =>
              db'[k].state = "accepted"
        BY <2>3, <2>6
    <2>9. RelationshipsFromAccepted'
        BY <1>5, <2>7, <2>8, RelationshipsStay DEF SerialInv
    <2> QED BY <1>7, <2>9 DEF SerialInv
<1> QED BY <1>1, <1>8, <1>9, WriteEffect

LEMMA AnswerTurns ==
    ASSUME HandlersOk, NEW r \in Requests, NEW how, Answer(r, how)
    PROVE  Turns(r, how, job[r])
BY DEF Answer, Turns, HandlersOk

LEMMA ContinueTurns ==
    ASSUME NEW r \in Requests, NEW step, NEW j, Continue(r, step, j)
    PROVE  Turns(r, step, j)
BY DEF Continue, Turns

LEMMA AnswerSerial ==
    ASSUME HandlersOk, SerialInv, UNCHANGED db, NEW r \in Requests, NEW how \in Ended,
           Answer(r, how)
    PROVE  SerialInv'
<1>1. Turns(r, how, job[r])
    BY AnswerTurns
<1>2. how \notin Deciding
    BY DEF Ended, Deciding
<1> QED BY <1>1, <1>2, QuietSerial

LEMMA ThrowTurns ==
    ASSUME HandlersOk, NEW r \in Requests, Throw(r)
    PROVE  \E step \in {"failed", "rollback"} :
               /\ step = "rollback" <=> pc[r] \in {"write", "commit"}
               /\ Turns(r, step, job[r])
<1>1. CASE pc[r] \in {"write", "commit"}
    <2>1. ContinueAnew(r, "rollback", job[r])
        BY <1>1 DEF Throw
    <2>2. Turns(r, "rollback", job[r])
        BY <2>1, ContinueTurns DEF ContinueAnew, Turns
    <2> QED BY <1>1, <2>2
<1>2. CASE pc[r] \notin {"write", "commit"}
    <2>1. AnswerFailed(r)
        BY <1>2 DEF Throw
    <2>2. Turns(r, "failed", job[r])
        BY <2>1, AnswerTurns DEF AnswerFailed, Turns, HandlersOk
    <2> QED BY <1>2, <2>2
<1> QED BY <1>1, <1>2

LEMMA ThrowSerial ==
    ASSUME HandlersOk, SerialInv, UNCHANGED db, NEW r \in Requests, Throw(r)
    PROVE  SerialInv'
<1>1. PICK step \in {"failed", "rollback"} : Turns(r, step, job[r])
    BY ThrowTurns
<1> QED BY <1>1, QuietSerial DEF Deciding

LEMMA ArrivalsSerial ==
    ASSUME HandlersOk, SerialInv, NEW r \in Requests,
           Register(r) \/ Invite(r) \/ SendRequest(r) \/ Decide(r) \/ UpdateProfile(r)
    PROVE  SerialInv'
<1>1. PICK step, j : /\ step \in {"findIdentifier", "findOrganization", "findTarget", "readRequest"}
                     /\ Arrive(r, step, j)
    <2>1. CASE Register(r)
        BY <2>1 DEF Register
    <2>2. CASE Invite(r)
        BY <2>2 DEF Invite
    <2>3. CASE SendRequest(r)
        BY <2>3 DEF SendRequest
    <2>4. CASE Decide(r)
        BY <2>4 DEF Decide
    <2>5. CASE UpdateProfile(r)
        BY <2>5 DEF UpdateProfile
    <2> QED BY <2>1, <2>2, <2>3, <2>4, <2>5
<1>2. Turns(r, step, j) /\ UNCHANGED db
    BY <1>1 DEF Arrive, Turns
<1> QED BY <1>1, <1>2, QuietSerial DEF Deciding

LEMMA ReadsSerial ==
    ASSUME SharedInv, SerialInv, NEW r \in Requests,
           \/ FindIdentifier(r) \/ FindOrganization(r) \/ FindTarget(r) \/ FindActive(r)
           \/ ReadBack(r)
    PROVE  SerialInv'
<1>1. UNCHANGED db /\ HandlersOk
    BY DEF FindIdentifier, FindOrganization, FindTarget, FindActive, ReadBack, Reads, SharedInv
<1>2. \/ Answer(r, "refused") \/ Answer(r, "done") \/ Answer(r, "failed")
      \/ \E step, j : step \in {"findUsername", "store", "findActive"} /\ Continue(r, step, j)
    BY DEF FindIdentifier, FindOrganization, FindTarget, FindActive, ReadBack
<1>3. CASE Answer(r, "refused") \/ Answer(r, "done") \/ Answer(r, "failed")
    BY <1>1, <1>3, AnswerSerial DEF Ended
<1>4. CASE \E step, j : step \in {"findUsername", "store", "findActive"} /\ Continue(r, step, j)
    <2>1. PICK step, j : step \in {"findUsername", "store", "findActive"} /\ Turns(r, step, j)
        BY <1>4, ContinueTurns
    <2> QED BY <1>1, <2>1, QuietSerial DEF Deciding
<1> QED BY <1>2, <1>3, <1>4

LEMMA FindUsernameSerial ==
    ASSUME SharedInv, OwnedInv, SerialInv, NEW r \in Requests, FindUsername(r)
    PROVE  SerialInv'
<1>1. pc[r] = "findUsername" /\ InFlight(r) /\ UNCHANGED db /\ HandlersOk
    BY RunsOwned DEF FindUsername, Steps, Reads, SharedInv
<1>2. PICK j, todo, n : j = job[r] /\ todo = WritesOf(r) /\ n = [j EXCEPT !.todo = todo]
    OBVIOUS
<1>3. j = [ ask |-> j.ask, todo |-> j.todo, missed |-> j.missed ] /\ AskOk("findUsername", j.ask)
    BY <1>1, <1>2, OwnFacts
<1>4. n.ask.kind # "decide"
    BY <1>2, <1>3 DEF AskOk, Kinds
<1>5. Continue(r, "begin", n) \/ Answer(r, "refused")
    BY <1>2 DEF FindUsername
<1>6. CASE Continue(r, "begin", n)
    BY <1>1, <1>4, <1>6, ContinueTurns, QuietSerial
<1>7. CASE Answer(r, "refused")
    BY <1>1, <1>7, AnswerSerial DEF Ended
<1> QED BY <1>5, <1>6, <1>7

LEMMA ReadRequestSerial ==
    ASSUME SharedInv, OwnedInv, SerialInv, NEW r \in Requests, ReadRequest(r)
    PROVE  SerialInv'
<1>1. pc[r] = "readRequest" /\ InFlight(r) /\ UNCHANGED db /\ HandlersOk
    BY RunsOwned DEF ReadRequest, Steps, Reads, SharedInv
<1>2. CASE Answer(r, "refused")
    BY <1>1, <1>2, AnswerSerial DEF Ended
<1>3. CASE ~Answer(r, "refused")
    <2>1. PICK j, c : j = job[r] /\ c = held[r]
        OBVIOUS
    <2>2. PICK row, u, n :
              /\ row = View(c)[RequestKey(j.ask.of)] /\ row.state = "sent"
              /\ RequestKey(j.ask.of) \in DOMAIN View(c)
              /\ n = [ ask |-> j.ask, todo |-> u, missed |-> j.missed ]
              /\ Continue(r, "begin", n)
        BY <1>3, <2>1, ReadRequestIs
    <2>3. tx[c] = NoTransaction /\ DatabaseOk
        BY <1>1, <2>1, OwnFacts
    <2>4. View(c) = db
        <3>1. db = [k \in DOMAIN db |-> db[k]]
            BY <2>3 DEF DatabaseOk, EntriesFit, RowsOk
        <3>2. tx[c].writes = <<>>
            BY <2>3, NothingIsOk
        <3> QED BY <3>1, <3>2, OverNothing DEF View
    <2>5. n.ask = j.ask
        BY <2>2
    <2>6. RequestRow(n.ask.of).state = "sent"
        BY <2>2, <2>4, <2>5 DEF RequestRow, RequestKey
    <2> QED BY <1>1, <2>2, <2>6, ContinueTurns, QuietSerial
<1> QED BY <1>2, <1>3

LEMMA TransactionsSerial ==
    ASSUME SharedInv, LimitsOk, OwnedInv, limit = 1, SerialInv, NEW r \in Requests,
           \/ BeginTransaction(r) \/ RollbackTransaction(r) \/ DeadlockDetected(r)
           \/ CommitTransaction(r) \/ QueryFails(r)
    PROVE  SerialInv'
<1>0. HandlersOk
    BY DEF SharedInv
<1>1. CASE BeginTransaction(r)
    <2>1. pc[r] = "begin" /\ UNCHANGED db /\ Turns(r, "write", job[r])
        BY <1>1, ContinueTurns DEF BeginTransaction, Begin, Runs
    <2> QED BY <1>0, <2>1, QuietSerial DEF Deciding
<1>2. CASE RollbackTransaction(r)
    BY <1>0, <1>2, AnswerSerial DEF RollbackTransaction, Rollback, Ended
<1>3. CASE DeadlockDetected(r)
    BY <1>0, <1>3, ThrowSerial DEF DeadlockDetected, Fails
<1>4. ASSUME pc[r] = "commit", Committed(held[r]), NEW step \in {"readBack", "rollback", "done"},
             Turns(r, step, job[r])
      PROVE  SerialInv'
    BY <1>4, CommitSerial DEF Deciding
<1>5. CASE CommitTransaction(r)
    <2>1. pc[r] = "commit" /\ Committed(held[r])
        BY <1>5 DEF CommitTransaction, Commit, Committed
    <2>2. \/ Continue(r, "readBack", job[r]) \/ Continue(r, "rollback", job[r])
          \/ Answer(r, "done")
        BY <1>5 DEF CommitTransaction
    <2>3. PICK step \in {"readBack", "rollback", "done"} : Turns(r, step, job[r])
        BY <1>0, <2>2, ContinueTurns, AnswerTurns
    <2> QED BY <1>4, <2>1, <2>3
<1>6. CASE QueryFails(r)
    <2>1. Throw(r) /\ tx' = [tx EXCEPT ![held[r]] = NoTransaction]
        BY <1>6 DEF QueryFails, Closes
    <2>2. CASE UNCHANGED db
        BY <1>0, <2>1, <2>2, ThrowSerial
    <2>3. CASE pc[r] = "commit" /\ db' = Over(tx[held[r]].writes, db)
        <3>1. Committed(held[r])
            BY <2>1, <2>3 DEF Committed
        <3>2. Turns(r, "rollback", job[r])
            BY <1>0, <2>1, <2>3, ThrowTurns
        <3> QED BY <1>4, <2>3, <3>1, <3>2
    <2> QED BY <1>6, <2>2, <2>3 DEF QueryFails
<1> QED BY <1>1, <1>2, <1>3, <1>5, <1>6

LEMMA WriteRowSerial ==
    ASSUME SharedInv, LimitsOk, OwnedInv, limit = 1, SerialInv, NEW r \in Requests, WriteRow(r)
    PROVE  SerialInv'
<1>0. HandlersOk /\ DatabaseOk
    BY DEF SharedInv
<1>1. PICK j, step : j = job[r] /\ step = AfterWrite(r)
    OBVIOUS
<1>2. PICK c, w, n : 
          /\ c = held[r] /\ w = Head(j.todo) /\ Due(r, c, w) /\ j.todo # <<>>
          /\ n = [ ask |-> j.ask, todo |-> Tail(j.todo),
                   missed |-> j.missed \/ (w.how = "update" /\ w.key \notin DOMAIN View(c)) ]
          /\ \/ Clashes(w, View(c)) /\ Fails(c) /\ Throw(r)
             \/ /\ ~Clashes(w, View(c)) /\ WriteHappens(r, c, w)
                /\ \/ step = "end" /\ Answer(r, "done")
                   \/ step # "end" /\ Continue(r, step, n)
    BY <1>1, WriteStep
<1>3. InFlight(r) /\ pc[r] \in {"write", "store"} /\ c \in Connections
    BY <1>2, DueIsInFlight DEF Due
<1>4. n.ask = j.ask
    BY <1>2
<1>5. CASE Clashes(w, View(c)) /\ Fails(c) /\ Throw(r)
    BY <1>0, <1>5, ThrowSerial DEF Fails
<1>6. CASE /\ ~Clashes(w, View(c)) /\ WriteHappens(r, c, w)
           /\ \/ step = "end" /\ Answer(r, "done")
              \/ step # "end" /\ Continue(r, step, n)
    <2>1. CASE pc[r] = "store"
        <3>1. PICK s, m : s \in {"done", "store", "readBack"} /\ Turns(r, s, m)
            <4>1. step \in {"end", "store", "readBack"}
                BY <1>1, <2>1 DEF AfterWrite
            <4> QED BY <1>0, <1>6, <4>1, AnswerTurns, ContinueTurns
        <3> QED BY <1>2, <1>6, <2>1, <3>1, StoreSerial DEF Deciding
    <2>2. CASE pc[r] = "write"
        <3>1. step \in {"write", "commit"}
            BY <1>1, <2>2 DEF AfterWrite
        <3>2. Turns(r, step, n)
            BY <1>6, <3>1, ContinueTurns
        <3>3. tx[c].open
            BY <1>2, <1>3, <2>2, OwnFacts
        <3>4. UNCHANGED db
            BY <1>6, <3>3 DEF WriteHappens, Write
        <3> QED BY <1>0, <1>1, <1>4, <2>2, <3>2, <3>4, QuietSerial DEF Deciding
    <2> QED BY <1>3, <2>1, <2>2
<1> QED BY <1>2, <1>5, <1>6

LEMMA CrashSerial ==
    ASSUME SerialInv, Crash \/ IdleConnectionCloses
    PROVE  SerialInv'
<1>1. UNCHANGED <<db, job>> /\ \A s \in Requests : pc'[s] \in {"failed", pc[s]}
    BY DEF Crash, IdleConnectionCloses
<1>2. ASSUME NEW s \in Requests PROVE DecidesSent(s)'
    BY <1>1 DEF SerialInv, DecidesSent, RequestRow, Deciding
<1>3. RelationshipsFromAccepted'
    BY <1>1 DEF SerialInv, RelationshipsFromAccepted, RequestRow, RelationshipKey
<1> QED BY <1>2, <1>3 DEF SerialInv

LEMMA InitSerial ==
    ASSUME Init
    PROVE  SerialInv
<1>1. \A s \in Requests : pc[s] \notin Deciding
    BY DEF Init, PoolInit, Deciding
<1>2. ASSUME NEW k \in DOMAIN db PROVE k[1] # "relationship"
    <2>1. PICK v : SeedRow(k, v)
        BY SeedsAre
    <2> QED BY <2>1 DEF SeedRow
<1> QED BY <1>1, <1>2 DEF SerialInv, DecidesSent, RelationshipsFromAccepted

LEMMA NextSerial ==
    ASSUME SharedInv, LimitsOk, OwnedInv, limit = 1, SerialInv, Next
    PROVE  SerialInv'
<1>1. CASE Crash \/ IdleConnectionCloses
    BY <1>1, CrashSerial
<1>2. CASE ~Crash /\ ~IdleConnectionCloses
    <2>1. PICK r \in Requests :
              \/ Register(r) \/ Invite(r) \/ SendRequest(r) \/ Decide(r) \/ UpdateProfile(r)
              \/ Step(r) \/ QueryFails(r)
        BY <1>2 DEF Next
    <2>2. CASE Step(r)
        BY <2>2, ReadsSerial, FindUsernameSerial, ReadRequestSerial, TransactionsSerial,
           WriteRowSerial DEF Step
    <2> QED BY <2>1, <2>2, ArrivalsSerial, TransactionsSerial DEF SharedInv
<1> QED BY <1>1, <1>2

-----------------------------------------------------------------------------
(* The theorems.                                                           *)

LEMMA NextKeeps ==
    ASSUME IInv, Next
    PROVE  IInv'
<1>1. SharedInv' /\ LimitsOk'
    BY NextShared DEF IInv
<1>2. limit' = limit /\ size' = size
    BY LimitsStay
<1>3. ~Saturable' => OwnedInv'
    BY <1>2, NextOwned DEF IInv, Saturable
<1>4. limit' = 1 => SerialInv'
    <2>1. limit = 1 => ~Saturable
        BY PoolAssumption DEF IInv, LimitsOk, Saturable
    <2> QED BY <1>2, <2>1, NextSerial DEF IInv
<1> QED BY <1>1, <1>3, <1>4 DEF IInv

LEMMA StutterKeeps ==
    ASSUME IInv, UNCHANGED poolVars
    PROVE  IInv'
<1>1. SharedInv' /\ LimitsOk'
    BY StutterShared DEF IInv
<1>2. ~Saturable' => OwnedInv'
    BY StutterOwned DEF IInv, Saturable, poolVars
<1>3. limit' = 1 => SerialInv'
    BY DEF IInv, poolVars, SerialInv, DecidesSent, RelationshipsFromAccepted, RequestRow,
           RelationshipKey
<1> QED BY <1>1, <1>2, <1>3 DEF IInv

\* The database and the handlers' variables fit each other on any pool; with a
\* connection for every request each transaction is its handler's own.
THEOREM InvariantHolds == Spec => []IInv
<1>1. Init => IInv
    BY InitShared, InitOwned, InitSerial DEF IInv
<1>2. IInv /\ [Next]_poolVars => IInv'
    BY NextKeeps, StutterKeeps
<1> QED BY <1>1, <1>2, PTL DEF Spec

\* Whatever fails, and whenever the process stops: with a connection for every
\* request, what a registration or an invitation writes under keys of its own is
\* in the database whole or not at all, and whole once it is answered.
THEOREM TransactionsAreWhole == Spec => []WholeOrNothing
<1>1. IInv => WholeOrNothing
    <2>1. SUFFICES ASSUME IInv, ~Saturable, NEW r \in Requests, job[r] # None,
                          job[r].ask.kind \in {"register", "invite"}
                   PROVE  \/ OwnKeys(r) \subseteq DOMAIN db
                          \/ OwnKeys(r) \intersect DOMAIN db = {} /\ pc[r] # "done"
        BY DEF WholeOrNothing
    <2>2. pc[r] # "idle"
        BY <2>1 DEF IInv, SharedInv, HandlersOk
    <2>3. ProgressFits(r, pc[r], job[r])
        BY <2>1, <2>2 DEF IInv, OwnedInv, HandlersOwn, HandlerOwn
    <2>4. OwnKeys(r) = AskedKeys(r, job[r].ask)
        BY DEF OwnKeys, AskedKeys
    <2> QED BY <2>1, <2>3, <2>4 DEF ProgressFits
<1> QED BY <1>1, InvariantHolds, PTL

\* A decision is one of the organization the request was sent to; with a
\* connection for every request an accepted one has its relationship; and
\* handled one at a time, no relationship is without an accepted request.
THEOREM RelationshipsAreDecided == Spec => []RelationshipsAreAccepted
<1>1. IInv => RelationshipsAreAccepted
    <2> SUFFICES ASSUME IInv PROVE RelationshipsAreAccepted
        OBVIOUS
    <2>1. ASSUME NEW q \in Requests, <<"request", q>> \in DOMAIN db, RequestRow(q).state # "sent"
          PROVE  /\ job[RequestRow(q).by].ask.actor.org = RequestRow(q).to
                 /\ RequestRow(q).state = "accepted" /\ ~Saturable =>
                        <<"relationship", RequestRow(q).from, RequestRow(q).to, RequestRow(q).type>>
                            \in DOMAIN db
        <3>1. RequestFits(RequestKey(q), RequestRow(q)) /\ RequestKey(q)[1] = "request"
            BY <2>1 DEF IInv, SharedInv, DecisionsOk, RequestsFit, RequestKey, RequestRow
        <3>2. job[RequestRow(q).by].ask.actor.org = RequestRow(q).to
            BY <2>1, <3>1 DEF RequestFits, DecidedByTarget
        <3>3. ~Saturable => AcceptedHaveRelationship
            BY DEF IInv, OwnedInv
        <3> QED BY <2>1, <3>2, <3>3 DEF AcceptedHaveRelationship, RequestKey, RelationshipKey
    <2>2. limit = 1 => RelationshipsFromAccepted
        BY DEF IInv, SerialInv
    <2> QED BY <2>1, <2>2 DEF RelationshipsAreAccepted, RelationshipsFromAccepted, RequestKey,
                              RelationshipKey
<1> QED BY <1>1, InvariantHolds, PTL
=============================================================================
