-------------------------- MODULE DeploymentProofs --------------------------
(***************************************************************************)
(* Proofs about Deployment: for any number of migration files, of starts   *)
(* that overlap and of requests in between, the database is whole, and no  *)
(* start takes back what was recorded.                                     *)
(***************************************************************************)
EXTENDS Deployment, FiniteSetTheorems, SequenceTheorems, TLAPS

-----------------------------------------------------------------------------
(* The invariant.                                                          *)

FilesApplied == \E n \in 0..Migrations : applied = 1..n

\* Every run has found the files before the one it has come to.
RunFits(c) ==
    /\ script[c] \in {"check", "apply"} => at[c] > 0 /\ 1..(at[c] - 1) \subseteq applied
    /\ script[c] = "apply" => at[c] <= Migrations

DeployedTypeOK ==
    /\ script = [c \in Runners |-> script[c]]
    /\ at \in [Runners -> Nat]
    /\ rows \in [Kinds -> RowInUse \union {Absent}]
    /\ lifecycle \in [Kinds -> Seq(StatusesInUse)]
    /\ handler \in Move \union {Absent}

NothingSeeded ==
    /\ \A k \in Kinds : rows[k] = Absent /\ lifecycle[k] = << >>
    /\ handler = Absent

\* A row names an event that announced its status, or has the status of the seed.
RowTold(k) ==
    /\ rows[k].event \in 1..Len(lifecycle[k])
    /\ rows[k].status \in {SeededAs[k], lifecycle[k][rows[k].event]}

AllSeeded ==
    /\ \A k \in Kinds : rows[k] # Absent
    /\ 1..SeedNeeds \subseteq applied
    /\ \A k \in Traced : RowTold(k)

\* Between its two writes a handler's event is the last one of its kind.
MoveFits ==
    handler # Absent =>
        /\ handler.step = "announce" => handler.kind \in Traced
        /\ handler.step = "save" /\ handler.kind \in Traced =>
               /\ handler.event = Len(lifecycle[handler.kind]) /\ handler.event > 0
               /\ lifecycle[handler.kind][handler.event] = handler.to

DeployInv ==
    /\ FilesApplied
    /\ \A c \in Runners : RunFits(c)
    /\ DeployedTypeOK
    /\ NothingSeeded \/ AllSeeded
    /\ MoveFits

LEMMA KindsInUse ==
    /\ \A k \in Kinds : SeededAs[k] \in StatusesInUse
    /\ Traced \subseteq Kinds
    /\ Kinds = {"organization", "account", "grant", "relationship", "client", "request", "case",
                "anchor", "pilotAnchor", "review", "certificate", "contract", "order", "evidence",
                "escrow"}
<1>1. Kinds = {"organization", "account", "grant", "relationship", "client", "request", "case",
                "anchor", "pilotAnchor", "review", "certificate", "contract", "order", "evidence",
                "escrow"}
    BY DEF Kinds, SeededAs
<1>2. \A k \in Kinds : SeededAs[k] \in StatusesInUse
    BY DEF StatusesInUse
<1> QED BY <1>1, <1>2 DEF Traced

-----------------------------------------------------------------------------
(* The seed.                                                               *)

SeededRow(old, k) ==
    [ status |-> SeededAs[k],
      event |-> IF k \in Traced
                THEN IF old.rows[k] = Absent \/ k = "order" THEN 1 ELSE old.rows[k].event
                ELSE 0 ]

\* What the statements of the seed so far have made of the database old.
GrownFrom(old, db) ==
    /\ db.rows = [k \in Kinds |-> db.rows[k]]
    /\ db.lifecycle = [k \in Kinds |-> db.lifecycle[k]]
    /\ \A k \in Kinds :
           /\ db.rows[k] \in {old.rows[k], SeededRow(old, k)}
           /\ \/ db.lifecycle[k] = old.lifecycle[k]
              \/ k \in Traced /\ old.lifecycle[k] = << >> /\ db.lifecycle[k] = << SeededAs[k] >>

\* The kinds of the rows and of the events that have been seeded.
Stage(old, db, has, told) ==
    /\ GrownFrom(old, db)
    /\ \A k \in has : db.rows[k] # Absent
    /\ \A k \in told : db.lifecycle[k] # << >>

OldDatabase(old) ==
    /\ old.rows \in [Kinds -> RowInUse \union {Absent}]
    /\ old.lifecycle \in [Kinds -> Seq(StatusesInUse)]

LEMMA SeededRowInUse ==
    ASSUME NEW old, OldDatabase(old), NEW k \in Kinds
    PROVE  SeededRow(old, k) \in RowInUse /\ SeededRow(old, k) # Absent
<1>1. SeededAs[k] \in StatusesInUse
    BY KindsInUse
<1>2. old.rows[k] # Absent => old.rows[k].event \in Nat
    BY DEF OldDatabase, RowInUse
<1>3. SeededRow(old, k) \in RowInUse
    BY <1>1, <1>2 DEF SeededRow, RowInUse
<1> QED BY <1>3, DeploymentAssumption

LEMMA UpsertStage ==
    ASSUME NEW old, OldDatabase(old), NEW db, NEW has \in SUBSET Kinds, NEW told \in SUBSET Kinds,
           Stage(old, db, has, told), NEW kinds \in SUBSET Kinds
    PROVE  Stage(old, Upsert(db, kinds), has \union kinds, told)
<1> DEFINE new == Upsert(db, kinds)
<1>1. /\ new.lifecycle = db.lifecycle
      /\ new.rows = [k \in Kinds |->
            IF k \notin kinds THEN db.rows[k]
            ELSE [ status |-> SeededAs[k],
                   event |-> IF k \in Traced
                             THEN IF db.rows[k] = Absent \/ k = "order" THEN 1
                                  ELSE db.rows[k].event
                             ELSE 0 ]]
    BY DEF Upsert
<1> HIDE DEF new
<1>2. ASSUME NEW k \in kinds PROVE new.rows[k] = SeededRow(old, k)
  <2>1. db.rows[k] \in {old.rows[k], SeededRow(old, k)}
      BY DEF Stage, GrownFrom
  <2>2. SeededRow(old, k) # Absent
      BY SeededRowInUse
  <2>3. CASE db.rows[k] = old.rows[k]
      BY <1>1, <2>3 DEF SeededRow
  <2>4. CASE db.rows[k] = SeededRow(old, k)
    <3>1. db.rows[k] # Absent /\ db.rows[k].event = SeededRow(old, k).event
        BY <2>2, <2>4
    <3>2. new.rows[k] = [ status |-> SeededAs[k],
                          event |-> IF k \in Traced
                                    THEN IF k = "order" THEN 1 ELSE SeededRow(old, k).event
                                    ELSE 0 ]
        BY <1>1, <3>1
    <3> QED BY <3>2 DEF SeededRow
  <2> QED BY <2>1, <2>3, <2>4
<1>3. \A k \in Kinds \ kinds : new.rows[k] = db.rows[k]
    BY <1>1
<1>4. GrownFrom(old, new)
    BY <1>1, <1>2, <1>3 DEF Stage, GrownFrom
<1>5. \A k \in has \union kinds : new.rows[k] # Absent
    BY <1>2, <1>3, SeededRowInUse DEF Stage
<1>6. Stage(old, new, has \union kinds, told)
    BY <1>1, <1>4, <1>5 DEF Stage
<1> QED BY <1>6 DEF new

LEMMA InsertStage ==
    ASSUME NEW old, OldDatabase(old), NEW db, NEW has \in SUBSET Kinds, NEW told \in SUBSET Kinds,
           Stage(old, db, has, told), NEW kinds \in SUBSET Traced
    PROVE  Stage(old, InsertEvents(db, kinds), has, told \union kinds)
<1> DEFINE new == InsertEvents(db, kinds)
<1>1. /\ new.rows = db.rows
      /\ new.lifecycle = [k \in Kinds |->
            IF k \in kinds /\ db.lifecycle[k] = << >> THEN << SeededAs[k] >>
            ELSE db.lifecycle[k]]
    BY DEF InsertEvents
<1> HIDE DEF new
<1>2. ASSUME NEW k \in Kinds
      PROVE  /\ k \in kinds \/ db.lifecycle[k] # << >> => new.lifecycle[k] # << >> \/ k \notin kinds
             /\ db.lifecycle[k] # << >> => new.lifecycle[k] # << >>
             /\ \/ new.lifecycle[k] = old.lifecycle[k]
                \/ k \in Traced /\ old.lifecycle[k] = << >> /\ new.lifecycle[k] = << SeededAs[k] >>
    BY <1>1 DEF Stage, GrownFrom
<1>3. GrownFrom(old, new)
    BY <1>1, <1>2 DEF Stage, GrownFrom
<1>4. \A k \in told \union kinds : new.lifecycle[k] # << >>
    BY <1>2, KindsInUse DEF Stage
<1>5. Stage(old, new, has, told \union kinds)
    BY <1>1, <1>3, <1>4 DEF Stage
<1> QED BY <1>5 DEF new

LEMMA EventsStage ==
    ASSUME NEW old, OldDatabase(old), NEW db, NEW has \in SUBSET Kinds, NEW told \in SUBSET Kinds,
           Stage(old, db, has, told), NEW events \in SUBSET Traced, NEW kinds \in SUBSET Kinds
    PROVE  Stage(old, Upsert(InsertEvents(db, events), kinds), has \union kinds,
                 told \union events)
<1>1. Stage(old, InsertEvents(db, events), has, told \union events)
    BY InsertStage
<1>2. told \union events \in SUBSET Kinds
    BY KindsInUse
<1> QED BY <1>1, <1>2, UpsertStage

\* The whole transaction.
LEMMA SeedAllStage ==
    ASSUME NEW old, OldDatabase(old), old.rows = [k \in Kinds |-> old.rows[k]],
           old.lifecycle = [k \in Kinds |-> old.lifecycle[k]]
    PROVE  Stage(old, SeedAll(old), Kinds, Traced)
<1>1. Stage(old, old, {}, {})
    BY DEF Stage, GrownFrom
<1>2. PICK d1 : d1 = SeedOrganizations(old)
    OBVIOUS
<1>3. Stage(old, d1, {"organization"}, {})
  <2>1. {} \in SUBSET Kinds /\ {"organization"} \in SUBSET Kinds /\ {} \in SUBSET Kinds
        /\ {"organization"} = {} \union {"organization"}
      BY KindsInUse
  <2> QED BY <1>1, <1>2, <2>1, UpsertStage DEF SeedOrganizations, DemoOrganizations
<1>4. PICK d2 : d2 = SeedAccounts(d1)
    OBVIOUS
<1>5. Stage(old, d2, {"organization", "account", "grant"}, {})
  <2>1. {"organization"} \in SUBSET Kinds /\ {"account", "grant"} \in SUBSET Kinds /\ {} \in SUBSET Kinds
        /\ {"organization", "account", "grant"} = {"organization"} \union {"account", "grant"}
      BY KindsInUse
  <2> QED BY <1>3, <1>4, <2>1, UpsertStage DEF SeedAccounts, DemoAccounts
<1>6. PICK d3 : d3 = SeedRelationships(d2)
    OBVIOUS
<1>7. Stage(old, d3, {"organization", "account", "grant", "relationship"}, {})
  <2>1. {"organization", "account", "grant"} \in SUBSET Kinds /\ {"relationship"} \in SUBSET Kinds /\ {} \in SUBSET Kinds
        /\ {"organization", "account", "grant", "relationship"} = {"organization", "account", "grant"} \union {"relationship"}
      BY KindsInUse
  <2> QED BY <1>5, <1>6, <2>1, UpsertStage DEF SeedRelationships
<1>8. PICK d4 : d4 = SeedRequests(d3)
    OBVIOUS
<1>9. Stage(old, d4, {"organization", "account", "grant", "relationship", "request"}, {})
  <2>1. {"organization", "account", "grant", "relationship"} \in SUBSET Kinds /\ {"request"} \in SUBSET Kinds /\ {} \in SUBSET Kinds
        /\ {"organization", "account", "grant", "relationship", "request"} = {"organization", "account", "grant", "relationship"} \union {"request"}
      BY KindsInUse
  <2> QED BY <1>7, <1>8, <2>1, UpsertStage DEF SeedRequests
<1>10. PICK d5 : d5 = SeedClients(d4)
    OBVIOUS
<1>11. Stage(old, d5, {"organization", "account", "grant", "relationship", "request", "client"}, {})
  <2>1. {"organization", "account", "grant", "relationship", "request"} \in SUBSET Kinds /\ {"client"} \in SUBSET Kinds /\ {} \in SUBSET Kinds
        /\ {"organization", "account", "grant", "relationship", "request", "client"} = {"organization", "account", "grant", "relationship", "request"} \union {"client"}
      BY KindsInUse
  <2> QED BY <1>9, <1>10, <2>1, UpsertStage DEF SeedClients
<1>12. PICK d6 : d6 = SeedOnboarding(d5)
    OBVIOUS
<1>13. Stage(old, d6, {"organization", "account", "grant", "relationship", "request", "client", "case"}, {})
  <2>1. {"organization", "account", "grant", "relationship", "request", "client"} \in SUBSET Kinds /\ {"case"} \in SUBSET Kinds /\ {} \in SUBSET Kinds
        /\ {"organization", "account", "grant", "relationship", "request", "client", "case"} = {"organization", "account", "grant", "relationship", "request", "client"} \union {"case"}
      BY KindsInUse
  <2> QED BY <1>11, <1>12, <2>1, UpsertStage DEF SeedOnboarding
<1>14. PICK d7 : d7 = SeedShariah(d6)
    OBVIOUS
<1>15. Stage(old, d7, {"organization", "account", "grant", "relationship", "request", "client", "case", "review", "certificate"}, {})
  <2>1. {"organization", "account", "grant", "relationship", "request", "client", "case"} \in SUBSET Kinds /\ {"review", "certificate"} \in SUBSET Kinds /\ {} \in SUBSET Kinds
        /\ {"organization", "account", "grant", "relationship", "request", "client", "case", "review", "certificate"} = {"organization", "account", "grant", "relationship", "request", "client", "case"} \union {"review", "certificate"}
      BY KindsInUse
  <2> QED BY <1>13, <1>14, <2>1, UpsertStage DEF SeedShariah
<1>16. PICK d8 : d8 = SeedFinancing(d7)
    OBVIOUS
<1>17. Stage(old, d8, {"organization", "account", "grant", "relationship", "request", "client", "case", "review", "certificate", "contract"}, {})
  <2>1. {"organization", "account", "grant", "relationship", "request", "client", "case", "review", "certificate"} \in SUBSET Kinds /\ {"contract"} \in SUBSET Kinds /\ {} \in SUBSET Kinds
        /\ {"organization", "account", "grant", "relationship", "request", "client", "case", "review", "certificate", "contract"} = {"organization", "account", "grant", "relationship", "request", "client", "case", "review", "certificate"} \union {"contract"}
      BY KindsInUse
  <2> QED BY <1>15, <1>16, <2>1, UpsertStage DEF SeedFinancing
<1>18. PICK d9 : d9 = SeedOrders(d8)
    OBVIOUS
<1>19. Stage(old, d9, {"organization", "account", "grant", "relationship", "request", "client", "case", "review", "certificate", "contract", "order", "anchor"},
             {"order"})
  <2>1. {"organization", "account", "grant", "relationship", "request", "client", "case", "review", "certificate", "contract"} \in SUBSET Kinds /\ {"order", "anchor"} \in SUBSET Kinds
        /\ {} \in SUBSET Kinds /\ {"order"} \in SUBSET Traced
      BY KindsInUse DEF Traced
  <2>2. {"organization", "account", "grant", "relationship", "request", "client", "case", "review", "certificate", "contract", "order", "anchor"}
            = {"organization", "account", "grant", "relationship", "request", "client", "case", "review", "certificate", "contract"} \union {"order", "anchor"}
        /\ {"order"} = {} \union {"order"}
      OBVIOUS
  <2> QED BY <1>17, <1>18, <2>1, <2>2, EventsStage DEF SeedOrders
<1>20. PICK d10 : d10 = SeedEvidence(d9)
    OBVIOUS
<1>21. Stage(old, d10, {"organization", "account", "grant", "relationship", "request", "client", "case", "review", "certificate", "contract", "order", "anchor", "evidence"},
             {"order", "evidence"})
  <2>1. {"organization", "account", "grant", "relationship", "request", "client", "case", "review", "certificate", "contract", "order", "anchor"} \in SUBSET Kinds /\ {"anchor", "evidence"} \in SUBSET Kinds
        /\ {"order"} \in SUBSET Kinds /\ {"evidence"} \in SUBSET Traced
      BY KindsInUse DEF Traced
  <2>2. {"organization", "account", "grant", "relationship", "request", "client", "case", "review", "certificate", "contract", "order", "anchor", "evidence"}
            = {"organization", "account", "grant", "relationship", "request", "client", "case", "review", "certificate", "contract", "order", "anchor"} \union {"anchor", "evidence"}
        /\ {"order", "evidence"} = {"order"} \union {"evidence"}
      OBVIOUS
  <2> QED BY <1>19, <1>20, <2>1, <2>2, EventsStage DEF SeedEvidence
<1>22. PICK d11 : d11 = SeedEscrow(d10)
    OBVIOUS
<1>23. Stage(old, d11, {"organization", "account", "grant", "relationship", "request", "client", "case", "review", "certificate", "contract", "order", "anchor", "evidence", "escrow"},
             {"order", "evidence", "escrow"})
  <2>1. {"organization", "account", "grant", "relationship", "request", "client", "case", "review", "certificate", "contract", "order", "anchor", "evidence"} \in SUBSET Kinds /\ {"anchor", "escrow"} \in SUBSET Kinds
        /\ {"order", "evidence"} \in SUBSET Kinds /\ {"escrow"} \in SUBSET Traced
      BY KindsInUse DEF Traced
  <2>2. {"organization", "account", "grant", "relationship", "request", "client", "case", "review", "certificate", "contract", "order", "anchor", "evidence", "escrow"}
            = {"organization", "account", "grant", "relationship", "request", "client", "case", "review", "certificate", "contract", "order", "anchor", "evidence"} \union {"anchor", "escrow"}
        /\ {"order", "evidence", "escrow"} = {"order", "evidence"} \union {"escrow"}
      OBVIOUS
  <2> QED BY <1>21, <1>22, <2>1, <2>2, EventsStage DEF SeedEscrow
<1>24. PICK d12 : d12 = SeedPilotDeals(d11)
    OBVIOUS
<1>25. Stage(old, d12, {"organization", "account", "grant", "relationship", "request", "client", "case", "review", "certificate", "contract", "order", "anchor", "pilotAnchor", "evidence", "escrow"},
             {"order", "evidence", "escrow"})
  <2>1. {"organization", "account", "grant", "relationship", "request", "client", "case", "review", "certificate", "contract", "order", "anchor", "evidence", "escrow"} \in SUBSET Kinds /\ {"order", "anchor", "pilotAnchor", "evidence"} \in SUBSET Kinds
        /\ {"order", "evidence", "escrow"} \in SUBSET Kinds /\ {"order", "evidence"} \in SUBSET Traced
      BY KindsInUse DEF Traced
  <2>2. {"organization", "account", "grant", "relationship", "request", "client", "case", "review", "certificate", "contract", "order", "anchor", "pilotAnchor", "evidence", "escrow"}
            = {"organization", "account", "grant", "relationship", "request", "client", "case", "review", "certificate", "contract", "order", "anchor", "evidence", "escrow"} \union {"order", "anchor", "pilotAnchor", "evidence"}
        /\ {"order", "evidence", "escrow"} = {"order", "evidence", "escrow"} \union {"order", "evidence"}
      OBVIOUS
  <2> QED BY <1>23, <1>24, <2>1, <2>2, EventsStage DEF SeedPilotDeals
<1>26. SeedAll(old) = d12
    BY <1>2, <1>4, <1>6, <1>8, <1>10, <1>12, <1>14, <1>16, <1>18, <1>20, <1>22, <1>24 DEF SeedAll
<1> QED BY <1>25, <1>26, KindsInUse DEF Traced

-----------------------------------------------------------------------------
(* The runs of the scripts.                                                *)

\* Files that are applied stay so.
LEMMA FilesGrow ==
    ASSUME DeployInv, NEW c \in Runners, NEW step,
           script' = [script EXCEPT ![c] = step],
           at' \in [Runners -> Nat], \A d \in Runners \ {c} : at'[d] = at[d],
           applied \subseteq applied', FilesApplied',
           step \in {"check", "apply"} => at'[c] > 0 /\ 1..(at'[c] - 1) \subseteq applied',
           step = "apply" => at'[c] <= Migrations,
           UNCHANGED <<rows, lifecycle, handler>>
    PROVE  DeployInv'
<1>1. \A d \in Runners : RunFits(d)'
  <2>1. ASSUME NEW d \in Runners \ {c} PROVE RunFits(d)'
    <3>1. RunFits(d) /\ script'[d] = script[d] /\ at'[d] = at[d]
        BY DEF DeployInv, DeployedTypeOK
    <3> QED BY <3>1 DEF RunFits
  <2>2. RunFits(c)'
      BY DEF RunFits, DeployInv, DeployedTypeOK
  <2> QED BY <2>1, <2>2
<1>2. DeployedTypeOK'
    BY DEF DeployInv, DeployedTypeOK
<1>3. NothingSeeded' \/ AllSeeded'
    BY DEF DeployInv, NothingSeeded, AllSeeded, RowTold
<1>4. MoveFits'
    BY DEF DeployInv, MoveFits
<1> QED BY <1>1, <1>2, <1>3, <1>4 DEF DeployInv

LEMMA StartScriptsKeeps ==
    ASSUME DeployInv, NEW c \in Runners, StartScripts(c)
    PROVE  DeployInv'
<1>1. /\ script' = [script EXCEPT ![c] = "check"] /\ at' = [at EXCEPT ![c] = 1]
      /\ UNCHANGED <<applied, rows, lifecycle, handler>>
    BY DEF StartScripts
<1>2. at' \in [Runners -> Nat] /\ at'[c] = 1 /\ \A d \in Runners \ {c} : at'[d] = at[d]
    BY <1>1 DEF DeployInv, DeployedTypeOK
<1>3. /\ FilesApplied' /\ at'[c] > 0 /\ 1..(at'[c] - 1) \subseteq applied'
      /\ applied \subseteq applied'
    BY <1>1, <1>2 DEF DeployInv, FilesApplied
<1> QED BY <1>1, <1>2, <1>3, FilesGrow

LEMMA CheckFileKeeps ==
    ASSUME DeployInv, NEW c \in Runners, CheckFile(c)
    PROVE  DeployInv'
<1>1. /\ script[c] = "check" /\ UNCHANGED <<applied, rows, lifecycle, handler>>
      /\ at \in [Runners -> Nat] /\ FilesApplied /\ RunFits(c) /\ DeployedTypeOK
    BY DEF CheckFile, Proceed, DeployInv, DeployedTypeOK
<1>2. at[c] > 0 /\ 1..(at[c] - 1) \subseteq applied /\ at[c] \in Nat
    BY <1>1 DEF RunFits
<1>3. FilesApplied'
    BY <1>1 DEF FilesApplied
<1>4. CASE at[c] > Migrations
  <2>1. script' = [script EXCEPT ![c] = "seed"] /\ UNCHANGED at
      BY <1>4 DEF CheckFile, Proceed
  <2> QED BY <1>1, <1>3, <2>1, FilesGrow
<1>5. CASE at[c] \in applied /\ ~(at[c] > Migrations)
  <2>1. at' = [at EXCEPT ![c] = @ + 1] /\ UNCHANGED script
      BY <1>5 DEF CheckFile, Proceed
  <2>2. /\ at' \in [Runners -> Nat] /\ at'[c] = at[c] + 1
        /\ \A d \in Runners \ {c} : at'[d] = at[d]
        /\ script' = [script EXCEPT ![c] = "check"]
      BY <1>1, <1>2, <2>1 DEF DeployedTypeOK
  <2>3. at'[c] > 0 /\ 1..(at'[c] - 1) \subseteq applied' /\ applied \subseteq applied'
      BY <1>1, <1>2, <1>5, <2>2
  <2> QED BY <1>1, <1>2, <1>3, <2>2, <2>3, FilesGrow
<1>6. CASE at[c] \notin applied /\ ~(at[c] > Migrations)
  <2>1. script' = [script EXCEPT ![c] = "apply"] /\ UNCHANGED at
      BY <1>6 DEF CheckFile, Proceed
  <2>2. /\ at'[c] > 0 /\ 1..(at'[c] - 1) \subseteq applied' /\ at'[c] <= Migrations
        /\ at' \in [Runners -> Nat] /\ applied \subseteq applied'
        /\ \A d \in Runners \ {c} : at'[d] = at[d]
      BY <1>1, <1>2, <1>6, <2>1, DeploymentAssumption
  <2> QED BY <1>1, <1>3, <2>1, <2>2, FilesGrow
<1> QED BY <1>4, <1>5, <1>6

\* The file a run has come to is the first that is missing.
LEMMA ApplyFileKeeps ==
    ASSUME DeployInv, NEW c \in Runners, ApplyFile(c)
    PROVE  DeployInv'
<1>1. /\ script[c] = "apply" /\ at[c] \notin applied
      /\ applied' = applied \union {at[c]} /\ at' = [at EXCEPT ![c] = @ + 1]
      /\ script' = [script EXCEPT ![c] = "check"] /\ UNCHANGED <<rows, lifecycle, handler>>
      /\ at \in [Runners -> Nat] /\ FilesApplied /\ RunFits(c)
    BY DEF ApplyFile, Proceed, DeployInv, DeployedTypeOK
<1>2. at[c] \in 1..Migrations /\ 1..(at[c] - 1) \subseteq applied
    BY <1>1, DeploymentAssumption DEF RunFits
<1>3. /\ at' \in [Runners -> Nat] /\ at'[c] = at[c] + 1
      /\ \A d \in Runners \ {c} : at'[d] = at[d]
    BY <1>1, <1>2
<1>4. PICK n \in 0..Migrations : applied = 1..n
    BY <1>1 DEF FilesApplied
<1>5. at[c] = n + 1
  <2>1. at[c] > n
      BY <1>1, <1>2, <1>4, DeploymentAssumption
  <2>2. at[c] - 1 <= n
    <3>1. CASE at[c] = 1
        BY <3>1, <1>4, DeploymentAssumption
    <3>2. CASE at[c] # 1
      <4>1. at[c] - 1 \in 1..(at[c] - 1)
          BY <3>2, <1>2, DeploymentAssumption
      <4> QED BY <4>1, <1>2, <1>4, DeploymentAssumption
    <3> QED BY <3>1, <3>2
  <2> QED BY <2>1, <2>2, <1>2, <1>4, DeploymentAssumption
<1>6. applied' = 1..(n + 1) /\ n + 1 \in 0..Migrations
    BY <1>1, <1>2, <1>4, <1>5, DeploymentAssumption
<1>7. FilesApplied'
    BY <1>6 DEF FilesApplied
<1>8. at'[c] > 0 /\ 1..(at'[c] - 1) \subseteq applied'
    BY <1>3, <1>4, <1>5, <1>6
<1> QED BY <1>1, <1>3, <1>7, <1>8, FilesGrow

LEMMA RunEnds ==
    ASSUME DeployInv, NEW c \in Runners, NEW step \in {"seed", "serving", "off"},
           script' = [script EXCEPT ![c] = step],
           UNCHANGED <<applied, at, rows, lifecycle, handler>>
    PROVE  DeployInv'
<1>1. at \in [Runners -> Nat] /\ FilesApplied
    BY DEF DeployInv, DeployedTypeOK
<1>2. FilesApplied' /\ at' \in [Runners -> Nat]
    BY <1>1 DEF FilesApplied
<1> QED BY <1>2, FilesGrow

-----------------------------------------------------------------------------
(* The seed and the server.                                                *)

\* What the seed makes of the database.
LEMMA SeedWrites ==
    ASSUME DeployInv, NEW c \in Runners, RunSeed(c)
    PROVE  /\ rows' \in [Kinds -> RowInUse \union {Absent}]
           /\ lifecycle' \in [Kinds -> Seq(StatusesInUse)]
           /\ \A k \in Kinds :
                  /\ rows'[k] # Absent
                  /\ rows[k] # Absent /\ k # "order" /\ k \in Traced =>
                         rows'[k].event = rows[k].event
                  /\ lifecycle[k] # << >> => lifecycle'[k] = lifecycle[k]
                  /\ lifecycle[k] = << >> => lifecycle'[k] \in {<< >>, << SeededAs[k] >>}
           /\ AllSeeded'
<1> DEFINE old == [ rows |-> rows, lifecycle |-> lifecycle ]
<1>1. PICK db : db = SeedAll(old)
    OBVIOUS
<1>2. /\ rows' = db.rows /\ lifecycle' = db.lifecycle /\ 1..SeedNeeds \subseteq applied'
    BY <1>1 DEF RunSeed, Proceed
<1>3. /\ OldDatabase(old) /\ old.rows = rows /\ old.lifecycle = lifecycle
      /\ rows = [k \in Kinds |-> rows[k]] /\ lifecycle = [k \in Kinds |-> lifecycle[k]]
    BY DEF OldDatabase, DeployInv, DeployedTypeOK
<1> HIDE DEF old
<1>4. Stage(old, db, Kinds, Traced)
    BY <1>1, <1>3, SeedAllStage
<1>5. /\ rows' = [k \in Kinds |-> rows'[k]] /\ lifecycle' = [k \in Kinds |-> lifecycle'[k]]
      /\ \A k \in Kinds : rows'[k] # Absent /\ rows'[k] \in {rows[k], SeededRow(old, k)}
      /\ \A k \in Traced : lifecycle'[k] # << >>
      /\ \A k \in Kinds : \/ lifecycle'[k] = lifecycle[k]
                          \/ lifecycle[k] = << >> /\ lifecycle'[k] = << SeededAs[k] >>
    BY <1>2, <1>3, <1>4 DEF Stage, GrownFrom
<1>6. \A k \in Kinds : SeededRow(old, k) \in RowInUse
    BY <1>3, SeededRowInUse
<1>7. rows' \in [Kinds -> RowInUse \union {Absent}]
    BY <1>5, <1>6 DEF DeployInv, DeployedTypeOK
<1>8. lifecycle' \in [Kinds -> Seq(StatusesInUse)]
  <2>1. \A k \in Kinds : << SeededAs[k] >> \in Seq(StatusesInUse)
      BY KindsInUse
  <2> QED BY <1>5, <2>1 DEF DeployInv, DeployedTypeOK
<1>9. ASSUME NEW k \in Kinds, rows[k] # Absent, k # "order", k \in Traced
      PROVE  rows'[k].event = rows[k].event
    BY <1>3, <1>5, <1>9 DEF SeededRow
<1>10. ASSUME NEW k \in Traced PROVE RowTold(k)'
  <2>1. k \in Kinds
      BY KindsInUse
  <2>2. CASE NothingSeeded
    <3>1. rows[k] = Absent /\ lifecycle[k] = << >>
        BY <2>1, <2>2 DEF NothingSeeded
    <3>2. rows'[k] = SeededRow(old, k) /\ SeededRow(old, k).event = 1
        BY <1>3, <1>5, <2>1, <3>1 DEF SeededRow
    <3>3. lifecycle'[k] = << SeededAs[k] >>
        BY <1>5, <2>1, <3>1
    <3> QED BY <3>2, <3>3 DEF RowTold, SeededRow
  <2>3. CASE AllSeeded
    <3>1. RowTold(k) /\ rows[k] # Absent /\ lifecycle[k] \in Seq(StatusesInUse)
        BY <2>1, <2>3 DEF AllSeeded, DeployInv, DeployedTypeOK
    <3>2. lifecycle[k] # << >> /\ lifecycle'[k] = lifecycle[k] /\ Len(lifecycle[k]) \in Nat \ {0}
        BY <1>5, <2>1, <3>1 DEF RowTold
    <3>3. CASE rows'[k] = rows[k]
        BY <3>1, <3>2, <3>3 DEF RowTold
    <3>4. CASE rows'[k] = SeededRow(old, k)
      <4>1. rows'[k].event \in {1, rows[k].event} /\ rows'[k].status = SeededAs[k]
          BY <1>3, <3>4 DEF SeededRow
      <4> QED BY <3>1, <3>2, <4>1 DEF RowTold
    <3> QED BY <1>5, <2>1, <3>3, <3>4
  <2> QED BY <2>2, <2>3 DEF DeployInv
<1>11. AllSeeded'
    BY <1>2, <1>5, <1>10 DEF AllSeeded
<1> QED BY <1>5, <1>7, <1>8, <1>9, <1>11

LEMMA RunSeedKeeps ==
    ASSUME DeployInv, NEW c \in Runners, RunSeed(c)
    PROVE  DeployInv'
<1>1. /\ script' = [script EXCEPT ![c] = AfterScripts(c)] /\ UNCHANGED <<applied, at, handler>>
      /\ AfterScripts(c) \in {"serving", "off"}
    BY DEF RunSeed, Proceed, AfterScripts
<1>2. DeployedTypeOK' /\ AllSeeded'
    BY <1>1, SeedWrites DEF DeployInv, DeployedTypeOK
<1>3. FilesApplied'
    BY <1>1 DEF DeployInv, FilesApplied
<1>4. \A d \in Runners : RunFits(d)'
  <2>1. ASSUME NEW d \in Runners PROVE RunFits(d)'
    <3>1. RunFits(d) /\ script'[d] \in {script[d], "serving", "off"}
        BY <1>1 DEF DeployInv, DeployedTypeOK
    <3> QED BY <1>1, <3>1 DEF RunFits
  <2> QED BY <2>1
<1>5. MoveFits'
  <2> SUFFICES ASSUME handler # Absent PROVE MoveFits'
      BY <1>1 DEF MoveFits
  <2>1. AllSeeded /\ MoveFits /\ handler \in Move
      BY DEF DeployInv, NothingSeeded, DeployedTypeOK
  <2>2. ASSUME handler.kind \in Traced PROVE lifecycle'[handler.kind] = lifecycle[handler.kind]
    <3>1. handler.kind \in Kinds /\ RowTold(handler.kind)
        BY <2>1, <2>2, KindsInUse DEF AllSeeded
    <3>2. lifecycle[handler.kind] # << >>
        BY <3>1 DEF RowTold
    <3> QED BY <3>1, <3>2, SeedWrites
  <2> QED BY <1>1, <2>1, <2>2 DEF MoveFits
<1> QED BY <1>2, <1>3, <1>4, <1>5 DEF DeployInv


\* A step of the server or of its death: the files and the runs stay as they are.
LEMMA ServerStep ==
    ASSUME DeployInv, UNCHANGED <<applied, at>>,
           script' = script \/ script' = [script EXCEPT !["container"] = "off"],
           DeployedTypeOK', NothingSeeded' \/ AllSeeded', MoveFits'
    PROVE  DeployInv'
<1>1. FilesApplied'
    BY DEF DeployInv, FilesApplied
<1>2. \A d \in Runners : RunFits(d)'
  <2>1. ASSUME NEW d \in Runners PROVE RunFits(d)'
    <3>1. RunFits(d) /\ script'[d] \in {script[d], "off"}
        BY DEF DeployInv, DeployedTypeOK
    <3> QED BY <3>1 DEF RunFits
  <2> QED BY <2>1
<1> QED BY <1>1, <1>2 DEF DeployInv

LEMMA BeginMoveKeeps ==
    ASSUME DeployInv, NEW k \in Kinds, rows[k] # Absent, NEW to \in LiveMoves(k, rows[k].status),
           BeginMove(k, to)
    PROVE  DeployInv'
<1>1. /\ UNCHANGED <<applied, script, at, rows, lifecycle>>
      /\ handler' = [ kind |-> k, to |-> to, event |-> 0,
                      step |-> IF k \in Traced THEN "announce" ELSE "save" ]
    BY DEF BeginMove
<1>2. to \in StatusesInUse
    BY DEF LiveMoves
<1>3. handler' \in Move
    BY <1>1, <1>2 DEF Move
<1>4. DeployedTypeOK'
    BY <1>1, <1>3 DEF DeployInv, DeployedTypeOK
<1>5. AllSeeded
    BY DEF DeployInv, NothingSeeded
<1>6. AllSeeded'
    BY <1>1, <1>5 DEF AllSeeded, RowTold
<1>7. MoveFits'
    BY <1>1 DEF MoveFits
<1> QED BY <1>1, <1>4, <1>6, <1>7, ServerStep

LEMMA AnnounceMoveKeeps ==
    ASSUME DeployInv, AnnounceMove
    PROVE  DeployInv'
<1> DEFINE k == handler.kind
<1>1. /\ handler # Absent /\ handler.step = "announce"
      /\ lifecycle' = [lifecycle EXCEPT ![k] = Append(@, handler.to)]
      /\ handler' = [ kind |-> k, to |-> handler.to, event |-> Len(lifecycle[k]) + 1,
                      step |-> "save" ]
      /\ UNCHANGED <<applied, script, at, rows>>
    BY DEF AnnounceMove
<1>2. /\ AllSeeded /\ k \in Traced /\ k \in Kinds /\ handler.to \in StatusesInUse
      /\ lifecycle[k] \in Seq(StatusesInUse)
    BY <1>1, KindsInUse DEF DeployInv, NothingSeeded, MoveFits, DeployedTypeOK, Move
<1>3. /\ Append(lifecycle[k], handler.to) \in Seq(StatusesInUse)
      /\ Len(lifecycle[k]) \in Nat
      /\ Len(Append(lifecycle[k], handler.to)) = Len(lifecycle[k]) + 1
      /\ Append(lifecycle[k], handler.to)[Len(lifecycle[k]) + 1] = handler.to
      /\ \A i \in 1..Len(lifecycle[k]) :
             Append(lifecycle[k], handler.to)[i] = lifecycle[k][i]
    BY <1>2
<1>4. /\ lifecycle' \in [Kinds -> Seq(StatusesInUse)]
      /\ lifecycle'[k] = Append(lifecycle[k], handler.to)
      /\ \A l \in Kinds \ {k} : lifecycle'[l] = lifecycle[l]
    BY <1>1, <1>2, <1>3 DEF DeployInv, DeployedTypeOK
<1>5. handler' \in Move /\ handler' # Absent
  <2>1. handler' \in Move
      BY <1>1, <1>2, <1>3 DEF Move
  <2> QED BY <2>1, DeploymentAssumption
<1>6. DeployedTypeOK'
    BY <1>1, <1>4, <1>5 DEF DeployInv, DeployedTypeOK
<1>7. AllSeeded'
  <2>1. ASSUME NEW l \in Traced PROVE RowTold(l)'
    <3>1. RowTold(l) /\ l \in Kinds
        BY <1>2, KindsInUse DEF AllSeeded
    <3>2. CASE l = k
        BY <1>1, <1>3, <1>4, <3>1, <3>2 DEF RowTold
    <3>3. CASE l # k
        BY <1>1, <1>4, <3>1, <3>3 DEF RowTold
    <3> QED BY <3>2, <3>3
  <2> QED BY <1>1, <1>2, <2>1 DEF AllSeeded
<1>8. MoveFits'
    BY <1>1, <1>3, <1>4 DEF MoveFits
<1> QED BY <1>1, <1>6, <1>7, <1>8, ServerStep

LEMMA SaveMoveWrites ==
    ASSUME DeployInv, SaveMove
    PROVE  LET k == handler.kind
               row == [ status |-> handler.to, event |-> handler.event ]
           IN  /\ AllSeeded /\ k \in Kinds /\ row \in RowInUse
               /\ rows' = [rows EXCEPT ![k] = row] /\ handler' = Absent
               /\ UNCHANGED <<applied, script, at, lifecycle>>
               /\ k \in Traced => /\ handler.event = Len(lifecycle[k]) /\ handler.event > 0
                                  /\ lifecycle[k][handler.event] = handler.to
BY DEF SaveMove, DeployInv, NothingSeeded, DeployedTypeOK, Move, RowInUse, MoveFits

LEMMA SaveMoveKeeps ==
    ASSUME DeployInv, SaveMove
    PROVE  DeployInv'
<1> DEFINE k == handler.kind
           row == [ status |-> handler.to, event |-> handler.event ]
<1>1. /\ AllSeeded /\ k \in Kinds /\ row \in RowInUse
      /\ rows' = [rows EXCEPT ![k] = row] /\ handler' = Absent
      /\ UNCHANGED <<applied, script, at, lifecycle>>
      /\ k \in Traced => /\ handler.event = Len(lifecycle[k]) /\ handler.event > 0
                         /\ lifecycle[k][handler.event] = handler.to
    BY SaveMoveWrites
<1>2. row.status = handler.to /\ row.event = handler.event
    OBVIOUS
<1> HIDE DEF row
<1>3. /\ rows' \in [Kinds -> RowInUse \union {Absent}] /\ rows'[k] = row
      /\ \A l \in Kinds \ {k} : rows'[l] = rows[l]
    BY <1>1 DEF DeployInv, DeployedTypeOK
<1>4. DeployedTypeOK'
    BY <1>1, <1>3 DEF DeployInv, DeployedTypeOK
<1>5. row # Absent
    BY <1>1, DeploymentAssumption
<1>6. ASSUME NEW l \in Traced PROVE RowTold(l)'
  <2>1. RowTold(l) /\ l \in Kinds /\ lifecycle[l] \in Seq(StatusesInUse)
      BY <1>1, KindsInUse DEF AllSeeded, DeployInv, DeployedTypeOK
  <2>2. CASE l = k
    <3>1. Len(lifecycle[l]) \in Nat
        BY <2>1
    <3>2. rows'[l].event = Len(lifecycle[l]) /\ rows'[l].status = handler.to
        BY <1>1, <1>2, <1>3, <2>2
    <3>3. Len(lifecycle[l]) > 0 /\ lifecycle[l][Len(lifecycle[l])] = handler.to
        BY <1>1, <2>2
    <3> QED BY <1>1, <3>1, <3>2, <3>3 DEF RowTold
  <2>3. CASE l # k
      BY <1>1, <1>3, <2>1, <2>3 DEF RowTold
  <2> QED BY <2>2, <2>3
<1>7. AllSeeded'
    BY <1>1, <1>3, <1>5, <1>6 DEF AllSeeded
<1>8. MoveFits'
    BY <1>1 DEF MoveFits
<1> QED BY <1>1, <1>4, <1>7, <1>8, ServerStep

LEMMA StopKeeps ==
    ASSUME DeployInv, StopContainer
    PROVE  DeployInv'
<1>1. /\ script' = [script EXCEPT !["container"] = "off"] /\ handler' = Absent
      /\ UNCHANGED <<applied, at, rows, lifecycle>>
    BY DEF StopContainer
<1>2. DeployedTypeOK' /\ MoveFits'
    BY <1>1 DEF DeployInv, DeployedTypeOK, MoveFits
<1>3. NothingSeeded' \/ AllSeeded'
    BY <1>1 DEF DeployInv, NothingSeeded, AllSeeded, RowTold
<1> QED BY <1>1, <1>2, <1>3, ServerStep

LEMMA DeploymentStepKeeps ==
    ASSUME DeployInv, [DeploymentStep]_deploymentVars
    PROVE  DeployInv'
<1>1. CASE UNCHANGED deploymentVars
  <2>1. UNCHANGED <<applied, script, at, rows, lifecycle, handler>>
      BY <1>1 DEF deploymentVars
  <2>2. DeployedTypeOK' /\ MoveFits'
      BY <2>1 DEF DeployInv, DeployedTypeOK, MoveFits
  <2>3. NothingSeeded' \/ AllSeeded'
      BY <2>1 DEF DeployInv, NothingSeeded, AllSeeded, RowTold
  <2> QED BY <2>1, <2>2, <2>3, ServerStep
<1>2. ASSUME NEW c \in Runners, ApplyFails(c) \/ SeedFails(c)
      PROVE  DeployInv'
  <2>1. \E step \in {"seed", "serving", "off"} :
            /\ script' = [script EXCEPT ![c] = step]
            /\ UNCHANGED <<applied, at, rows, lifecycle, handler>>
      BY <1>2 DEF ApplyFails, SeedFails, Proceed, AfterScripts
  <2> QED BY <2>1, RunEnds
<1> QED BY <1>1, <1>2, StartScriptsKeeps, CheckFileKeeps, ApplyFileKeeps, RunSeedKeeps,
          BeginMoveKeeps, AnnounceMoveKeeps, SaveMoveKeeps, StopKeeps DEF DeploymentStep

-----------------------------------------------------------------------------
\* Files, runs, rows and events fit each other, whatever overlaps or fails.
THEOREM DeploymentInvariantHolds == DeploymentSpec => []DeployInv
<1>1. DeploymentInit => DeployInv
  <2> SUFFICES ASSUME DeploymentInit PROVE DeployInv
      OBVIOUS
  <2>1. FilesApplied
    <3>1. applied = 1..0 /\ 0 \in 0..Migrations
        BY DeploymentAssumption DEF DeploymentInit
    <3> QED BY <3>1 DEF FilesApplied
  <2>2. DeployedTypeOK /\ NothingSeeded /\ MoveFits
      BY DEF DeploymentInit, DeployedTypeOK, NothingSeeded, MoveFits
  <2>3. \A c \in Runners : RunFits(c)
      BY DEF DeploymentInit, RunFits
  <2> QED BY <2>1, <2>2, <2>3 DEF DeployInv
<1>2. DeployInv /\ [DeploymentStep]_deploymentVars => DeployInv'
    BY DeploymentStepKeeps
<1> QED BY <1>1, <1>2, PTL DEF DeploymentSpec

\* However runs of the scripts overlap and fail, the files are applied without a
\* gap, and the demo data is there whole, with its events, or not at all.
THEOREM DatabaseStaysWhole == DeploymentSpec => []DatabaseIsWhole
<1>1. DeployInv => DatabaseIsWhole
  <2> SUFFICES ASSUME DeployInv PROVE DatabaseIsWhole
      OBVIOUS
  <2>1. PICK n \in 0..Migrations : applied = 1..n
      BY DEF DeployInv, FilesApplied
  <2>2. Cardinality(1..n) = n
      BY <2>1, FS_Interval, DeploymentAssumption
  <2>3. applied = 1..Cardinality(applied)
      BY <2>1, <2>2
  <2>4. CASE NothingSeeded
      BY <2>3, <2>4 DEF NothingSeeded, DatabaseIsWhole
  <2>5. CASE AllSeeded
      BY <2>3, <2>5 DEF AllSeeded, RowTold, DatabaseIsWhole
  <2> QED BY <2>4, <2>5 DEF DeployInv
<1> QED BY <1>1, DeploymentInvariantHolds, PTL

\* What a step may do to the trails and to the row of the escrow.
TrailsKept ==
    /\ \A k \in Kinds : IsPrefix(lifecycle[k], lifecycle'[k])
    /\ rows["escrow"] # Absent => rows'["escrow"] # Absent
                                  /\ rows'["escrow"].event >= rows["escrow"].event

LEMMA PrefixOfSame ==
    ASSUME NEW S, NEW s \in Seq(S)
    PROVE  IsPrefix(s, s)
BY DEF IsPrefix

LEMMA TrailsAreKept ==
    ASSUME DeployInv, [DeploymentStep]_deploymentVars
    PROVE  TrailsKept
<1>1. /\ "escrow" \in Kinds /\ "escrow" \in Traced
      /\ \A k \in Kinds : lifecycle[k] \in Seq(StatusesInUse)
                          /\ IsPrefix(lifecycle[k], lifecycle[k])
    BY KindsInUse, PrefixOfSame DEF Traced, DeployInv, DeployedTypeOK
<1>2. rows["escrow"] # Absent => /\ rows["escrow"].event \in Nat
                                 /\ rows["escrow"].event <= Len(lifecycle["escrow"])
  <2>1. rows["escrow"] # Absent => RowTold("escrow")
      BY <1>1 DEF DeployInv, NothingSeeded, AllSeeded
  <2> QED BY <1>1, <2>1 DEF RowTold
<1>3. CASE UNCHANGED <<rows, lifecycle>>
    BY <1>1, <1>2, <1>3 DEF TrailsKept
<1>4. ASSUME NEW c \in Runners, RunSeed(c) PROVE TrailsKept
  <2>1. ASSUME NEW k \in Kinds PROVE IsPrefix(lifecycle[k], lifecycle'[k])
    <3>1. CASE lifecycle[k] # << >>
        BY <1>1, <1>4, <3>1, SeedWrites
    <3>2. CASE lifecycle[k] = << >>
      <4>1. lifecycle'[k] \in {<< >>, << SeededAs[k] >>}
          BY <1>4, <3>2, SeedWrites
      <4>2. Len(lifecycle[k]) = 0 /\ Len(lifecycle'[k]) >= 0
          BY <3>2, <4>1
      <4>3. SubSeq(lifecycle[k], 1, 0) = << >> /\ SubSeq(lifecycle'[k], 1, 0) = << >>
          BY <3>2, <4>1
      <4> QED BY <4>2, <4>3 DEF IsPrefix
    <3> QED BY <3>1, <3>2
  <2>2. rows["escrow"] # Absent => rows'["escrow"] # Absent
                                   /\ rows'["escrow"].event = rows["escrow"].event
      BY <1>1, <1>4, SeedWrites
  <2> QED BY <1>2, <2>1, <2>2 DEF TrailsKept
<1>5. ASSUME AnnounceMove PROVE TrailsKept
  <2> DEFINE k == handler.kind
  <2>1. /\ handler # Absent /\ UNCHANGED rows
        /\ lifecycle' = [lifecycle EXCEPT ![k] = Append(@, handler.to)]
      BY <1>5 DEF AnnounceMove
  <2>2. k \in Kinds /\ handler.to \in StatusesInUse
      BY <2>1 DEF DeployInv, DeployedTypeOK, Move
  <2>3. ASSUME NEW l \in Kinds PROVE IsPrefix(lifecycle[l], lifecycle'[l])
    <3>1. CASE l # k
        BY <1>1, <2>1, <3>1 DEF DeployInv, DeployedTypeOK
    <3>2. CASE l = k
      <4>1. PICK s, t : s = lifecycle[l] /\ t = Append(s, handler.to)
          OBVIOUS
      <4>2. s \in Seq(StatusesInUse) /\ lifecycle'[l] = t
          BY <1>1, <2>1, <3>2, <4>1 DEF DeployInv, DeployedTypeOK
      <4>3. Len(s) \in Nat /\ Len(t) = Len(s) + 1 /\ t \in Seq(StatusesInUse)
            /\ \A i \in 1..Len(s) : t[i] = s[i]
          BY <2>2, <4>1, <4>2
      <4>4. SubSeq(s, 1, Len(s)) = SubSeq(t, 1, Len(s))
          BY <4>2, <4>3
      <4> QED BY <4>1, <4>2, <4>3, <4>4 DEF IsPrefix
    <3> QED BY <3>1, <3>2
  <2> QED BY <1>2, <2>1, <2>3 DEF TrailsKept
<1>6. ASSUME SaveMove PROVE TrailsKept
  <2> DEFINE k == handler.kind
             row == [ status |-> handler.to, event |-> handler.event ]
  <2>1. /\ k \in Kinds /\ row \in RowInUse /\ rows' = [rows EXCEPT ![k] = row]
        /\ UNCHANGED lifecycle /\ (k \in Traced => handler.event = Len(lifecycle[k]))
      BY <1>6, SaveMoveWrites
  <2>2. row # Absent /\ row.event = handler.event
      BY <2>1, DeploymentAssumption
  <2> HIDE DEF row
  <2>3. CASE k = "escrow"
    <3>1. rows'["escrow"] = row /\ row.event = Len(lifecycle["escrow"])
        BY <1>1, <2>1, <2>2, <2>3 DEF DeployInv, DeployedTypeOK
    <3>2. Len(lifecycle["escrow"]) \in Nat
        BY <1>1
    <3>3. rows["escrow"] # Absent => row.event >= rows["escrow"].event
        BY <1>2, <3>1, <3>2
    <3> QED BY <1>1, <2>1, <2>2, <3>1, <3>3 DEF TrailsKept
  <2>4. CASE k # "escrow"
    <3>1. rows'["escrow"] = rows["escrow"]
        BY <1>1, <2>1, <2>4 DEF DeployInv, DeployedTypeOK
    <3> QED BY <1>1, <1>2, <2>1, <3>1 DEF TrailsKept
  <2> QED BY <2>3, <2>4
<1>7. ASSUME NEW c \in Runners,
             \/ StartScripts(c) \/ CheckFile(c) \/ ApplyFile(c) \/ ApplyFails(c) \/ SeedFails(c)
      PROVE  UNCHANGED <<rows, lifecycle>>
    BY <1>7 DEF StartScripts, CheckFile, ApplyFile, ApplyFails, SeedFails
<1>8. ASSUME \/ \E k \in Kinds : \E to \in LiveMoves(k, rows[k].status) : BeginMove(k, to)
             \/ StopContainer \/ UNCHANGED deploymentVars
      PROVE  UNCHANGED <<rows, lifecycle>>
    BY <1>8 DEF BeginMove, StopContainer, deploymentVars
<1> QED BY <1>3, <1>4, <1>5, <1>6, <1>7, <1>8 DEF DeploymentStep

\* A restart takes back no event, and never the reference to one: the escrow's
\* status is that of the event it names, or the one of the seed.
THEOREM HistoryIsKept == DeploymentSpec => HistoryOutlivesRestarts
<1> DEFINE Step ==
               /\ \A k \in Kinds : IsPrefix(lifecycle[k], lifecycle'[k])
               /\ rows["escrow"] # Absent =>
                      /\ rows'["escrow"].event >= rows["escrow"].event
                      /\ rows'["escrow"].status \in
                             {SeededAs["escrow"], lifecycle'["escrow"][rows'["escrow"].event]}
           EscrowTold == rows["escrow"] # Absent => RowTold("escrow")
<1>1. DeployInv => EscrowTold
    BY KindsInUse DEF DeployInv, NothingSeeded, AllSeeded, Traced
<1>2. DeployInv /\ [DeploymentStep]_deploymentVars => TrailsKept
    BY TrailsAreKept
<1>3. EscrowTold' /\ TrailsKept => [Step]_deploymentVars
    BY DEF RowTold, TrailsKept
<1> HIDE DEF EscrowTold, Step
<1>4. DeploymentSpec => [][Step]_deploymentVars
    BY <1>1, <1>2, <1>3, DeploymentInvariantHolds, PTL DEF DeploymentSpec
<1> QED BY <1>4 DEF Step, HistoryOutlivesRestarts
=============================================================================
