---------------------------- MODULE EscrowHistory ----------------------------
(***************************************************************************)
(* What the escrow module promises about its audit trail, whatever its     *)
(* requests do to each other: recorded events are never changed and form,  *)
(* for each escrow, a forest whose every branch is a legal life of an      *)
(* escrow; and an escrow record always stands at an event of its own       *)
(* trail, in the status that event announced.  It does not promise that    *)
(* the trail is a single chain, nor that a record only moves forward       *)
(* along it: the code does not keep those.                                 *)
(***************************************************************************)
EXTENDS EscrowDomain

CONSTANTS Ids,      \* identities of escrows and of events
          Orders,
          None

VARIABLES log,      \* log[e]: the recorded event e, or None
          head      \* head[x]: the record of escrow x, or None

historyVars == <<log, head>>

HistoryInit ==
    /\ log = [e \in Ids |-> None]
    /\ head = [x \in Ids |-> None]

NoOtherActive(x, o) ==
    \A y \in Ids \ {x} :
        head[y] # None /\ head[y].order = o
            => head[y].status \notin ActiveEscrowStatuses

\* The status in which command c finds an escrow whose last event is p.
From(c, p) ==
    IF c = "create" THEN "accepted"
    ELSE IF p = None THEN "escrowCreated"
    ELSE log[p].to

\* The event of command c on escrow x after event p.
Entry(c, x, p) ==
    [ escrow |-> x, cmd |-> c, prev |-> p, from |-> From(c, p),
      to |-> IF c = "create" THEN "escrowCreated" ELSE Target[c] ]

\* c starts a trail, or legally continues the trail after its event p.
Continues(c, p) == IF c = "create" THEN p = None ELSE From(c, p) \in Sources[c]

\* The events the next one of x may continue.
TrailOf(x) == {p \in Ids : log[p] # None /\ log[p].escrow = x}

Open(x, o) ==
    /\ head[x] = None
    /\ NoOtherActive(x, o)
    /\ head' = [head EXCEPT ![x] = [order |-> o, status |-> "escrowCreated", last |-> None]]
    /\ UNCHANGED log

Append(e, x) ==
    /\ log[e] = None
    /\ head[x] # None
    /\ \E p \in TrailOf(x) \union {None}, c \in Commands \union {"create"} :
          /\ Continues(c, p)
          /\ log' = [log EXCEPT ![e] = Entry(c, x, p)]
    /\ UNCHANGED head

StandAt(x, e) ==
    /\ head[x] # None
    /\ log[e] # None
    /\ log[e].escrow = x
    /\ log[e].to \in ActiveEscrowStatuses => NoOtherActive(x, head[x].order)
    /\ head' = [head EXCEPT ![x] = [order |-> head[x].order, status |-> log[e].to, last |-> e]]
    /\ UNCHANGED log

HistoryNext ==
    \/ \E x \in Ids, o \in Orders : Open(x, o)
    \/ \E e, x \in Ids : Append(e, x)
    \/ \E x, e \in Ids : StandAt(x, e)

HistorySpec == HistoryInit /\ [][HistoryNext]_historyVars
==============================================================================
