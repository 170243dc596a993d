-------------------------- MODULE AdmissionControl --------------------------
(***************************************************************************)
(* What the limiter promises its callers, without a queue, a timer or a    *)
(* promise: a request is refused or admitted, an admitted request takes a  *)
(* slot when there is one, holds it once and gives it back.                *)
(***************************************************************************)
EXTENDS Integers, FiniteSets

CONSTANTS Requests, Limits, Backlogs

VARIABLES
    limit,    \* how many requests may hold a slot
    backlog,  \* how many more may wait
    place     \* where each request stands

vars == <<limit, backlog, place>>

Places == {"outside", "refused", "waiting", "holding", "released"}

TypeOK ==
    /\ limit \in Limits
    /\ backlog \in Backlogs
    /\ place \in [Requests -> Places]

At(p) == {r \in Requests : place[r] = p}

Admitted == At("waiting") \cup At("holding")

Init ==
    /\ limit \in Limits
    /\ backlog \in Backlogs
    /\ place = [r \in Requests |-> "outside"]

\* The requests of S take a slot; all of them fit.
Occupy(S, now) ==
    /\ S # {} => Cardinality({r \in Requests : now[r] = "holding"} \cup S) <= limit
    /\ place' = [r \in Requests |-> IF r \in S THEN "holding" ELSE now[r]]
    /\ UNCHANGED <<limit, backlog>>

Refuse(r) ==
    /\ place[r] = "outside"
    /\ place' = [place EXCEPT ![r] = "refused"]
    /\ UNCHANGED <<limit, backlog>>

\* There is room for r, which waits, unless it and others get a slot at once.
Admit(r) ==
    /\ place[r] = "outside"
    /\ Cardinality(Admitted) < limit + backlog
    /\ \E S \in SUBSET (At("waiting") \cup {r}) : Occupy(S, [place EXCEPT ![r] = "waiting"])

\* r gives its slot back and waiting requests may take it.
Release(r) ==
    /\ place[r] = "holding"
    /\ \E S \in SUBSET At("waiting") : Occupy(S, [place EXCEPT ![r] = "released"])

Reconfigure == limit' \in Limits /\ backlog' \in Backlogs /\ place' = place

Next ==
    \/ Reconfigure
    \/ \E r \in Requests : Refuse(r) \/ Admit(r) \/ Release(r)

Spec == Init /\ [][Next]_vars
=============================================================================
