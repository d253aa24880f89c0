--------------------------- MODULE ScheduledWork ---------------------------
(***************************************************************************)
(* What the work graph promises, without its plans, workers, reports and   *)
(* reviews: units of work whose dependencies and scopes are fixed when     *)
(* they are planned; a unit is worked on only over done dependencies, apart *)
(* from the others in work, and once done it stays done.                   *)
(***************************************************************************)
EXTENDS Integers, FiniteSets

CONSTANTS Unit, Path, MaxInWork

VARIABLES stage, deps, scope

vars == <<stage, deps, scope>>

Init ==
    /\ stage = [u \in Unit |-> "unplanned"]
    /\ deps = [u \in Unit |-> {}]
    /\ scope = [u \in Unit |-> {}]

Unplanned == {u \in Unit : stage[u] = "unplanned"}
InWork == {u \in Unit : stage[u] = "inwork"}

\* Units are planned together; they depend on units of the same plan only.
PlanUnits(S) ==
    /\ S # {}
    /\ stage' = [u \in Unit |-> IF u \in S THEN "waiting" ELSE stage[u]]
    /\ deps' \in [Unit -> SUBSET Unit] /\ scope' \in [Unit -> SUBSET Path]
    /\ \A u \in S : deps'[u] \subseteq S \ {u}
    /\ \A u \in Unit \ S : deps'[u] = deps[u] /\ scope'[u] = scope[u]

Begin(u) ==
    /\ stage[u] = "waiting"
    /\ \A d \in deps[u] : stage[d] = "done"
    /\ Cardinality(InWork) < MaxInWork
    /\ \A w \in InWork : scope[u] \cap scope[w] = {}
    /\ stage' = [stage EXCEPT ![u] = "inwork"]
    /\ UNCHANGED <<deps, scope>>

GiveUp(u) ==
    /\ stage[u] = "inwork"
    /\ stage' = [stage EXCEPT ![u] = "waiting"]
    /\ UNCHANGED <<deps, scope>>

Deliver(u) ==
    /\ stage[u] = "inwork"
    /\ stage' = [stage EXCEPT ![u] = "done"]
    /\ UNCHANGED <<deps, scope>>

Next ==
    \/ \E S \in SUBSET Unplanned : PlanUnits(S)
    \/ \E u \in Unit : Begin(u) \/ GiveUp(u) \/ Deliver(u)

Spec == Init /\ [][Next]_vars
=============================================================================
