---------------------------- MODULE MCWorkGraph ----------------------------
(* Instances of WorkGraph for TLC. *)
EXTENDS WorkGraph, TLC

CONSTANTS t1, t2, p1, p2, p3, impl, verifier, other, apart, d1, j1, src, docs

Writer(ds, scope, jud) ==
    [EmptyContract EXCEPT !.deps = ds, !.scope = scope, !.det = {d1}, !.jud = jud]
Verifier(ds, targets) == [EmptyContract EXCEPT !.deps = ds, !.verifies = targets]

----------------------------------------------------------------------------
(* Two tasks of one project.  The first is planned as an implementer with   *)
(* its verifier, or as two independent writers, and re-planned as a single  *)
(* writer; the second has a writer of the same files.  Half of the graphs   *)
(* proposed for the first plan must be refused.                             *)
TasksOf == p1 :> t1 @@ p2 :> t1 @@ p3 :> t2
PlansOf == impl :> p1 @@ verifier :> p1 @@ other :> p2 @@ apart :> p3

Sound == impl :> Writer({}, {src}, {j1}) @@ verifier :> Verifier({impl}, {impl})
NoVerifier == impl :> Writer({}, {src}, {j1}) @@ verifier :> Writer({}, {docs}, {})
EarlyVerifier == impl :> Writer({}, {src}, {j1}) @@ verifier :> Verifier({}, {impl})
Cyclic == impl :> Writer({verifier}, {src}, {}) @@ verifier :> Writer({impl}, {docs}, {})
Independent == impl :> Writer({}, {src}, {}) @@ verifier :> Writer({}, {docs}, {})
Single == other :> Writer({}, {src}, {})
Apart == apart :> Writer({}, {src}, {})

Proposals == {Sound, NoVerifier, EarlyVerifier, Cyclic, Independent, Single, Apart}

Touched == {t \in Task : task[t] # "open" \/ latest[t] # None}

\* Bound: one task by itself; of a plan of two experts that reports without a
\* graph there is no re-plan, nothing is retried after such reports, and one
\* worker at most stops without a unit.
OneTask ==
    /\ Touched \subseteq {t1} /\ contract[verifier].scope = {}
    /\ impl \in advised \/ verifier \in advised => p2 \notin planned
    /\ advised # {} => \A u \in Unit : attempt[u] <= 1
    /\ Cardinality({r \in runs : ~r.keyed}) <= 1

\* Bound: two tasks with their graphs, without re-plans, refused calls, finals
\* and so reviews; the report call of a bound worker stays in its transcript,
\* and only one of the three writers is retried.
TwoTasks ==
    /\ p2 \notin planned /\ advised = {}
    /\ \A t \in Task : final[t].plan = None
    /\ status[verifier] # "absent" => contract[verifier].scope # {}
    /\ attempt[verifier] <= 1 /\ attempt[apart] <= 1
    /\ \A r \in runs : r.keyed
    /\ \A a \in Agent : phase[a] = "working" =>
        (called[a] = "unit" <=> reported[claim[a]] /\ host[claim[a]] \in {None, a})

MCNext == Next /\ (OneTask' \/ TwoTasks')

MCSpec == Init /\ [][MCNext]_vars

----------------------------------------------------------------------------
(* One task with one writer, for the temporal property, and one task with   *)
(* the implementer and the verifier, for the finding.                       *)
SmallTaskOf == p2 :> t1
SmallPlanOf == other :> p2
SmallProposal == {Single}

BarrierTaskOf == p1 :> t1
BarrierPlanOf == impl :> p1 @@ verifier :> p1
BarrierProposal == {Sound}

----------------------------------------------------------------------------
Symmetry == Permutations(Agent)
=============================================================================
