----------------------------- MODULE WorkGraph -----------------------------
(***************************************************************************)
(* The governed work graph of one project: the plan a chairman records for *)
(* a task, the graph of work units (one per expert of the plan), the host  *)
(* workers that claim units, report on them and stop, and the fan-in that  *)
(* finalizes and completes the task.  A plan needs no graph: its experts   *)
(* may report without units, before a graph is recorded or for good.       *)
(*                                                                         *)
(* Source: orchestration.py (MCP calls), routing.py (SubagentStop hook of  *)
(* a worker), control_preflight.py (write restriction of a worker) and the *)
(* triggers of migrations 030, 033 and 036.  Every MCP call and every hook *)
(* is one database transaction and is one action here; what is             *)
(* asynchronous is the host: the PostToolUse hook that binds a worker to   *)
(* its unit runs in a transaction of its own, after the one that started   *)
(* the unit, and may come late, be refused or never run; so may the stop   *)
(* hook.  Routing and protected review are reduced to what the graph sees  *)
(* of them (RoutineTask, review).                                          *)
(***************************************************************************)
EXTENDS Integers, FiniteSets

CONSTANTS
    Task,               \* tasks of the project
    RoutineTask,        \* those whose latest route is routine (no review needed)
    Plan,               \* orchestration plans that may be recorded
    TaskOf,             \* the task a plan belongs to
    Unit,               \* the experts selected by the plans: each is a role of its
                        \* plan and, once a graph is recorded, that role's unit
    PlanOf,             \* the plan a unit belongs to
    Agent,              \* host workers; each claims one unit in its life
    Crit,               \* keys of acceptance criteria
    Path,               \* leaves of the project tree; a scope is a set of them
    Proposal,           \* graphs a chairman may submit, valid or not
    MaxParallelWorkers, \* _MAX_PARALLEL_WORKERS, 4 in the code
    None

\* The frozen contract of a unit.  det and jud are its deterministic and
\* judgmental acceptance criteria.
Contract == [deps : SUBSET Unit, verifies : SUBSET Unit, scope : SUBSET Path,
             det : SUBSET Crit, jud : SUBSET Crit]

ASSUME ConstantsAssumption ==
    /\ RoutineTask \subseteq Task
    /\ TaskOf \in [Plan -> Task]
    /\ PlanOf \in [Unit -> Plan]
    /\ IsFiniteSet(Unit)
    /\ MaxParallelWorkers \in Nat
    /\ None \notin Plan \cup Unit \cup Agent
    /\ \A g \in Proposal : g \in [DOMAIN g -> Contract]

UnitsOf(p) == {u \in Unit : PlanOf[u] = p}
Owner(u) == TaskOf[PlanOf[u]]

----------------------------------------------------------------------------
(* Validation of a submitted graph. *)

\* Mutant of Acyclic: only a unit that waits for itself is refused.
NoSelfDependency(g) == \A u \in DOMAIN g : u \notin g[u].deps

\* _assert_acyclic: no set of units in which each waits for another of the set.
Acyclic(g) ==
    \A S \in SUBSET DOMAIN g :
        S # {} => \E u \in S : g[u].deps \cap S = {}

ValidGraph(p, g) ==
    /\ DOMAIN g = UnitsOf(p)
    /\ \A u \in UnitsOf(p) :
        /\ g[u].deps \subseteq UnitsOf(p) \ {u}
        /\ g[u].verifies \subseteq g[u].deps
        /\ g[u].scope # {} => g[u].det \cup g[u].jud # {}
        /\ g[u].verifies # {} =>
            /\ g[u].scope = {} /\ g[u].det \cup g[u].jud = {}
            /\ \E target \in g[u].verifies : g[target].jud # {}
        /\ g[u].scope # {} /\ g[u].jud # {} =>
            \E v \in UnitsOf(p) : u \in g[v].verifies
    /\ Acyclic(g)

----------------------------------------------------------------------------
VARIABLES
    task,     \* tasks.status, reduced to open, completed, cancelled
    review,   \* protected validation of the task: open, pending or passed
    planned,  \* plans with an ORCHESTRATION_PLAN event
    advised,  \* experts with an ORCHESTRATION_EXPERT_REPORT that names no unit
    latest,   \* the plan of the newest such event of a task
    final,    \* the newest ORCHESTRATION_FINAL of a task; joined says that the
              \* reports it accepts are those of units
    contract, \* columns of orchestration_work_units frozen with the graph
    status, attempt, host,   \* the columns that change
    reported, \* report_key is set
    results,  \* criteria the unit's report marks passed, as <<unit, criterion>>
    runs,     \* worker_runs rows; (agent, expert) is the unique key, keyed says
              \* that work_unit_key is set
    phase, claim, called  \* the host's workers: what each is doing, the unit it
              \* claimed, and what the tail of its transcript shows of reports

taskVars == <<task, review, planned, advised, latest, final>>
unitVars == <<contract, status, attempt, host, reported, results>>
workerVars == <<phase, claim, called>>
vars == <<taskVars, unitVars, runs, workerVars>>

EmptyContract ==
    [deps |-> {}, verifies |-> {}, scope |-> {}, det |-> {}, jud |-> {}]

TypeOK ==
    /\ task \in [Task -> {"open", "completed", "cancelled"}]
    /\ review \in [Task -> {"open", "pending", "passed"}]
    /\ planned \in SUBSET Plan
    /\ advised \in SUBSET Unit
    /\ latest \in [Task -> Plan \cup {None}]
    /\ final \in [Task -> [plan : Plan \cup {None}, ready : BOOLEAN, joined : BOOLEAN]]
    /\ contract \in [Unit -> Contract]
    /\ status \in [Unit -> {"absent", "pending", "running", "passed", "failed"}]
    /\ attempt \in [Unit -> Nat]
    /\ host \in [Unit -> Agent \cup {None}]
    /\ reported \in [Unit -> BOOLEAN]
    /\ results \in [Unit -> SUBSET (Unit \X Crit)]
    /\ runs \in SUBSET [agent : Agent, unit : Unit, keyed : BOOLEAN, status : {"observed", "rejected"}]
    /\ phase \in [Agent -> {"idle", "claiming", "working", "stopped"}]
    /\ claim \in [Agent -> Unit \cup {None}]
    /\ called \in [Agent -> {"nothing", "unit", "role"}]

Init ==
    /\ task = [t \in Task |-> "open"]
    /\ review = [t \in Task |-> "open"]
    /\ planned = {}
    /\ advised = {}
    /\ latest = [t \in Task |-> None]
    /\ final = [t \in Task |-> [plan |-> None, ready |-> FALSE, joined |-> FALSE]]
    /\ contract = [u \in Unit |-> EmptyContract]
    /\ status = [u \in Unit |-> "absent"]
    /\ attempt = [u \in Unit |-> 0]
    /\ host = [u \in Unit |-> None]
    /\ reported = [u \in Unit |-> FALSE]
    /\ results = [u \in Unit |-> {}]
    /\ runs = {}
    /\ phase = [a \in Agent |-> "idle"]
    /\ claim = [a \in Agent |-> None]
    /\ called = [a \in Agent |-> "nothing"]

----------------------------------------------------------------------------
(* What the calls look up. *)

Running == {u \in Unit : status[u] = "running"}

\* _bound_task: the session is bound to the task and the task is unfinished.
TaskOpen(t) == task[t] = "open"

\* assert_governance_mutation_allowed: the triggers on material events and on
\* worker_runs refuse while a review is pending or has passed.
MaterialAllowed(t) == review[t] = "open"

\* A graph is recorded whole, so one row stands for all.
GraphRecorded(p) == \E u \in UnitsOf(p) : status[u] # "absent"

HostStopObserved(u) == \E r \in runs : r.agent = host[u] /\ r.unit = u /\ r.keyed

\* A failed unit that a worker claimed waits for that worker's stop.
AwaitsHostStop(u) == status[u] = "failed" /\ host[u] # None /\ ~HostStopObserved(u)

\* Mutant of DependenciesDone: a dependency only has to be over.
DependenciesOver(u) == \A d \in contract[u].deps : status[d] \in {"passed", "failed"}

DependenciesDone(u) == \A d \in contract[u].deps : status[d] = "passed"

\* Mutant of Startable: everything but a running unit starts.
NotRunning(u) == status[u] \notin {"absent", "running"}

Startable(u) == status[u] \in {"pending", "failed"}

\* What ready_work lists as ready.
Ready(u) == Startable(u) /\ ~AwaitsHostStop(u) /\ DependenciesDone(u)

\* Mutant of NothingRuns: a unit that has its report counts as over.
NothingUnreported(t) == \A u \in Running : Owner(u) = t => reported[u]

NothingRuns(t) == \A u \in Running : Owner(u) # t

\* Mutant of ScopeFree: scopes are compared within the task.
ScopeFreeInTask(u) ==
    \A r \in Running : Owner(r) = Owner(u) => contract[u].scope \cap contract[r].scope = {}

\* Scopes are sets of leaves, so _scopes_overlap is a common leaf.
ScopeFree(u) ==
    \A r \in Running : contract[u].scope \cap contract[r].scope = {}

\* The results a report on u must cover, each exactly once.
Expected(u) ==
    IF contract[u].verifies # {}
    THEN UNION {{v} \X contract[v].jud : v \in contract[u].verifies}
    ELSE {u} \X contract[u].det

\* Mutant of WorkAccepted: a report is enough.
Delivered(u) == reported[u]

\* The deterministic criteria of an implementation unit all passed; a
\* verifier is accepted whatever its verdict.
WorkAccepted(u) ==
    contract[u].verifies # {} \/ {u} \X contract[u].det \subseteq results[u]

\* _acceptance_summary raises nothing.
Verifiers(u) == {v \in UnitsOf(PlanOf[u]) : u \in contract[v].verifies}

\* Mutant of AcceptanceHolds: a passed verifier is enough, whatever it found.
VerifierPassed(p) ==
    \A u \in UnitsOf(p) : contract[u].verifies = {} =>
        /\ {u} \X contract[u].det \subseteq results[u]
        /\ contract[u].scope # {} /\ contract[u].jud # {} =>
            \E v \in Verifiers(u) : status[v] = "passed"

AcceptanceHolds(p) ==
    \A u \in UnitsOf(p) : contract[u].verifies = {} =>
        /\ {u} \X contract[u].det \subseteq results[u]
        /\ contract[u].scope # {} /\ contract[u].jud # {} =>
            LET passed == {v \in Verifiers(u) : status[v] = "passed"}
            IN  passed # {} /\ \A v \in passed : {u} \X contract[u].jud \subseteq results[v]

\* The units that name a worker as their host and are not passed.
ClaimedBy(a) == {u \in Unit : host[u] = a /\ status[u] \in {"running", "failed"}}

\* Mutant of MayWrite: a failed unit keeps its scope.
MayWriteFailed(a) ==
    IF ClaimedBy(a) = {} THEN Path ELSE UNION {contract[u].scope : u \in ClaimedBy(a)}

\* What the preflight lets a worker write: a failed unit denies every write,
\* and a worker that no unit names is not restricted at all.
MayWrite(a) ==
    IF ClaimedBy(a) = {} THEN Path
    ELSE UNION {contract[u].scope : u \in ClaimedBy(a) \cap Running}

----------------------------------------------------------------------------
(* Calls of the chairman. *)

RecordPlan(p) ==
    LET t == TaskOf[p] IN
    /\ TaskOpen(t) /\ MaterialAllowed(t)
    /\ p \notin planned
    /\ NothingRuns(t)
    /\ planned' = planned \cup {p}
    /\ latest' = [latest EXCEPT ![t] = p]
    /\ UNCHANGED <<task, review, advised, final, unitVars, runs, workerVars>>

\* Nothing is asked of reports, finals or reviews the plan already has.
RecordWorkGraph(p) ==
    /\ TaskOpen(TaskOf[p])
    /\ latest[TaskOf[p]] = p
    /\ ~GraphRecorded(p)
    /\ \E g \in Proposal :
        /\ ValidGraph(p, g)
        /\ contract' = [u \in Unit |-> IF u \in UnitsOf(p) THEN g[u] ELSE contract[u]]
    /\ status' = [u \in Unit |-> IF u \in UnitsOf(p) THEN "pending" ELSE status[u]]
    /\ UNCHANGED <<taskVars, attempt, host, reported, results, runs, workerVars>>

FailWorkUnit(u) ==
    /\ TaskOpen(Owner(u))
    /\ status[u] = "running"
    /\ status' = [status EXCEPT ![u] = "failed"]
    /\ UNCHANGED <<taskVars, contract, attempt, host, reported, results, runs, workerVars>>

\* record_expert_report for a plan without a graph, by whatever session: the
\* report names the role and no unit.
RecordAdvice(u) ==
    /\ TaskOpen(Owner(u)) /\ MaterialAllowed(Owner(u))
    /\ latest[Owner(u)] = PlanOf[u]
    /\ ~GraphRecorded(PlanOf[u])
    /\ advised' = advised \cup {u}
    /\ UNCHANGED <<task, review, planned, latest, final, unitVars, runs, workerVars>>

\* The accepted reports are one per role: those of the units when the plan has
\* a graph, and only then are the units and their acceptance looked at.
Finalize(p, ready) ==
    LET t == TaskOf[p] IN
    /\ TaskOpen(t) /\ MaterialAllowed(t)
    /\ latest[t] = p
    /\ UnitsOf(p) # {}
    /\ \/ /\ \A u \in UnitsOf(p) : status[u] = "passed"
          /\ AcceptanceHolds(p)
       \/ ~GraphRecorded(p) /\ UnitsOf(p) \subseteq advised
    /\ final' = [final EXCEPT ![t] = [plan |-> p, ready |-> ready, joined |-> GraphRecorded(p)]]
    /\ UNCHANGED <<task, review, planned, advised, latest, unitVars, runs, workerVars>>

----------------------------------------------------------------------------
(* Calls and hooks of a worker. *)

StartWorkUnit(a, u) ==
    /\ phase[a] = "idle"
    /\ TaskOpen(Owner(u))
    /\ Ready(u)
    /\ latest[Owner(u)] = PlanOf[u]
    /\ Cardinality(Running) < MaxParallelWorkers
    /\ ScopeFree(u)
    /\ status' = [status EXCEPT ![u] = "running"]
    /\ attempt' = [attempt EXCEPT ![u] = @ + 1]
    /\ host' = [host EXCEPT ![u] = None]
    /\ reported' = [reported EXCEPT ![u] = FALSE]
    /\ results' = [results EXCEPT ![u] = {}]
    /\ phase' = [phase EXCEPT ![a] = "claiming"]
    /\ claim' = [claim EXCEPT ![a] = u]
    /\ UNCHANGED called
    /\ UNCHANGED <<taskVars, contract, runs>>

\* The PostToolUse hook of the start call; it looks at the unit as it is now.
BindWorkUnitHost(a) ==
    LET u == claim[a] IN
    /\ phase[a] = "claiming"
    /\ status[u] = "running"
    /\ host[u] \in {None, a}
    /\ host' = [host EXCEPT ![u] = a]
    /\ phase' = [phase EXCEPT ![a] = "working"]
    /\ UNCHANGED <<taskVars, contract, status, attempt, reported, results, runs, claim, called>>

\* The hook was refused, timed out or did not run: the worker goes on unbound.
BindMissed(a) ==
    /\ phase[a] = "claiming"
    /\ phase' = [phase EXCEPT ![a] = "working"]
    /\ UNCHANGED <<taskVars, unitVars, runs, claim, called>>

\* The report closes the matching, running and unreported unit.
CanReport(u) ==
    /\ TaskOpen(Owner(u)) /\ MaterialAllowed(Owner(u))
    /\ latest[Owner(u)] = PlanOf[u]
    /\ status[u] = "running" /\ ~reported[u]

RecordExpertReport(a) ==
    LET u == claim[a] IN
    /\ phase[a] = "working"
    /\ CanReport(u)
    /\ \E passed \in SUBSET Expected(u) : results' = [results EXCEPT ![u] = passed]
    /\ reported' = [reported EXCEPT ![u] = TRUE]
    /\ called' = [called EXCEPT ![a] = "unit"]
    /\ UNCHANGED <<taskVars, contract, status, attempt, host, runs, phase, claim>>

\* A call that is refused, for its input or for the state of the unit, still
\* leaves its tool_use block in the transcript; it may name the unit or not.
ReportRefused(a) ==
    /\ phase[a] = "working"
    /\ \E names \in {"unit", "role"} : called' = [called EXCEPT ![a] = names]
    /\ UNCHANGED <<taskVars, unitVars, runs, phase, claim>>

\* The stop hook reads the last records of the transcript: as the worker goes
\* on, its report call leaves them or a record of another model enters them.
TailMoves(a) ==
    /\ phase[a] = "working"
    /\ called' = [called EXCEPT ![a] = "nothing"]
    /\ UNCHANGED <<taskVars, unitVars, runs, phase, claim>>

\* Mutant of WithRun: the verdict on the unit is stored as the run's status.
WithRunVerdict(a, u, keyed, outcome) ==
    runs \cup {[agent |-> a, unit |-> u, keyed |-> keyed,
                status |-> IF outcome = "observed" THEN "passed" ELSE "failed"]}

\* INSERT ... ON CONFLICT(agent_id,plan_key,role) DO NOTHING
WithRun(a, u, keyed, outcome) ==
    IF \E r \in runs : r.agent = a /\ r.unit = u THEN runs
    ELSE runs \cup {[agent |-> a, unit |-> u, keyed |-> keyed, status |-> outcome]}

\* Mutant of StopAccepted: the worker of a failed unit is refused.
StopAcceptedRunning(a) ==
    LET u == claim[a] IN
    /\ phase[a] = "working"
    /\ TaskOpen(Owner(u)) /\ MaterialAllowed(Owner(u))
    /\ status[u] = "running"
    /\ host[u] \in {None, a}

\* What both branches of the stop hook require of the claimed unit.
StopAccepted(a) ==
    LET u == claim[a] IN
    /\ phase[a] = "working"
    /\ TaskOpen(Owner(u)) /\ MaterialAllowed(Owner(u))
    /\ status[u] \in {"running", "failed"}
    /\ host[u] \in {None, a}

\* The last report call of the transcript names the unit.  Without a report
\* on the unit the hook raises, every time it is delivered.
StopObserved(a) ==
    LET u == claim[a] IN
    /\ StopAccepted(a)
    /\ called[a] = "unit" /\ reported[u]
    /\ runs' = WithRun(a, u, TRUE, "observed")
    /\ status' = [status EXCEPT ![u] =
                     IF @ = "running" /\ WorkAccepted(u) THEN "passed" ELSE "failed"]
    /\ host' = [host EXCEPT ![u] = a]
    /\ phase' = [phase EXCEPT ![a] = "stopped"]
    /\ called' = [called EXCEPT ![a] = "nothing"]
    /\ UNCHANGED <<taskVars, contract, attempt, reported, results, claim>>

\* No transcript, a wrong model in it, or no report call.
StopRejected(a) ==
    LET u == claim[a] IN
    /\ StopAccepted(a)
    /\ called[a] = "nothing"
    /\ runs' = WithRun(a, u, TRUE, "rejected")
    /\ status' = [status EXCEPT ![u] = "failed"]
    /\ host' = [host EXCEPT ![u] = a]
    /\ phase' = [phase EXCEPT ![a] = "stopped"]
    /\ called' = [called EXCEPT ![a] = "nothing"]
    /\ UNCHANGED <<taskVars, contract, attempt, reported, results, claim>>

\* The last report call names only the role: the run is recorded for the plan
\* and the unit is not looked at.
StopWithoutUnit(a) ==
    LET u == claim[a] IN
    /\ phase[a] = "working"
    /\ called[a] = "role"
    /\ TaskOpen(Owner(u)) /\ MaterialAllowed(Owner(u))
    /\ runs' = WithRun(a, u, FALSE, "observed")
    /\ phase' = [phase EXCEPT ![a] = "stopped"]
    /\ called' = [called EXCEPT ![a] = "nothing"]
    /\ UNCHANGED <<taskVars, unitVars, claim>>

\* A worker that claimed nothing stops with a report call that names a role of
\* a plan; whether the call was accepted is not looked at.
AdvisorStops(a, u) ==
    /\ phase[a] = "idle"
    /\ PlanOf[u] \in planned
    /\ TaskOpen(Owner(u)) /\ MaterialAllowed(Owner(u))
    /\ runs' = WithRun(a, u, FALSE, "observed")
    /\ phase' = [phase EXCEPT ![a] = "stopped"]
    /\ UNCHANGED <<taskVars, unitVars, claim, called>>

\* The worker ends and its stop hook is never delivered.
HostDies(a) ==
    /\ phase[a] \in {"claiming", "working"}
    /\ phase' = [phase EXCEPT ![a] = "stopped"]
    /\ called' = [called EXCEPT ![a] = "nothing"]
    /\ UNCHANGED <<taskVars, unitVars, runs, claim>>

----------------------------------------------------------------------------
(* Review and the end of a task. *)

\* validation_prepare: of the graph it only asks for a decision-ready final,
\* whatever plan that final belongs to.
PrepareReview(t) ==
    /\ TaskOpen(t) /\ review[t] # "passed"
    /\ final[t].ready
    /\ review' = [review EXCEPT ![t] = "pending"]
    /\ UNCHANGED <<task, planned, advised, latest, final, unitVars, runs, workerVars>>

ReviewPasses(t) ==
    /\ TaskOpen(t) /\ review[t] = "pending"
    /\ review' = [review EXCEPT ![t] = "passed"]
    /\ UNCHANGED <<task, planned, advised, latest, final, unitVars, runs, workerVars>>

\* The review fails or is abandoned, or a passed one is invalidated.
ReviewReopens(t) ==
    /\ TaskOpen(t) /\ review[t] # "open"
    /\ review' = [review EXCEPT ![t] = "open"]
    /\ UNCHANGED <<task, planned, advised, latest, final, unitVars, runs, workerVars>>

\* The completion triggers on tasks.status: no unit of the newest plan that has
\* not passed, and an observed run for each of its experts.
CompletionEvidence(t) ==
    /\ latest[t] # None
    /\ final[t].plan = latest[t] /\ final[t].ready
    /\ \A u \in UnitsOf(latest[t]) :
        /\ status[u] \in {"absent", "passed"}
        /\ \E r \in runs : r.unit = u /\ r.status = "observed"

CompleteTask(t) ==
    /\ TaskOpen(t)
    /\ review[t] = "passed" \/ t \in RoutineTask
    /\ CompletionEvidence(t)
    /\ task' = [task EXCEPT ![t] = "completed"]
    /\ UNCHANGED <<review, planned, advised, latest, final, unitVars, runs, workerVars>>

\* Running units are not looked at; a passed review has to be reopened first.
CancelTask(t) ==
    /\ TaskOpen(t) /\ review[t] # "passed"
    /\ task' = [task EXCEPT ![t] = "cancelled"]
    /\ review' = [review EXCEPT ![t] = "open"]
    /\ UNCHANGED <<planned, advised, latest, final, unitVars, runs, workerVars>>

StopHook(a) == StopObserved(a) \/ StopRejected(a) \/ StopWithoutUnit(a)

Worker(a) ==
    \/ \E u \in Unit : StartWorkUnit(a, u) \/ AdvisorStops(a, u)
    \/ BindWorkUnitHost(a) \/ BindMissed(a)
    \/ RecordExpertReport(a) \/ ReportRefused(a) \/ TailMoves(a)
    \/ StopHook(a) \/ HostDies(a)

Chairman ==
    \/ \E p \in Plan : RecordPlan(p) \/ RecordWorkGraph(p)
    \/ \E u \in Unit : FailWorkUnit(u) \/ RecordAdvice(u)
    \/ \E p \in Plan, ready \in BOOLEAN : Finalize(p, ready)
    \/ \E t \in Task : \/ PrepareReview(t) \/ ReviewPasses(t) \/ ReviewReopens(t)
                       \/ CompleteTask(t) \/ CancelTask(t)

Next == Chairman \/ \E a \in Agent : Worker(a)

Spec == Init /\ [][Next]_vars

\* The host delivers the hooks of a living worker: the bind hook of a start
\* call within its timeout, and the stop hook again whenever it was refused.
HookFairness ==
    \A a \in Agent : /\ WF_vars(BindWorkUnitHost(a) \/ BindMissed(a))
                     /\ SF_vars(StopHook(a))

FairSpec == Spec /\ HookFairness

----------------------------------------------------------------------------
(* Properties. *)

\* Fan-in: a unit that was ever started has only passed dependencies, and
\* keeps them through its own failures and retries and those of its siblings
\* (start_work_unit checks them only at the start).
DependenciesPassed ==
    \A u \in Unit : status[u] \in {"running", "failed", "passed"} =>
        \A d \in contract[u].deps : status[d] = "passed"

\* At most MaxParallelWorkers units run in the project, whatever task they
\* belong to, and no two of them may write the same part of the tree.
RunningUnitsAreApart ==
    /\ Cardinality(Running) <= MaxParallelWorkers
    /\ \A u, w \in Running : u # w => contract[u].scope \cap contract[w].scope = {}

\* Re-planning never strands work: a running unit belongs to the newest plan
\* of its task, and a completed task leaves no unit running (running units of
\* a cancelled task do stay, and keep their slot).
RunningUnitsAreCurrent ==
    \A u \in Running : /\ latest[Owner(u)] = PlanOf[u]
                       /\ task[Owner(u)] # "completed"

\* A passed unit has a report that satisfies its deterministic criteria and an
\* observed run on this unit of the worker it names as its host: neither a
\* rejected stop, nor a run for the role alone, nor an earlier attempt of another
\* worker stands in for it.
PassedIsEarned ==
    \A u \in Unit : status[u] = "passed" =>
        /\ reported[u]
        /\ contract[u].verifies = {} => \A c \in contract[u].det : <<u, c>> \in results[u]
        /\ [agent |-> host[u], unit |-> u, keyed |-> TRUE, status |-> "observed"] \in runs

\* The acceptance a final was computed over stays true after it: once finalize
\* has looked at the units of a plan, nothing that happens to them, to their
\* workers or to the plan's earlier reports undoes what it relied on.
FinalStands ==
    \A t \in Task : final[t].joined =>
        /\ \A u \in UnitsOf(final[t].plan) : status[u] = "passed"
        /\ AcceptanceHolds(final[t].plan)

\* A completed task has an observed run for every expert of its newest plan,
\* and a passed unit or, without a graph, a report of each.  When its final was
\* made over the graph its writers were verified by somebody else: every
\* judgmental criterion of a writing unit was marked passed by a passed verifier
\* that ran on another worker, after the unit it judges had passed.
CompletedIsVerified ==
    \A t \in Task : task[t] = "completed" =>
        LET p == latest[t] IN
        /\ \A u \in UnitsOf(p) :
            /\ \E r \in runs : r.unit = u /\ r.status = "observed"
            /\ IF GraphRecorded(p) THEN status[u] = "passed" ELSE u \in advised
        /\ final[t].joined =>
            \A u \in UnitsOf(p) : contract[u].scope # {} => \A c \in contract[u].jud :
                 \E v \in Verifiers(u) : /\ status[v] = "passed" /\ <<u, c>> \in results[v]
                                         /\ u \in contract[v].deps
                                         /\ host[v] # host[u]

\* What chairman.md says of the join barrier: a completed task with a graph went
\* through it, so its acceptance holds.  The code lets a final made before the
\* graph stand for it.
JoinBarrierHolds ==
    \A t \in Task : task[t] = "completed" /\ GraphRecorded(latest[t])
        => AcceptanceHolds(latest[t])

\* Two living workers bound to units never have a part of the tree in common,
\* also when one of them has been failed by the chairman and its scope was given
\* to somebody else while it is still at work.
BoundWritersAreApart ==
    \A a, b \in Agent :
        /\ a # b
        /\ phase[a] = "working" /\ ClaimedBy(a) # {}
        /\ phase[b] = "working" /\ ClaimedBy(b) # {}
        => MayWrite(a) \cap MayWrite(b) = {}

\* The graph cannot deadlock: in an open task whose newest plan has a graph
\* with work left, if nothing runs and no host stop is awaited, ready_work
\* offers a unit.
GraphNeverStalls ==
    \A t \in Task : \A p \in planned :
        /\ TaskOpen(t) /\ latest[t] = p
        /\ \E u \in UnitsOf(p) : status[u] # "passed"
        /\ \A u \in UnitsOf(p) : status[u] # "absent" /\ u \notin Running /\ ~AwaitsHostStop(u)
        => \E u \in UnitsOf(p) : Ready(u)

\* A passed unit is closed: no later call, late hook or retry changes its row.
PassedIsClosed ==
    [][\A u \in Unit : status[u] = "passed" =>
          /\ status'[u] = "passed" /\ attempt'[u] = attempt[u] /\ host'[u] = host[u]
          /\ reported'[u] = reported[u] /\ results'[u] = results[u] /\ contract'[u] = contract[u]]_vars

\* A failed unit is only retried when the worker bound to it is really over.
RetryAfterStop ==
    [][\A u \in Unit :
          status[u] = "failed" /\ host[u] # None /\ status'[u] = "running"
          => phase[host[u]] = "stopped"]_vars

\* While a review is pending or passed, nothing adds to what it judges: no new
\* plan, final or report, and no new worker evidence on any unit of the task.
ReviewedEvidenceIsFrozen ==
    [][\A t \in Task : review[t] # "open" /\ review'[t] # "open" =>
          /\ latest'[t] = latest[t] /\ final'[t] = final[t]
          /\ \A r \in runs' \ runs : Owner(r.unit) # t
          /\ \A u \in Unit : Owner(u) = t /\ u \in advised' => u \in advised
          /\ \A u \in Unit : Owner(u) = t /\ reported'[u] => reported[u]]_vars

\* The stop of a worker bound to u is due while its task is open and not under
\* review and its report call, if it made one, was accepted or named no unit.
StopIsDue(a, u) ==
    /\ host[u] = a /\ phase[a] = "working"
    /\ TaskOpen(Owner(u)) /\ MaterialAllowed(Owner(u))
    /\ called[a] = "unit" => reported[u]

\* A bound worker whose stop is due again and again is not refused for good:
\* neither the chairman failing its unit nor reviews that come and go keep its
\* stop from being taken.  (A worker whose call for its unit was refused is: see
\* the README.)
BoundWorkerStops ==
    \A a \in Agent : \A u \in Unit :
        []<>StopIsDue(a, u) => <>(phase[a] = "stopped")

----------------------------------------------------------------------------
(* The inductive invariant: the safety properties above and what they need.  *)

\* A worker that left the idle phase has a unit.
WorkersHaveUnits ==
    \A a \in Agent : phase[a] \in {"claiming", "working"} => claim[a] \in Unit

\* A worker has a row in worker_runs only once it is over, so a stop never
\* meets a row of its own and its outcome is the one stored.
RunsAreOver == \A r \in runs : phase[r.agent] = "stopped"

\* The host a unit names is a worker that claimed this unit.
HostsHaveClaims ==
    \A u \in Unit : host[u] # None => claim[host[u]] = u /\ phase[host[u]] # "idle"

\* The units of a plan are there all or none, under a graph that was validated.
GraphOf(p) == [u \in UnitsOf(p) |-> contract[u]]

GraphsAreValid ==
    \A p \in Plan : \A u \in UnitsOf(p) : status[u] # "absent" =>
        /\ \A w \in UnitsOf(p) : status[w] # "absent"
        /\ ValidGraph(p, GraphOf(p))

\* A final belongs to a plan and, unless it is over a graph, to its advice.
FinalsHaveReports ==
    \A t \in Task : final[t].plan # None =>
        /\ TaskOf[final[t].plan] = t
        /\ final[t].joined \/ UnitsOf(final[t].plan) \subseteq advised

\* Completion went through the final of the newest plan.
CompletedIsFinal ==
    \A t \in Task : task[t] = "completed" => latest[t] # None /\ CompletionEvidence(t)

\* What every reachable state satisfies: kept by each step from any state that
\* satisfies it.
InductiveInvariant ==
    /\ TypeOK /\ WorkersHaveUnits
    /\ DependenciesPassed /\ RunningUnitsAreApart /\ RunningUnitsAreCurrent
    /\ PassedIsEarned /\ FinalStands
    /\ RunsAreOver /\ HostsHaveClaims /\ GraphsAreValid
    /\ FinalsHaveReports /\ CompletedIsFinal

----------------------------------------------------------------------------
(* The graph as a scheduler of work. *)

Stage(u) ==
    CASE status[u] = "absent" -> "unplanned"
      [] status[u] \in {"pending", "failed"} -> "waiting"
      [] status[u] = "running" -> "inwork"
      [] status[u] = "passed" -> "done"

Sched == INSTANCE ScheduledWork WITH
    MaxInWork <- MaxParallelWorkers,
    stage <- [u \in Unit |-> Stage(u)],
    deps <- [u \in Unit |-> contract[u].deps],
    scope <- [u \in Unit |-> contract[u].scope]

\* Seen from outside, the graph only plans, begins, gives up and delivers: a
\* graph is planned whole, a unit begins over done dependencies and apart from
\* the others in work, and done units and recorded graphs never change again,
\* whatever the order in which calls, hooks and re-plans arrive.
IsScheduler == Sched!Spec
=============================================================================
