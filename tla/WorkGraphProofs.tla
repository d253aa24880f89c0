-------------------------- MODULE WorkGraphProofs --------------------------
(***************************************************************************)
(* Proofs, for every value of the constants, of the safety properties of   *)
(* WorkGraph.                                                              *)
(***************************************************************************)
EXTENDS WorkGraph, FiniteSetTheorems, TLAPS

----------------------------------------------------------------------------
(* Type correctness.  The types of what a worker is about to touch need the  *)
(* fact that a worker that left the idle phase has a unit.                   *)

Typed == TypeOK /\ WorkersHaveUnits

\* The stops that reach the row of the claimed unit.
UnitStop(a) == StopObserved(a) \/ StopRejected(a)

LEMMA InitTyped == Init => Typed
  BY ConstantsAssumption DEF Init, Typed, TypeOK, WorkersHaveUnits, Contract, EmptyContract

LEMMA GraphContract ==
  ASSUME NEW p \in Plan, NEW g \in Proposal, ValidGraph(p, g)
  PROVE  \A u \in UnitsOf(p) : g[u] \in Contract
  BY ConstantsAssumption DEF ValidGraph, UnitsOf

LEMMA ExpectedType ==
  ASSUME TypeOK, NEW u \in Unit
  PROVE  Expected(u) \subseteq Unit \X Crit
  BY DEF TypeOK, Expected, Contract

LEMMA WithRunType ==
  ASSUME TypeOK, NEW a \in Agent, NEW u \in Unit, NEW k \in BOOLEAN,
         NEW o \in {"observed", "rejected"}
  PROVE  WithRun(a, u, k, o)
           \in SUBSET [agent : Agent, unit : Unit, keyed : BOOLEAN, status : {"observed", "rejected"}]
  BY DEF TypeOK, WithRun

LEMMA StepTyped == Typed /\ [Next]_vars => Typed'
<1> SUFFICES ASSUME TypeOK, WorkersHaveUnits, [Next]_vars PROVE TypeOK' /\ WorkersHaveUnits'
  BY DEF Typed
<1>1. ASSUME NEW p \in Plan, RecordPlan(p) PROVE TypeOK' /\ WorkersHaveUnits'
  BY <1>1, ConstantsAssumption DEF RecordPlan, unitVars, workerVars, TypeOK, WorkersHaveUnits
<1>2. ASSUME NEW p \in Plan, RecordWorkGraph(p) PROVE TypeOK' /\ WorkersHaveUnits'
  <2>1. PICK g \in Proposal :
          /\ ValidGraph(p, g)
          /\ contract' = [u \in Unit |-> IF u \in UnitsOf(p) THEN g[u] ELSE contract[u]]
    BY <1>2 DEF RecordWorkGraph
  <2>2. contract' \in [Unit -> Contract]
    BY <2>1, GraphContract DEF TypeOK
  <2> QED
    BY <1>2, <2>2 DEF RecordWorkGraph, taskVars, workerVars, TypeOK, WorkersHaveUnits
<1>3. ASSUME NEW u \in Unit, FailWorkUnit(u) PROVE TypeOK' /\ WorkersHaveUnits'
  BY <1>3 DEF FailWorkUnit, taskVars, workerVars, TypeOK, WorkersHaveUnits
<1>4. ASSUME NEW p \in Plan, NEW ready \in BOOLEAN, Finalize(p, ready)
      PROVE  TypeOK' /\ WorkersHaveUnits'
  <2>1. TaskOf[p] \in Task
    BY ConstantsAssumption
  <2>2. final' \in [Task -> [plan : Plan \cup {None}, ready : BOOLEAN, joined : BOOLEAN]]
    BY <1>4, <2>1 DEF Finalize, GraphRecorded, TypeOK
  <2> QED
    BY <1>4, <2>2 DEF Finalize, unitVars, workerVars, TypeOK, WorkersHaveUnits
<1>5. ASSUME NEW t \in Task, PrepareReview(t) \/ ReviewPasses(t) \/ ReviewReopens(t)
      PROVE  TypeOK' /\ WorkersHaveUnits'
  <2>1. PICK r \in {"open", "pending", "passed"} : review' = [review EXCEPT ![t] = r]
    BY <1>5 DEF PrepareReview, ReviewPasses, ReviewReopens
  <2>2. review' \in [Task -> {"open", "pending", "passed"}]
    BY <2>1 DEF TypeOK
  <2>3. UNCHANGED <<task, planned, advised, latest, final, unitVars, runs, workerVars>>
    BY <1>5 DEF PrepareReview, ReviewPasses, ReviewReopens
  <2> QED
    BY <2>2, <2>3 DEF unitVars, workerVars, TypeOK, WorkersHaveUnits
<1>6. ASSUME NEW t \in Task, CompleteTask(t) \/ CancelTask(t) PROVE TypeOK' /\ WorkersHaveUnits'
  <2>1. /\ task' \in [Task -> {"open", "completed", "cancelled"}]
        /\ review' \in [Task -> {"open", "pending", "passed"}]
    BY <1>6 DEF CompleteTask, CancelTask, TypeOK
  <2>2. UNCHANGED <<planned, advised, latest, final, unitVars, runs, workerVars>>
    BY <1>6 DEF CompleteTask, CancelTask
  <2> QED
    BY <2>1, <2>2 DEF unitVars, workerVars, TypeOK, WorkersHaveUnits
<1>7. ASSUME NEW a \in Agent, NEW u \in Unit, StartWorkUnit(a, u)
      PROVE  TypeOK' /\ WorkersHaveUnits'
  BY <1>7 DEF StartWorkUnit, taskVars, TypeOK, WorkersHaveUnits
<1>8. ASSUME NEW a \in Agent, BindWorkUnitHost(a) \/ BindMissed(a) \/ HostDies(a)
      PROVE  TypeOK' /\ WorkersHaveUnits'
  <2>1. claim[a] \in Unit
    BY <1>8 DEF BindWorkUnitHost, BindMissed, HostDies, WorkersHaveUnits
  <2>2. /\ phase' \in [Agent -> {"idle", "claiming", "working", "stopped"}]
        /\ called' \in [Agent -> {"nothing", "unit", "role"}]
        /\ UNCHANGED claim
        /\ WorkersHaveUnits'
    BY <1>8, <2>1 DEF BindWorkUnitHost, BindMissed, HostDies, TypeOK, WorkersHaveUnits
  <2>3. /\ host' \in [Unit -> Agent \cup {None}]
        /\ UNCHANGED <<taskVars, contract, status, attempt, reported, results, runs>>
    BY <1>8, <2>1 DEF BindWorkUnitHost, BindMissed, HostDies, unitVars, TypeOK
  <2> QED
    BY <2>2, <2>3 DEF taskVars, TypeOK
<1>9. ASSUME NEW a \in Agent, RecordExpertReport(a) PROVE TypeOK' /\ WorkersHaveUnits'
  <2>1. claim[a] \in Unit
    BY <1>9 DEF RecordExpertReport, WorkersHaveUnits
  <2>2. PICK passed \in SUBSET Expected(claim[a]) : results' = [results EXCEPT ![claim[a]] = passed]
    BY <1>9 DEF RecordExpertReport
  <2>3. results' \in [Unit -> SUBSET (Unit \X Crit)]
    BY <2>1, <2>2, ExpectedType DEF TypeOK
  <2> QED
    BY <1>9, <2>1, <2>3 DEF RecordExpertReport, taskVars, TypeOK, WorkersHaveUnits
<1>10. ASSUME NEW a \in Agent, ReportRefused(a) \/ TailMoves(a) PROVE TypeOK' /\ WorkersHaveUnits'
  <2>1. called' \in [Agent -> {"nothing", "unit", "role"}]
    BY <1>10 DEF ReportRefused, TailMoves, TypeOK
  <2>2. UNCHANGED <<taskVars, unitVars, runs, phase, claim>>
    BY <1>10 DEF ReportRefused, TailMoves
  <2> QED
    BY <2>1, <2>2 DEF taskVars, unitVars, TypeOK, WorkersHaveUnits
<1>11. ASSUME NEW a \in Agent, UnitStop(a) PROVE TypeOK' /\ WorkersHaveUnits'
  <2>1. claim[a] \in Unit
    BY <1>11 DEF UnitStop, StopObserved, StopRejected, StopAccepted, WorkersHaveUnits
  <2>2. PICK s \in {"passed", "failed"}, o \in {"observed", "rejected"} :
          /\ status' = [status EXCEPT ![claim[a]] = s]
          /\ runs' = WithRun(a, claim[a], TRUE, o)
    BY <1>11 DEF UnitStop, StopObserved, StopRejected
  <2>3. /\ host' = [host EXCEPT ![claim[a]] = a]
        /\ phase' = [phase EXCEPT ![a] = "stopped"]
        /\ called' = [called EXCEPT ![a] = "nothing"]
        /\ UNCHANGED <<taskVars, contract, attempt, reported, results, claim>>
    BY <1>11 DEF UnitStop, StopObserved, StopRejected
  <2>4. runs' \in SUBSET [agent : Agent, unit : Unit, keyed : BOOLEAN, status : {"observed", "rejected"}]
    BY <2>1, <2>2, WithRunType
  <2>5. /\ status' \in [Unit -> {"absent", "pending", "running", "passed", "failed"}]
        /\ host' \in [Unit -> Agent \cup {None}]
        /\ phase' \in [Agent -> {"idle", "claiming", "working", "stopped"}]
        /\ called' \in [Agent -> {"nothing", "unit", "role"}]
    BY <2>1, <2>2, <2>3 DEF TypeOK
  <2>6. WorkersHaveUnits'
    BY <2>3 DEF WorkersHaveUnits, TypeOK
  <2> QED
    BY <2>3, <2>4, <2>5, <2>6 DEF taskVars, TypeOK
<1>12. ASSUME NEW a \in Agent, StopWithoutUnit(a) \/ \E u \in Unit : AdvisorStops(a, u)
       PROVE  TypeOK' /\ WorkersHaveUnits'
  <2>1. runs' \in SUBSET [agent : Agent, unit : Unit, keyed : BOOLEAN, status : {"observed", "rejected"}]
    BY <1>12, WithRunType DEF StopWithoutUnit, AdvisorStops, WorkersHaveUnits
  <2>2. /\ phase' \in [Agent -> {"idle", "claiming", "working", "stopped"}]
        /\ called' \in [Agent -> {"nothing", "unit", "role"}]
        /\ UNCHANGED claim
        /\ WorkersHaveUnits'
    BY <1>12 DEF StopWithoutUnit, AdvisorStops, TypeOK, WorkersHaveUnits
  <2>3. UNCHANGED <<taskVars, unitVars>>
    BY <1>12 DEF StopWithoutUnit, AdvisorStops
  <2> QED
    BY <2>1, <2>2, <2>3 DEF taskVars, unitVars, TypeOK
<1>13. ASSUME NEW u \in Unit, RecordAdvice(u) PROVE TypeOK' /\ WorkersHaveUnits'
  BY <1>13 DEF RecordAdvice, unitVars, workerVars, TypeOK, WorkersHaveUnits
<1>14. CASE UNCHANGED vars
  BY <1>14 DEF vars, taskVars, unitVars, workerVars, TypeOK, WorkersHaveUnits
<1> QED
  BY <1>1, <1>2, <1>3, <1>4, <1>5, <1>6, <1>7, <1>8, <1>9, <1>10, <1>11, <1>12,
     <1>13, <1>14
     DEF Next, Chairman, Worker, StopHook, UnitStop

\* Every reachable state is well typed: in particular the rows of worker_runs
\* only ever hold the statuses the table's CHECK constraint allows.
THEOREM TypeCorrect == Spec => []TypeOK
<1>1. Spec => []Typed
  BY InitTyped, StepTyped, PTL DEF Spec
<1> QED
  BY <1>1, PTL DEF Typed

----------------------------------------------------------------------------
(* Rows of orchestration_work_units.  Most steps leave them alone; the       *)
(* lemmas below go through the others once.                                  *)

LEMMA UnitSteps ==
  ASSUME [Next]_vars
  PROVE  \/ UNCHANGED unitVars
         \/ \E p \in Plan : RecordWorkGraph(p)
         \/ \E u \in Unit : FailWorkUnit(u)
         \/ \E a \in Agent, u \in Unit : StartWorkUnit(a, u)
         \/ \E a \in Agent : BindWorkUnitHost(a)
         \/ \E a \in Agent : RecordExpertReport(a)
         \/ \E a \in Agent : UnitStop(a)
  BY DEF Next, Chairman, Worker, vars, RecordPlan, Finalize, PrepareReview, ReviewPasses,
         ReviewReopens, CompleteTask, CancelTask, BindMissed, ReportRefused, HostDies,
         RecordAdvice, TailMoves, StopHook, UnitStop, StopWithoutUnit, AdvisorStops

\* The contract of a unit is frozen when its row appears, and rows stay.
LEMMA ContractStep ==
  ASSUME Typed, [Next]_vars, NEW u \in Unit, status[u] # "absent"
  PROVE  contract'[u] = contract[u] /\ status'[u] # "absent"
<1> USE DEF Typed, TypeOK, WorkersHaveUnits
<1>1. CASE UNCHANGED unitVars
  BY <1>1 DEF unitVars
<1>2. ASSUME NEW p \in Plan, RecordWorkGraph(p) PROVE contract'[u] = contract[u] /\ status'[u] # "absent"
  <2>1. u \notin UnitsOf(p)
    BY <1>2 DEF RecordWorkGraph, GraphRecorded
  <2>2. contract'[u] = contract[u] /\ status'[u] = status[u]
    BY <1>2, <2>1 DEF RecordWorkGraph
  <2> QED
    BY <2>2
<1>3. ASSUME NEW w \in Unit, FailWorkUnit(w) PROVE contract'[u] = contract[u] /\ status'[u] # "absent"
  BY <1>3 DEF FailWorkUnit
<1>4. ASSUME NEW a \in Agent, NEW w \in Unit, StartWorkUnit(a, w)
      PROVE  contract'[u] = contract[u] /\ status'[u] # "absent"
  BY <1>4 DEF StartWorkUnit
<1>5. ASSUME NEW a \in Agent, BindWorkUnitHost(a) PROVE contract'[u] = contract[u] /\ status'[u] # "absent"
  BY <1>5 DEF BindWorkUnitHost
<1>6. ASSUME NEW a \in Agent, RecordExpertReport(a) PROVE contract'[u] = contract[u] /\ status'[u] # "absent"
  BY <1>6 DEF RecordExpertReport
<1>7. ASSUME NEW a \in Agent, UnitStop(a) PROVE contract'[u] = contract[u] /\ status'[u] # "absent"
  BY <1>7 DEF UnitStop, StopObserved, StopRejected
<1> QED
  BY UnitSteps, <1>1, <1>2, <1>3, <1>4, <1>5, <1>6, <1>7

\* No step touches the row of a passed unit.
LEMMA PassedStep ==
  ASSUME Typed, [Next]_vars, NEW u \in Unit, status[u] = "passed"
  PROVE  /\ status'[u] = "passed" /\ attempt'[u] = attempt[u] /\ host'[u] = host[u]
         /\ reported'[u] = reported[u] /\ results'[u] = results[u] /\ contract'[u] = contract[u]
<1> DEFINE Same == /\ status'[u] = "passed" /\ attempt'[u] = attempt[u] /\ host'[u] = host[u]
                   /\ reported'[u] = reported[u] /\ results'[u] = results[u]
                   /\ contract'[u] = contract[u]
<1> USE DEF Typed, TypeOK, WorkersHaveUnits
<1>1. CASE UNCHANGED unitVars
  BY <1>1 DEF unitVars
<1>2. ASSUME NEW p \in Plan, RecordWorkGraph(p) PROVE Same
  <2>1. u \notin UnitsOf(p)
    BY <1>2 DEF RecordWorkGraph, GraphRecorded
  <2>2. contract'[u] = contract[u] /\ status'[u] = status[u]
    BY <1>2, <2>1 DEF RecordWorkGraph
  <2> QED
    BY <1>2, <2>2 DEF RecordWorkGraph
<1>3. ASSUME NEW w \in Unit, FailWorkUnit(w) PROVE Same
  BY <1>3 DEF FailWorkUnit
<1>4. ASSUME NEW a \in Agent, NEW w \in Unit, StartWorkUnit(a, w) PROVE Same
  <2>1. u # w
    BY <1>4 DEF StartWorkUnit, Ready, Startable
  <2> QED
    BY <1>4, <2>1 DEF StartWorkUnit
<1>5. ASSUME NEW a \in Agent, BindWorkUnitHost(a) PROVE Same
  BY <1>5 DEF BindWorkUnitHost
<1>6. ASSUME NEW a \in Agent, RecordExpertReport(a) PROVE Same
  <2>1. u # claim[a]
    BY <1>6 DEF RecordExpertReport, CanReport
  <2> QED
    BY <1>6, <2>1 DEF RecordExpertReport
<1>7. ASSUME NEW a \in Agent, UnitStop(a) PROVE Same
  <2>1. u # claim[a]
    BY <1>7 DEF UnitStop, StopObserved, StopRejected, StopAccepted
  <2> QED
    BY <1>7, <2>1 DEF UnitStop, StopObserved, StopRejected
<1> QED
  BY UnitSteps, <1>1, <1>2, <1>3, <1>4, <1>5, <1>6, <1>7

\* A unit leaves pending only when it is ready, to run, and its contract is
\* already there.
LEMMA FirstStart ==
  ASSUME Typed, [Next]_vars, NEW u \in Unit,
         status[u] \in {"absent", "pending"}, status'[u] \in {"running", "failed", "passed"}
  PROVE  /\ status[u] = "pending" /\ contract'[u] = contract[u] /\ DependenciesDone(u)
         /\ latest[Owner(u)] = PlanOf[u] /\ TaskOpen(Owner(u))
<1> DEFINE Started == /\ status[u] = "pending" /\ contract'[u] = contract[u] /\ DependenciesDone(u)
                      /\ latest[Owner(u)] = PlanOf[u] /\ TaskOpen(Owner(u))
<1> USE DEF Typed, TypeOK, WorkersHaveUnits
<1>1. CASE UNCHANGED unitVars
  BY <1>1 DEF unitVars
<1>2. ASSUME NEW p \in Plan, RecordWorkGraph(p) PROVE Started
  BY <1>2 DEF RecordWorkGraph
<1>3. ASSUME NEW w \in Unit, FailWorkUnit(w) PROVE Started
  BY <1>3 DEF FailWorkUnit
<1>4. ASSUME NEW a \in Agent, NEW w \in Unit, StartWorkUnit(a, w) PROVE Started
  <2>1. u = w
    BY <1>4 DEF StartWorkUnit
  <2> QED
    BY <1>4, <2>1 DEF StartWorkUnit, Ready, Startable
<1>5. ASSUME NEW a \in Agent, BindWorkUnitHost(a) PROVE Started
  BY <1>5 DEF BindWorkUnitHost
<1>6. ASSUME NEW a \in Agent, RecordExpertReport(a) PROVE Started
  BY <1>6 DEF RecordExpertReport
<1>7. ASSUME NEW a \in Agent, UnitStop(a) PROVE Started
  BY <1>7 DEF UnitStop, StopObserved, StopRejected, StopAccepted
<1> QED
  BY UnitSteps, <1>1, <1>2, <1>3, <1>4, <1>5, <1>6, <1>7

\* A passed unit is closed: no later call, late hook or retry changes its row.
THEOREM PassedUnitsStayClosed == Spec => PassedIsClosed
<1> DEFINE Closed ==
      \A u \in Unit : status[u] = "passed" =>
        /\ status'[u] = "passed" /\ attempt'[u] = attempt[u] /\ host'[u] = host[u]
        /\ reported'[u] = reported[u] /\ results'[u] = results[u] /\ contract'[u] = contract[u]
<1>1. Spec => []Typed
  BY InitTyped, StepTyped, PTL DEF Spec
<1>2. ASSUME Typed, [Next]_vars PROVE [Closed]_vars
  BY <1>2, PassedStep
<1> QED
  BY <1>1, <1>2, PTL DEF Spec, PassedIsClosed

----------------------------------------------------------------------------
(* Preservation of each part of the inductive invariant.                     *)

LEMMA DependenciesStep ==
  ASSUME Typed, [Next]_vars, DependenciesPassed
  PROVE  DependenciesPassed'
<1> SUFFICES ASSUME NEW u \in Unit, status'[u] \in {"running", "failed", "passed"},
                    NEW d \in contract'[u].deps
             PROVE  status'[d] = "passed"
  BY DEF DependenciesPassed
<1>1. status[u] \in {"absent", "pending", "running", "failed", "passed"}
  BY DEF Typed, TypeOK
<1>2. contract'[u] = contract[u] /\ \A x \in contract[u].deps : status[x] = "passed"
  <2>1. CASE status[u] \in {"absent", "pending"}
    BY <2>1, FirstStart DEF DependenciesDone
  <2>2. CASE status[u] \in {"running", "failed", "passed"}
    BY <2>2, ContractStep DEF DependenciesPassed
  <2> QED
    BY <1>1, <2>1, <2>2
<1>3. d \in Unit /\ status[d] = "passed"
  BY <1>2 DEF Typed, TypeOK, Contract
<1> QED
  BY <1>3, PassedStep

LEMMA RunningApartStep ==
  ASSUME Typed, [Next]_vars, RunningUnitsAreApart
  PROVE  RunningUnitsAreApart'
<1> DEFINE Apart(x, y) == contract[x].scope \cap contract[y].scope = {}
<1>1. \A x \in Running : contract'[x] = contract[x]
  BY ContractStep DEF Running
<1>2. IsFiniteSet(Running) /\ Cardinality(Running) \in Nat
  BY ConstantsAssumption, FS_Subset, FS_CardinalityType DEF Running
<1>3. CASE Running' \subseteq Running
  <2>1. Cardinality(Running') <= Cardinality(Running) /\ Cardinality(Running') \in Nat
    BY <1>2, <1>3, FS_Subset, FS_CardinalityType
  <2>2. Cardinality(Running') <= MaxParallelWorkers
    BY <1>2, <2>1, ConstantsAssumption DEF RunningUnitsAreApart
  <2>3. \A x, y \in Running' : x # y => contract'[x].scope \cap contract'[y].scope = {}
    BY <1>1, <1>3 DEF RunningUnitsAreApart
  <2> QED
    BY <2>2, <2>3 DEF RunningUnitsAreApart
<1>4. ASSUME NEW a \in Agent, NEW u \in Unit, StartWorkUnit(a, u) PROVE RunningUnitsAreApart'
  <2>1. Running' = Running \cup {u} /\ contract' = contract
    BY <1>4 DEF StartWorkUnit, Running, Typed, TypeOK
  <2>2. u \notin Running
    BY <1>4 DEF StartWorkUnit, Ready, Startable, Running
  <2>3. Cardinality(Running') = Cardinality(Running) + 1
    BY <1>2, <2>1, <2>2, FS_AddElement
  <2>4. Cardinality(Running') <= MaxParallelWorkers
    BY <1>2, <1>4, <2>3, ConstantsAssumption DEF StartWorkUnit
  <2>5. \A r \in Running : contract[u].scope \cap contract[r].scope = {}
    BY <1>4 DEF StartWorkUnit, ScopeFree
  <2>6. \A x, y \in Running' : x # y => contract'[x].scope \cap contract'[y].scope = {}
    BY <2>1, <2>5 DEF RunningUnitsAreApart
  <2> QED
    BY <2>4, <2>6 DEF RunningUnitsAreApart
<1>5. ASSUME ~ \E a \in Agent, u \in Unit : StartWorkUnit(a, u) PROVE Running' \subseteq Running
  <2> USE DEF Running, Typed, TypeOK
  <2>1. CASE UNCHANGED unitVars
    BY <2>1 DEF unitVars
  <2>2. ASSUME NEW p \in Plan, RecordWorkGraph(p) PROVE Running' \subseteq Running
    BY <2>2 DEF RecordWorkGraph
  <2>3. ASSUME NEW w \in Unit, FailWorkUnit(w) PROVE Running' \subseteq Running
    BY <2>3 DEF FailWorkUnit
  <2>4. ASSUME NEW a \in Agent, BindWorkUnitHost(a) \/ RecordExpertReport(a) \/ UnitStop(a)
        PROVE  Running' \subseteq Running
    BY <2>4 DEF BindWorkUnitHost, RecordExpertReport, UnitStop, StopObserved, StopRejected
  <2> QED
    BY UnitSteps, <1>5, <2>1, <2>2, <2>3, <2>4
<1> QED
  BY <1>3, <1>4, <1>5

\* How a step can make a unit run, or move the things a running unit relies on.
LEMMA RunningCurrentStep ==
  ASSUME Typed, [Next]_vars, RunningUnitsAreCurrent
  PROVE  RunningUnitsAreCurrent'
<1> SUFFICES ASSUME NEW u \in Unit, status'[u] = "running"
             PROVE  latest'[Owner(u)] = PlanOf[u] /\ task'[Owner(u)] # "completed"
  BY DEF RunningUnitsAreCurrent, Running
<1> USE ConstantsAssumption DEF Typed, TypeOK
<1>0. Owner(u) \in Task
  BY DEF Owner
<1>1. ASSUME NEW p \in Plan, RecordPlan(p)
      PROVE  latest'[Owner(u)] = PlanOf[u] /\ task'[Owner(u)] # "completed"
  <2>1. u \in Running /\ TaskOf[p] # Owner(u)
    BY <1>1 DEF RecordPlan, NothingRuns, Running, unitVars
  <2> QED
    BY <1>0, <1>1, <2>1 DEF RecordPlan, RunningUnitsAreCurrent
<1>2. ASSUME NEW t \in Task, CompleteTask(t)
      PROVE  latest'[Owner(u)] = PlanOf[u] /\ task'[Owner(u)] # "completed"
  <2>1. u \in Running /\ latest' = latest
    BY <1>2 DEF CompleteTask, Running, unitVars
  <2>2. ASSUME Owner(u) = t PROVE FALSE
    <3>1. u \in UnitsOf(latest[t]) /\ status[u] = "running"
      BY <2>1, <2>2 DEF RunningUnitsAreCurrent, Running, UnitsOf
    <3>2. status[u] \in {"absent", "passed"}
      BY <1>2, <3>1 DEF CompleteTask, CompletionEvidence
    <3> QED
      BY <3>1, <3>2
  <2> QED
    BY <1>0, <1>2, <2>1, <2>2 DEF CompleteTask, RunningUnitsAreCurrent
<1>3. ASSUME NEW t \in Task, CancelTask(t)
      PROVE  latest'[Owner(u)] = PlanOf[u] /\ task'[Owner(u)] # "completed"
  BY <1>0, <1>3 DEF CancelTask, RunningUnitsAreCurrent, Running, unitVars
<1>4. ASSUME NEW a \in Agent, NEW w \in Unit, StartWorkUnit(a, w)
      PROVE  latest'[Owner(u)] = PlanOf[u] /\ task'[Owner(u)] # "completed"
  <2>1. u = w \/ u \in Running
    BY <1>4 DEF StartWorkUnit, Running
  <2>2. latest' = latest /\ task' = task
    BY <1>4 DEF StartWorkUnit, taskVars
  <2> QED
    BY <1>4, <2>1, <2>2 DEF StartWorkUnit, TaskOpen, RunningUnitsAreCurrent
<1>5. CASE u \in Running /\ latest' = latest /\ task' = task
  BY <1>5 DEF RunningUnitsAreCurrent
<1>6. ASSUME NEW a \in Agent,
             BindWorkUnitHost(a) \/ RecordExpertReport(a) \/ UnitStop(a)
      PROVE  u \in Running /\ latest' = latest /\ task' = task
  <2>1. u \in Running
    BY <1>6 DEF BindWorkUnitHost, RecordExpertReport, UnitStop, StopObserved, StopRejected, Running
  <2> QED
    BY <1>6, <2>1 DEF BindWorkUnitHost, RecordExpertReport, UnitStop, StopObserved, StopRejected, taskVars
<1>7. ASSUME NEW p \in Plan, RecordWorkGraph(p) PROVE u \in Running /\ latest' = latest /\ task' = task
  BY <1>7 DEF RecordWorkGraph, Running, taskVars
<1>8. ASSUME NEW w \in Unit, FailWorkUnit(w) PROVE u \in Running /\ latest' = latest /\ task' = task
  BY <1>8 DEF FailWorkUnit, Running, taskVars
<1>9. ASSUME NEW p \in Plan, NEW ready \in BOOLEAN, Finalize(p, ready)
      PROVE  u \in Running /\ latest' = latest /\ task' = task
  BY <1>9 DEF Finalize, Running, unitVars
<1>10. ASSUME NEW t \in Task, PrepareReview(t) \/ ReviewPasses(t) \/ ReviewReopens(t)
       PROVE  u \in Running /\ latest' = latest /\ task' = task
  BY <1>10 DEF PrepareReview, ReviewPasses, ReviewReopens, Running, unitVars
<1>11. ASSUME NEW a \in Agent, NEW w \in Unit,
              \/ BindMissed(a) \/ ReportRefused(a) \/ TailMoves(a) \/ HostDies(a)
              \/ StopWithoutUnit(a) \/ AdvisorStops(a, w)
       PROVE  u \in Running /\ latest' = latest /\ task' = task
  BY <1>11 DEF BindMissed, ReportRefused, TailMoves, HostDies, StopWithoutUnit, AdvisorStops,
     Running, unitVars, taskVars
<1>12. ASSUME NEW w \in Unit, RecordAdvice(w) PROVE u \in Running /\ latest' = latest /\ task' = task
  BY <1>12 DEF RecordAdvice, Running, unitVars
<1>13. CASE UNCHANGED vars
  BY <1>5, <1>13 DEF vars, taskVars, unitVars, Running
<1> QED
  BY <1>1, <1>2, <1>3, <1>4, <1>5, <1>6, <1>7, <1>8, <1>9, <1>10, <1>11, <1>12, <1>13
     DEF Next, Chairman, Worker, StopHook, UnitStop

LEMMA RunsOverStep ==
  ASSUME Typed, [Next]_vars, RunsAreOver
  PROVE  RunsAreOver'
<1> USE DEF Typed, TypeOK, RunsAreOver
<1>1. \A b \in Agent : phase[b] = "stopped" => phase'[b] = "stopped"
  <2>1. CASE Chairman \/ UNCHANGED vars
    BY <2>1 DEF Chairman, vars, workerVars, RecordPlan, RecordWorkGraph, FailWorkUnit,
       RecordAdvice, Finalize, PrepareReview, ReviewPasses, ReviewReopens, CompleteTask, CancelTask
  <2>2. ASSUME NEW a \in Agent, NEW u \in Unit, StartWorkUnit(a, u)
        PROVE  \A b \in Agent : phase[b] = "stopped" => phase'[b] = "stopped"
    BY <2>2 DEF StartWorkUnit
  <2>3. ASSUME NEW a \in Agent, BindWorkUnitHost(a) \/ BindMissed(a)
        PROVE  \A b \in Agent : phase[b] = "stopped" => phase'[b] = "stopped"
    BY <2>3 DEF BindWorkUnitHost, BindMissed
  <2>4. ASSUME NEW a \in Agent, RecordExpertReport(a) \/ ReportRefused(a) \/ TailMoves(a)
        PROVE  \A b \in Agent : phase[b] = "stopped" => phase'[b] = "stopped"
    BY <2>4 DEF RecordExpertReport, ReportRefused, TailMoves
  <2>5. ASSUME NEW a \in Agent, StopHook(a) \/ HostDies(a) \/ \E u \in Unit : AdvisorStops(a, u)
        PROVE  \A b \in Agent : phase[b] = "stopped" => phase'[b] = "stopped"
    <3>1. phase' = [phase EXCEPT ![a] = "stopped"]
      BY <2>5 DEF StopHook, StopObserved, StopRejected, StopWithoutUnit, AdvisorStops, HostDies
    <3> QED
      BY <3>1
  <2> QED
    BY <2>1, <2>2, <2>3, <2>4, <2>5 DEF Next, Worker
<1>2. ASSUME NEW a \in Agent, StopHook(a) \/ \E u \in Unit : AdvisorStops(a, u)
      PROVE  RunsAreOver'
  <2>1. phase' = [phase EXCEPT ![a] = "stopped"]
    BY <1>2 DEF StopHook, StopObserved, StopRejected, StopWithoutUnit, AdvisorStops
  <2>2. \A r \in runs' : r \in runs \/ r.agent = a
    BY <1>2 DEF StopHook, StopObserved, StopRejected, StopWithoutUnit, AdvisorStops, WithRun
  <2> QED
    BY <1>1, <2>1, <2>2
<1>3. ASSUME ~ \E a \in Agent : StopHook(a) \/ \E u \in Unit : AdvisorStops(a, u)
      PROVE  runs' = runs
  BY <1>3 DEF Next, Chairman, Worker, vars, RecordPlan, RecordWorkGraph, FailWorkUnit,
         RecordAdvice, Finalize, PrepareReview, ReviewPasses, ReviewReopens, CompleteTask, CancelTask,
         StartWorkUnit, BindWorkUnitHost, BindMissed, RecordExpertReport, ReportRefused, TailMoves, HostDies
<1> QED
  BY <1>1, <1>2, <1>3

LEMMA HostsStep ==
  ASSUME Typed, [Next]_vars, HostsHaveClaims
  PROVE  HostsHaveClaims'
<1> SUFFICES ASSUME NEW u \in Unit, host'[u] # None
             PROVE  claim'[host'[u]] = u /\ phase'[host'[u]] # "idle"
  BY DEF HostsHaveClaims
<1> USE DEF Typed, TypeOK, WorkersHaveUnits, HostsHaveClaims
<1>1. ASSUME NEW a \in Agent, NEW w \in Unit, StartWorkUnit(a, w)
      PROVE  claim'[host'[u]] = u /\ phase'[host'[u]] # "idle"
  <2>1. u # w /\ host'[u] = host[u] /\ host[u] # None
    BY <1>1 DEF StartWorkUnit
  <2>2. host[u] \in Agent /\ host[u] # a
    BY <1>1, <2>1 DEF StartWorkUnit
  <2> QED
    BY <1>1, <2>1, <2>2 DEF StartWorkUnit
<1>2. ASSUME NEW a \in Agent, BindWorkUnitHost(a) \/ UnitStop(a)
      PROVE  claim'[host'[u]] = u /\ phase'[host'[u]] # "idle"
  <2>0. PICK s \in {"working", "stopped"} : phase' = [phase EXCEPT ![a] = s]
    BY <1>2 DEF BindWorkUnitHost, UnitStop, StopObserved, StopRejected
  <2>1. claim[a] \in Unit /\ claim' = claim /\ host' = [host EXCEPT ![claim[a]] = a]
    BY <1>2 DEF BindWorkUnitHost, UnitStop, StopObserved, StopRejected, StopAccepted
  <2>2. \A b \in Agent : phase[b] # "idle" => phase'[b] # "idle"
    BY <2>0
  <2>3. phase'[a] # "idle"
    BY <2>0
  <2>4. CASE u = claim[a]
    BY <2>1, <2>3, <2>4
  <2>5. CASE u # claim[a]
    BY <2>1, <2>2, <2>5
  <2> QED
    BY <2>4, <2>5
<1>3. CASE /\ host' = host /\ claim' = claim
           /\ \A b \in Agent : phase[b] # "idle" => phase'[b] # "idle"
  BY <1>3
<1>4. ASSUME NEW a \in Agent, NEW w \in Unit,
             \/ BindMissed(a) \/ RecordExpertReport(a) \/ ReportRefused(a) \/ TailMoves(a)
             \/ HostDies(a) \/ StopWithoutUnit(a) \/ AdvisorStops(a, w)
      PROVE  /\ host' = host /\ claim' = claim
             /\ \A b \in Agent : phase[b] # "idle" => phase'[b] # "idle"
  BY <1>4 DEF BindMissed, RecordExpertReport, ReportRefused, TailMoves, HostDies, StopWithoutUnit,
     AdvisorStops, unitVars
<1>5. CASE Chairman \/ UNCHANGED vars
  BY <1>3, <1>5 DEF Chairman, vars, unitVars, workerVars, RecordPlan, RecordWorkGraph, FailWorkUnit,
     RecordAdvice, Finalize, PrepareReview, ReviewPasses, ReviewReopens, CompleteTask, CancelTask
<1> QED
  BY <1>1, <1>2, <1>3, <1>4, <1>5 DEF Next, Worker, StopHook, UnitStop

\* Only the stop of a worker whose report is accepted makes a unit pass.
LEMMA PassStep ==
  ASSUME Typed, [Next]_vars, NEW u \in Unit, status[u] # "passed", status'[u] = "passed"
  PROVE  /\ contract'[u] = contract[u] /\ results'[u] = results[u]
         /\ reported'[u] /\ WorkAccepted(u)
         /\ \E a \in Agent : /\ phase[a] = "working" /\ host'[u] = a
                             /\ runs' = WithRun(a, u, TRUE, "observed")
<1> DEFINE Earned == /\ contract'[u] = contract[u] /\ results'[u] = results[u]
                     /\ reported'[u] /\ WorkAccepted(u)
                     /\ \E a \in Agent : /\ phase[a] = "working" /\ host'[u] = a
                                         /\ runs' = WithRun(a, u, TRUE, "observed")
<1> USE DEF Typed, TypeOK, WorkersHaveUnits
<1>1. ASSUME NEW a \in Agent, StopObserved(a) PROVE Earned
  <2>1. u = claim[a]
    BY <1>1 DEF StopObserved
  <2>2. phase[a] = "working" /\ host'[u] = a /\ runs' = WithRun(a, u, TRUE, "observed")
    BY <1>1, <2>1 DEF StopObserved, StopAccepted
  <2>3. WorkAccepted(u)
    BY <1>1, <2>1 DEF StopObserved
  <2> QED
    BY <1>1, <2>1, <2>2, <2>3 DEF StopObserved
<1>2. ASSUME NEW a \in Agent, StopRejected(a) PROVE FALSE
  BY <1>2 DEF StopRejected
<1>3. ASSUME NEW a \in Agent, BindWorkUnitHost(a) \/ RecordExpertReport(a) PROVE FALSE
  BY <1>3 DEF BindWorkUnitHost, RecordExpertReport
<1>4. ASSUME NEW a \in Agent, NEW w \in Unit, StartWorkUnit(a, w) PROVE FALSE
  BY <1>4 DEF StartWorkUnit
<1>5. ASSUME NEW w \in Unit, FailWorkUnit(w) PROVE FALSE
  BY <1>5 DEF FailWorkUnit
<1>6. ASSUME NEW p \in Plan, RecordWorkGraph(p) PROVE FALSE
  BY <1>6 DEF RecordWorkGraph
<1>7. CASE UNCHANGED unitVars
  BY <1>7 DEF unitVars
<1> QED
  BY UnitSteps, <1>1, <1>2, <1>3, <1>4, <1>5, <1>6, <1>7 DEF UnitStop

LEMMA EarnedStep ==
  ASSUME Typed, [Next]_vars, RunsAreOver, PassedIsEarned
  PROVE  PassedIsEarned'
<1> SUFFICES ASSUME NEW u \in Unit, status'[u] = "passed"
             PROVE  /\ reported'[u]
                    /\ contract'[u].verifies = {} =>
                         \A c \in contract'[u].det : <<u, c>> \in results'[u]
                    /\ [agent |-> host'[u], unit |-> u, keyed |-> TRUE, status |-> "observed"] \in runs'
  BY DEF PassedIsEarned
<1>1. CASE status[u] = "passed"
  <2>1. runs \subseteq runs'
    BY DEF Next, Chairman, Worker, vars, RecordPlan, RecordWorkGraph, FailWorkUnit,
         RecordAdvice, Finalize, PrepareReview, ReviewPasses, ReviewReopens, CompleteTask, CancelTask,
         StartWorkUnit, BindWorkUnitHost, BindMissed, RecordExpertReport, ReportRefused, HostDies,
         TailMoves,
         StopHook, StopObserved, StopRejected, StopWithoutUnit, AdvisorStops, WithRun
  <2> QED
    BY <1>1, <2>1, PassedStep DEF PassedIsEarned
<1>2. CASE status[u] # "passed"
  <2>1. PICK a \in Agent : /\ phase[a] = "working" /\ host'[u] = a
                           /\ runs' = WithRun(a, u, TRUE, "observed")
    BY <1>2, PassStep
  <2>2. runs' = runs \cup {[agent |-> a, unit |-> u, keyed |-> TRUE, status |-> "observed"]}
    BY <2>1 DEF WithRun, RunsAreOver
  <2>3. contract[u].verifies = {} => \A c \in contract[u].det : <<u, c>> \in results[u]
    BY <1>2, PassStep DEF WorkAccepted
  <2> QED
    BY <1>2, <2>1, <2>2, <2>3, PassStep
<1> QED
  BY <1>1, <1>2

\* The acceptance of a plan whose units have all passed is never undone.
LEMMA AcceptanceStep ==
  ASSUME Typed, [Next]_vars, NEW p,
         \A u \in UnitsOf(p) : status[u] = "passed", AcceptanceHolds(p)
  PROVE  AcceptanceHolds(p)' /\ \A u \in UnitsOf(p) : status'[u] = "passed"
<1>1. \A u \in UnitsOf(p) : /\ u \in Unit /\ PlanOf[u] = p
                            /\ status'[u] = "passed" /\ results'[u] = results[u]
                            /\ contract'[u] = contract[u]
  BY PassedStep DEF UnitsOf
<1>2. \A u \in UnitsOf(p) : Verifiers(u)' = Verifiers(u) /\ Verifiers(u) \subseteq UnitsOf(p)
  BY <1>1 DEF Verifiers, UnitsOf
<1>3. SUFFICES ASSUME NEW u \in UnitsOf(p), contract'[u].verifies = {}
               PROVE  /\ {u} \X contract'[u].det \subseteq results'[u]
                      /\ contract'[u].scope # {} /\ contract'[u].jud # {} =>
                           LET passed == {v \in Verifiers(u)' : status'[v] = "passed"}
                           IN  /\ passed # {}
                               /\ \A v \in passed : {u} \X contract'[u].jud \subseteq results'[v]
  BY <1>1 DEF AcceptanceHolds, UnitsOf
<1>4. /\ {u} \X contract[u].det \subseteq results[u]
      /\ contract[u].scope # {} /\ contract[u].jud # {} =>
           /\ Verifiers(u) # {}
           /\ \A v \in Verifiers(u) : {u} \X contract[u].jud \subseteq results[v]
  <2>1. contract[u].verifies = {}
    BY <1>1, <1>3
  <2>2. {v \in Verifiers(u) : status[v] = "passed"} = Verifiers(u)
    BY <1>2
  <2> QED
    BY <2>1, <2>2 DEF AcceptanceHolds
<1>5. {v \in Verifiers(u)' : status'[v] = "passed"} = Verifiers(u)
  BY <1>1, <1>2
<1> QED
  BY <1>1, <1>2, <1>4, <1>5

\* Only finalize changes the final of a task.
LEMMA FinalChanges ==
  ASSUME Typed, [Next]_vars, NEW t \in Task, final'[t] # final[t]
  PROVE  \E p \in Plan, ready \in BOOLEAN : t = TaskOf[p] /\ Finalize(p, ready)
<1>1. ASSUME NEW p \in Plan, NEW ready \in BOOLEAN, Finalize(p, ready) PROVE t = TaskOf[p]
  BY <1>1 DEF Finalize, Typed, TypeOK
<1>2. ASSUME ~ \E p \in Plan, ready \in BOOLEAN : Finalize(p, ready) PROVE final' = final
  BY <1>2 DEF Next, Chairman, Worker, vars, taskVars, RecordPlan, RecordWorkGraph, FailWorkUnit,
     RecordAdvice, PrepareReview, ReviewPasses, ReviewReopens, CompleteTask, CancelTask,
     StartWorkUnit, BindWorkUnitHost, BindMissed, RecordExpertReport, ReportRefused, TailMoves,
     HostDies, StopHook, StopObserved, StopRejected, StopWithoutUnit, AdvisorStops
<1> QED
  BY <1>1, <1>2

LEMMA FinalStep ==
  ASSUME Typed, [Next]_vars, FinalStands, FinalsHaveReports
  PROVE  FinalStands'
<1>1. ASSUME NEW t \in Task, final'[t].joined, NEW p, p = final'[t].plan
      PROVE  AcceptanceHolds(p)' /\ \A u \in UnitsOf(p) : status'[u] = "passed"
  <2>1. CASE final'[t] = final[t]
    <3>1. (\A u \in UnitsOf(p) : status[u] = "passed") /\ AcceptanceHolds(p)
      BY <1>1, <2>1 DEF FinalStands
    <3> QED
      BY <3>1, AcceptanceStep
  <2>2. CASE final'[t] # final[t]
    <3>1. PICK q \in Plan, ready \in BOOLEAN : t = TaskOf[q] /\ Finalize(q, ready)
      BY <2>2, FinalChanges
    <3>2. final'[t].plan = q /\ final'[t].joined = GraphRecorded(q)
      BY <3>1 DEF Finalize, Typed, TypeOK
    <3>3. (\A u \in UnitsOf(p) : status[u] = "passed") /\ AcceptanceHolds(p)
      BY <1>1, <3>1, <3>2 DEF Finalize
    <3> QED
      BY <3>3, AcceptanceStep
  <2> QED
    BY <2>1, <2>2
<1> QED
  BY <1>1 DEF FinalStands, AcceptanceHolds, Verifiers, UnitsOf

\* A unit appears with the graph of its plan.
LEMMA GraphAppears ==
  ASSUME Typed, [Next]_vars, NEW u \in Unit, status[u] = "absent", status'[u] # "absent"
  PROVE  \E q \in Plan : RecordWorkGraph(q) /\ u \in UnitsOf(q)
<1>1. ASSUME NEW q \in Plan, RecordWorkGraph(q) PROVE u \in UnitsOf(q)
  BY <1>1 DEF RecordWorkGraph, UnitsOf, Typed, TypeOK
<1>2. \E q \in Plan : RecordWorkGraph(q)
  <2> USE DEF UnitsOf, Typed, TypeOK, WorkersHaveUnits
  <2>1. ASSUME UNCHANGED unitVars PROVE FALSE
    BY <2>1 DEF unitVars
  <2>2. ASSUME NEW w \in Unit, FailWorkUnit(w) PROVE FALSE
    BY <2>2 DEF FailWorkUnit
  <2>3. ASSUME NEW a \in Agent, NEW w \in Unit, StartWorkUnit(a, w) PROVE FALSE
    BY <2>3 DEF StartWorkUnit, Ready, Startable
  <2>4. ASSUME NEW a \in Agent, BindWorkUnitHost(a) PROVE FALSE
    BY <2>4 DEF BindWorkUnitHost
  <2>5. ASSUME NEW a \in Agent, RecordExpertReport(a) PROVE FALSE
    BY <2>5 DEF RecordExpertReport
  <2>6. ASSUME NEW a \in Agent, UnitStop(a) PROVE FALSE
    BY <2>6 DEF UnitStop, StopObserved, StopRejected, StopAccepted
  <2> QED
    BY UnitSteps, <2>1, <2>2, <2>3, <2>4, <2>5, <2>6
<1> QED
  BY <1>1, <1>2

LEMMA GraphsStep ==
  ASSUME Typed, [Next]_vars, GraphsAreValid
  PROVE  GraphsAreValid'
<1> SUFFICES ASSUME NEW p \in Plan, NEW u \in UnitsOf(p), status'[u] # "absent"
             PROVE  /\ \A w \in UnitsOf(p) : status'[w] # "absent"
                    /\ ValidGraph(p, [w \in UnitsOf(p) |-> contract'[w]])
  BY DEF GraphsAreValid, GraphOf, ValidGraph, Acyclic, UnitsOf
<1>1. CASE status[u] # "absent"
  <2>1. /\ \A w \in UnitsOf(p) : status[w] # "absent"
        /\ ValidGraph(p, GraphOf(p))
    BY <1>1 DEF GraphsAreValid
  <2>2. \A w \in UnitsOf(p) : contract'[w] = contract[w] /\ status'[w] # "absent"
    BY <2>1, ContractStep DEF UnitsOf
  <2>3. [w \in UnitsOf(p) |-> contract'[w]] = GraphOf(p)
    BY <2>2 DEF GraphOf
  <2> QED
    BY <2>1, <2>2, <2>3
<1>2. CASE status[u] = "absent"
  <2>1. PICK q \in Plan : RecordWorkGraph(q) /\ u \in UnitsOf(q)
    BY <1>2, GraphAppears DEF UnitsOf
  <2>2. q = p
    BY <2>1 DEF UnitsOf
  <2>3. PICK g \in Proposal :
          /\ ValidGraph(p, g)
          /\ contract' = [w \in Unit |-> IF w \in UnitsOf(p) THEN g[w] ELSE contract[w]]
    BY <2>1, <2>2 DEF RecordWorkGraph
  <2>4. g = [w \in UnitsOf(p) |-> g[w]]
    <3>1. g = [w \in DOMAIN g |-> g[w]] /\ DOMAIN g = UnitsOf(p)
      BY <2>3, ConstantsAssumption DEF ValidGraph
    <3> QED
      BY <3>1
  <2>5. [w \in UnitsOf(p) |-> contract'[w]] = g
    BY <2>3, <2>4 DEF UnitsOf
  <2>6. \A w \in UnitsOf(p) : status'[w] # "absent"
    BY <2>1, <2>2 DEF RecordWorkGraph, UnitsOf
  <2> QED
    BY <2>3, <2>5, <2>6
<1> QED
  BY <1>1, <1>2

\* A graph comes once and advice stays.
LEMMA AdviceStays ==
  ASSUME [Next]_vars
  PROVE  advised \subseteq advised' /\ runs \subseteq runs'
BY DEF Next, Chairman, Worker, vars, taskVars, RecordPlan, RecordWorkGraph, FailWorkUnit,
   RecordAdvice, Finalize, PrepareReview, ReviewPasses, ReviewReopens, CompleteTask, CancelTask,
   StartWorkUnit, BindWorkUnitHost, BindMissed, RecordExpertReport, ReportRefused, TailMoves,
   HostDies, StopHook, StopObserved, StopRejected, StopWithoutUnit, AdvisorStops, WithRun

LEMMA ReportsStep ==
  ASSUME Typed, [Next]_vars, FinalsHaveReports
  PROVE  FinalsHaveReports'
<1> SUFFICES ASSUME NEW t \in Task, final'[t].plan # None
             PROVE  /\ TaskOf[final'[t].plan] = t
                    /\ final'[t].joined \/ UnitsOf(final'[t].plan) \subseteq advised'
  BY DEF FinalsHaveReports, UnitsOf
<1>1. CASE final'[t] = final[t]
  BY <1>1, AdviceStays DEF FinalsHaveReports
<1>2. CASE final'[t] # final[t]
  <2>1. PICK p \in Plan, ready \in BOOLEAN : t = TaskOf[p] /\ Finalize(p, ready)
    BY <1>2, FinalChanges
  <2>2. final'[t].plan = p /\ final'[t].joined = GraphRecorded(p)
    BY <2>1 DEF Finalize, Typed, TypeOK
  <2>3. (\A u \in UnitsOf(p) : status[u] = "passed") \/ UnitsOf(p) \subseteq advised
    BY <2>1 DEF Finalize
  <2>4. UnitsOf(p) # {}
    BY <2>1 DEF Finalize
  <2>5. GraphRecorded(p) \/ UnitsOf(p) \subseteq advised
    BY <2>3, <2>4 DEF GraphRecorded
  <2> QED
    BY <2>1, <2>2, <2>5, AdviceStays
<1> QED
  BY <1>1, <1>2

\* Only a new plan changes the newest plan of a task.
LEMMA LatestChanges ==
  ASSUME Typed, [Next]_vars, NEW t \in Task, latest'[t] # latest[t]
  PROVE  \E p \in Plan : t = TaskOf[p] /\ RecordPlan(p)
<1>1. ASSUME NEW p \in Plan, RecordPlan(p) PROVE t = TaskOf[p]
  BY <1>1 DEF RecordPlan, Typed, TypeOK
<1>2. ASSUME ~ \E p \in Plan : RecordPlan(p) PROVE latest' = latest
  BY <1>2 DEF Next, Chairman, Worker, vars, taskVars, RecordWorkGraph, FailWorkUnit,
     RecordAdvice, Finalize, PrepareReview, ReviewPasses, ReviewReopens, CompleteTask, CancelTask,
     StartWorkUnit, BindWorkUnitHost, BindMissed, RecordExpertReport, ReportRefused, TailMoves,
     HostDies, StopHook, StopObserved, StopRejected, StopWithoutUnit, AdvisorStops
<1> QED
  BY <1>1, <1>2

LEMMA CompletedStep ==
  ASSUME Typed, [Next]_vars, FinalsHaveReports, CompletedIsFinal
  PROVE  CompletedIsFinal'
<1> SUFFICES ASSUME NEW t \in Task, task'[t] = "completed"
             PROVE  (latest[t] # None)' /\ CompletionEvidence(t)'
  BY DEF CompletedIsFinal
<1>1. ASSUME latest[t] # None, CompletionEvidence(t), latest'[t] = latest[t], final'[t] = final[t],
             \A u \in UnitsOf(latest[t]) : status[u] = "absent" => status'[u] = "absent"
      PROVE  (latest[t] # None)' /\ CompletionEvidence(t)'
  <2>1. \A u \in UnitsOf(latest[t]) : status'[u] \in {"absent", "passed"}
    BY <1>1, PassedStep DEF CompletionEvidence, UnitsOf
  <2> QED
    BY <1>1, <2>1, AdviceStays DEF CompletionEvidence, UnitsOf
<1>2. ASSUME CompleteTask(t)
      PROVE  (latest[t] # None)' /\ CompletionEvidence(t)'
  <2>1. CompletionEvidence(t) /\ UNCHANGED <<latest, final, status>>
    BY <1>2 DEF CompleteTask, unitVars
  <2> QED
    BY <1>1, <2>1 DEF CompletionEvidence
<1>3. CASE task[t] = "completed"
  <2>1. latest[t] # None /\ CompletionEvidence(t)
    BY <1>3 DEF CompletedIsFinal
  <2>2. final'[t] = final[t]
    BY <1>3, FinalChanges DEF Finalize, TaskOpen
  <2>3. latest'[t] = latest[t]
    BY <1>3, LatestChanges DEF RecordPlan, TaskOpen
  <2>4. ASSUME NEW u \in UnitsOf(latest[t]), status[u] = "absent" PROVE status'[u] = "absent"
    <3>1. u \in Unit /\ PlanOf[u] = latest[t] /\ latest[t] \in Plan
      BY <2>1 DEF UnitsOf, Typed, TypeOK
    <3>2. ASSUME status'[u] # "absent" PROVE FALSE
      <4>1. PICK p \in Plan : RecordWorkGraph(p) /\ PlanOf[u] = p
        BY <2>4, <3>1, <3>2, GraphAppears DEF UnitsOf
      <4>2. TaskOf[p] = t
        BY <2>1, <3>1, <4>1 DEF FinalsHaveReports, CompletionEvidence
      <4> QED
        BY <1>3, <4>1, <4>2 DEF RecordWorkGraph, TaskOpen
    <3> QED
      BY <3>2
  <2> QED
    BY <1>1, <2>1, <2>2, <2>3, <2>4
<1>4. CASE task[t] # "completed"
  <2>1. CompleteTask(t)
    BY <1>4 DEF Next, Chairman, Worker, vars, taskVars, RecordPlan, RecordWorkGraph, FailWorkUnit,
     RecordAdvice, Finalize, PrepareReview, ReviewPasses, ReviewReopens, CompleteTask, CancelTask,
     StartWorkUnit, BindWorkUnitHost, BindMissed, RecordExpertReport, ReportRefused, TailMoves,
     HostDies, StopHook, StopObserved, StopRejected, StopWithoutUnit, AdvisorStops, Typed, TypeOK
  <2> QED
    BY <1>2, <2>1
<1> QED
  BY <1>3, <1>4

----------------------------------------------------------------------------
(* The inductive invariant and what follows from it.                         *)

LEMMA InitInvariant == Init => InductiveInvariant
<1> SUFFICES ASSUME Init PROVE InductiveInvariant
  OBVIOUS
<1>1. Typed
  BY InitTyped
<1>2. Running = {}
  BY DEF Init, Running
<1>3. RunningUnitsAreApart
  <2>1. Cardinality(Running) = 0
    BY <1>2, FS_EmptySet
  <2> QED
    BY <1>2, <2>1, ConstantsAssumption DEF RunningUnitsAreApart
<1>4. DependenciesPassed /\ RunningUnitsAreCurrent /\ PassedIsEarned
  BY <1>2 DEF Init, DependenciesPassed, RunningUnitsAreCurrent, PassedIsEarned
<1>5. FinalStands /\ RunsAreOver /\ HostsHaveClaims
  BY DEF Init, FinalStands, RunsAreOver, HostsHaveClaims
<1>6. GraphsAreValid /\ FinalsHaveReports /\ CompletedIsFinal
  BY DEF Init, GraphsAreValid, FinalsHaveReports, CompletedIsFinal, UnitsOf
<1> QED
  BY <1>1, <1>3, <1>4, <1>5, <1>6 DEF InductiveInvariant, Typed

LEMMA InvariantStep == InductiveInvariant /\ [Next]_vars => InductiveInvariant'
<1> SUFFICES ASSUME InductiveInvariant, [Next]_vars PROVE InductiveInvariant'
  OBVIOUS
<1>1. Typed
  BY DEF InductiveInvariant, Typed
<1>2. Typed'
  BY <1>1, StepTyped
<1>3. DependenciesPassed' /\ RunningUnitsAreApart' /\ RunningUnitsAreCurrent'
  BY <1>1, DependenciesStep, RunningApartStep, RunningCurrentStep DEF InductiveInvariant
<1>4. PassedIsEarned' /\ FinalStands' /\ RunsAreOver' /\ HostsHaveClaims'
  BY <1>1, EarnedStep, FinalStep, RunsOverStep, HostsStep DEF InductiveInvariant
<1>5. GraphsAreValid' /\ FinalsHaveReports' /\ CompletedIsFinal'
  BY <1>1, GraphsStep, ReportsStep, CompletedStep DEF InductiveInvariant
<1> QED
  BY <1>2, <1>3, <1>4, <1>5 DEF InductiveInvariant, Typed

\* The conjunction of the safety properties and their strengthenings holds in
\* every reachable state, for any tasks, plans, units, workers and graphs.
THEOREM InvariantHolds == Spec => []InductiveInvariant
  BY InitInvariant, InvariantStep, PTL DEF Spec

\* Fan-in: a unit that was ever started has only passed dependencies.
THEOREM StartedUnitsHaveTheirDependencies == Spec => []DependenciesPassed
<1>1. InductiveInvariant => DependenciesPassed
  BY DEF InductiveInvariant
<1> QED
  BY <1>1, InvariantHolds, PTL

\* The parallel limit and the disjointness of running scopes hold in the whole
\* project, although start_work_unit only looks at the unit it starts.
THEOREM RunningUnitsStayApart == Spec => []RunningUnitsAreApart
<1>1. InductiveInvariant => RunningUnitsAreApart
  BY DEF InductiveInvariant
<1> QED
  BY <1>1, InvariantHolds, PTL

\* Neither a new plan nor the end of a task leaves an old unit running.
THEOREM RunningUnitsStayCurrent == Spec => []RunningUnitsAreCurrent
<1>1. InductiveInvariant => RunningUnitsAreCurrent
  BY DEF InductiveInvariant
<1> QED
  BY <1>1, InvariantHolds, PTL

\* A passed unit has an accepted report and an observed run of its host.
THEOREM PassedUnitsAreEarned == Spec => []PassedIsEarned
<1>1. InductiveInvariant => PassedIsEarned
  BY DEF InductiveInvariant
<1> QED
  BY <1>1, InvariantHolds, PTL

\* What finalize accepted over a graph stays accepted: every unit of the plan
\* stays passed and its acceptance holds, whatever the workers, the chairman and
\* the reports made before the graph do afterwards.
THEOREM FinalsStand == Spec => []FinalStands
<1>1. InductiveInvariant => FinalStands
  BY DEF InductiveInvariant
<1> QED
  BY <1>1, InvariantHolds, PTL

\* The host of a passed unit is a worker: it has a row in worker_runs.
LEMMA PassedHasHost ==
  ASSUME TypeOK, PassedIsEarned, NEW u \in Unit, status[u] = "passed"
  PROVE  host[u] \in Agent
<1>1. [agent |-> host[u], unit |-> u, keyed |-> TRUE, status |-> "observed"] \in runs
  BY DEF PassedIsEarned
<1> QED
  BY <1>1 DEF TypeOK

\* What a final that was made over the graph says of the writers of its plan.
LEMMA JoinedIsVerified ==
  ASSUME InductiveInvariant, NEW t \in Task, final[t].joined,
         NEW p \in Plan, p = final[t].plan, NEW u \in UnitsOf(p),
         contract[u].scope # {}, NEW c \in contract[u].jud
  PROVE  \E v \in Verifiers(u) :
            /\ status[v] = "passed" /\ <<u, c>> \in results[v]
            /\ u \in contract[v].deps
            /\ host[v] # host[u]
<1> USE DEF InductiveInvariant
<1>1. u \in Unit /\ PlanOf[u] = p
  BY DEF UnitsOf
<1>2. (\A w \in UnitsOf(p) : status[w] = "passed") /\ AcceptanceHolds(p)
  BY DEF FinalStands
<1>3. ValidGraph(p, GraphOf(p))
  BY <1>1, <1>2 DEF GraphsAreValid
<1>4. \A w \in UnitsOf(p) : GraphOf(p)[w] = contract[w]
  BY DEF GraphOf
<1>5. contract[u].verifies = {}
  BY <1>3, <1>4 DEF ValidGraph
<1>6. PICK v \in Verifiers(u) : status[v] = "passed" /\ {u} \X contract[u].jud \subseteq results[v]
  BY <1>2, <1>5 DEF AcceptanceHolds
<1>7. v \in UnitsOf(p) /\ u \in contract[v].verifies
  BY <1>1, <1>6 DEF Verifiers
<1>8. u \in contract[v].deps /\ v # u
  BY <1>3, <1>4, <1>7 DEF ValidGraph
<1>9. v \in Unit /\ host[u] \in Agent /\ host[v] \in Agent
  <2>1. v \in Unit /\ status[u] = "passed" /\ status[v] = "passed"
    BY <1>1, <1>2, <1>6, <1>7 DEF UnitsOf
  <2> QED
    BY <1>1, <2>1, PassedHasHost
<1>10. claim[host[u]] = u /\ claim[host[v]] = v
  BY <1>1, <1>9, ConstantsAssumption DEF HostsHaveClaims
<1> QED
  BY <1>6, <1>8, <1>10

\* A completed task has an observed run for each expert of its newest plan and
\* either a passed unit or, if no graph was ever recorded, an accepted report of
\* each; and a final that went through the join barrier had every judgmental
\* criterion of a writer marked passed by a verifier that depended on the writer
\* and ran on another worker.
THEOREM CompletedTasksAreVerified == Spec => []CompletedIsVerified
<1>1. ASSUME InductiveInvariant PROVE CompletedIsVerified
  <2> USE <1>1 DEF InductiveInvariant
  <2> SUFFICES ASSUME NEW t \in Task, task[t] = "completed",
                      NEW p, p = latest[t], NEW u \in UnitsOf(p)
               PROVE  /\ \E r \in runs : r.unit = u /\ r.status = "observed"
                      /\ IF GraphRecorded(p) THEN status[u] = "passed" ELSE u \in advised
                      /\ final[t].joined =>
                           (contract[u].scope # {} => \A c \in contract[u].jud :
                              \E v \in Verifiers(u) :
                                /\ status[v] = "passed" /\ <<u, c>> \in results[v]
                                /\ u \in contract[v].deps
                                /\ host[v] # host[u])
    BY DEF CompletedIsVerified
  <2>1. /\ p \in Plan /\ u \in Unit /\ PlanOf[u] = p
        /\ final[t].plan = p /\ p # None
        /\ status[u] \in {"absent", "passed"}
        /\ \E r \in runs : r.unit = u /\ r.status = "observed"
    BY DEF CompletedIsFinal, CompletionEvidence, TypeOK, UnitsOf
  <2>2. CASE GraphRecorded(p)
    <3>1. status[u] # "absent"
      BY <2>1, <2>2 DEF GraphsAreValid, GraphRecorded
    <3> QED
      BY <2>1, <2>2, <3>1, JoinedIsVerified
  <2>3. CASE ~GraphRecorded(p)
    <3>1. status[u] = "absent"
      BY <2>3 DEF GraphRecorded
    <3>2. ~final[t].joined
      BY <2>1, <3>1 DEF FinalStands
    <3>3. u \in advised
      BY <2>1, <3>2 DEF FinalsHaveReports
    <3> QED
      BY <2>1, <2>3, <3>2, <3>3
  <2> QED
    BY <2>2, <2>3
<1> QED
  BY <1>1, InvariantHolds, PTL

\* Two workers bound to units (control_preflight.py) have no part of the tree in common, also
\* when one of them was failed and its scope went to a third while it is still at work: what
\* a bound worker may write is the scopes of its running units, and these are apart.
THEOREM BoundWritersStayApart == Spec => []BoundWritersAreApart
<1>1. ASSUME InductiveInvariant PROVE BoundWritersAreApart
  <2> SUFFICES ASSUME NEW a \in Agent, NEW b \in Agent, a # b,
                      ClaimedBy(a) # {}, ClaimedBy(b) # {},
                      NEW x, x \in MayWrite(a), x \in MayWrite(b)
               PROVE  FALSE
    BY DEF BoundWritersAreApart
  <2>1. PICK u \in ClaimedBy(a) \cap Running : x \in contract[u].scope
    BY DEF MayWrite
  <2>2. PICK w \in ClaimedBy(b) \cap Running : x \in contract[w].scope
    BY DEF MayWrite
  <2>3. u # w
    BY <2>1, <2>2 DEF ClaimedBy
  <2>4. contract[u].scope \cap contract[w].scope = {}
    BY <1>1, <2>3 DEF InductiveInvariant, RunningUnitsAreApart
  <2> QED
    BY <2>1, <2>2, <2>4
<1> QED
  BY <1>1, InvariantHolds, PTL

\* A validated graph never deadlocks: with nothing running and no host stop
\* awaited, some unit that has not passed is ready.
THEOREM GraphsNeverStall == Spec => []GraphNeverStalls
<1>1. ASSUME InductiveInvariant PROVE GraphNeverStalls
  <2> USE <1>1 DEF InductiveInvariant
  <2> SUFFICES ASSUME NEW t \in Task, NEW p \in planned,
                      TaskOpen(t), latest[t] = p,
                      \E u \in UnitsOf(p) : status[u] # "passed",
                      \A u \in UnitsOf(p) :
                         status[u] # "absent" /\ u \notin Running /\ ~AwaitsHostStop(u)
               PROVE  \E u \in UnitsOf(p) : Ready(u)
    BY DEF GraphNeverStalls
  <2> DEFINE Left == {u \in UnitsOf(p) : status[u] # "passed"}
  <2>1. p \in Plan
    BY DEF TypeOK
  <2>2. ValidGraph(p, GraphOf(p))
    BY <2>1 DEF GraphsAreValid
  <2>3. DOMAIN GraphOf(p) = UnitsOf(p) /\ \A u \in UnitsOf(p) : GraphOf(p)[u] = contract[u]
    BY DEF GraphOf
  <2>4. Left \in SUBSET DOMAIN GraphOf(p) /\ Left # {}
    BY <2>3
  <2>5. PICK u \in Left : GraphOf(p)[u].deps \cap Left = {}
    BY <2>2, <2>4 DEF ValidGraph, Acyclic
  <2>6. contract[u].deps \subseteq UnitsOf(p) /\ contract[u].deps \cap Left = {}
    BY <2>2, <2>3, <2>5 DEF ValidGraph
  <2>7. DependenciesDone(u)
    BY <2>6 DEF DependenciesDone
  <2>8. Startable(u)
    BY <2>5 DEF Startable, Running, TypeOK, UnitsOf
  <2> QED
    BY <2>5, <2>7, <2>8 DEF Ready
<1> QED
  BY <1>1, InvariantHolds, PTL

----------------------------------------------------------------------------
(* Action properties that rest on the invariant.                             *)

\* A failed unit is only retried when the worker bound to it is really over.
THEOREM RetriesFollowStops == Spec => RetryAfterStop
<1> DEFINE Retry == \A u \in Unit :
      status[u] = "failed" /\ host[u] # None /\ status'[u] = "running"
      => phase[host[u]] = "stopped"
<1>1. ASSUME InductiveInvariant, [Next]_vars PROVE [Retry]_vars
  <2>1. Typed /\ RunsAreOver
    BY <1>1 DEF InductiveInvariant, Typed
  <2> SUFFICES ASSUME NEW u \in Unit, status[u] = "failed", host[u] # None, status'[u] = "running"
               PROVE  phase[host[u]] = "stopped"
    OBVIOUS
  <2> USE <2>1 DEF Typed, TypeOK, WorkersHaveUnits
  <2>2. \E a \in Agent : StartWorkUnit(a, u)
    <3>1. ASSUME UNCHANGED unitVars PROVE FALSE
      BY <3>1 DEF unitVars
    <3>2. ASSUME NEW p \in Plan, RecordWorkGraph(p) PROVE FALSE
      BY <3>2 DEF RecordWorkGraph
    <3>3. ASSUME NEW w \in Unit, FailWorkUnit(w) PROVE FALSE
      BY <3>3 DEF FailWorkUnit
    <3>4. ASSUME NEW a \in Agent, NEW w \in Unit, StartWorkUnit(a, w) PROVE u = w
      BY <3>4 DEF StartWorkUnit
    <3>5. ASSUME NEW a \in Agent, BindWorkUnitHost(a) \/ RecordExpertReport(a) PROVE FALSE
      BY <3>5 DEF BindWorkUnitHost, RecordExpertReport
    <3>6. ASSUME NEW a \in Agent, UnitStop(a) PROVE FALSE
      BY <3>6 DEF UnitStop, StopObserved, StopRejected
    <3> QED
      BY <1>1, UnitSteps, <3>1, <3>2, <3>3, <3>4, <3>5, <3>6
  <2>3. HostStopObserved(u)
    BY <2>2 DEF StartWorkUnit, Ready, AwaitsHostStop
  <2> QED
    BY <2>3 DEF HostStopObserved, RunsAreOver
<1> QED
  BY <1>1, InvariantHolds, PTL DEF Spec, RetryAfterStop

\* While a review is pending or passed nothing is added to what it judges.
THEOREM ReviewedEvidenceStaysFrozen == Spec => ReviewedEvidenceIsFrozen
<1> DEFINE Frozen(t) ==
      /\ latest'[t] = latest[t] /\ final'[t] = final[t]
      /\ \A r \in runs' \ runs : Owner(r.unit) # t
      /\ \A u \in Unit : Owner(u) = t /\ u \in advised' => u \in advised
      /\ \A u \in Unit : Owner(u) = t /\ reported'[u] => reported[u]
<1> DEFINE Frozens == \A t \in Task : review[t] # "open" /\ review'[t] # "open" => Frozen(t)
<1>1. Spec => []Typed
  BY InitTyped, StepTyped, PTL DEF Spec
<1>2. ASSUME Typed, [Next]_vars PROVE [Frozens]_vars
  <2> SUFFICES ASSUME NEW t \in Task, review[t] # "open" PROVE Frozen(t)
    OBVIOUS
  <2> USE <1>2 DEF Typed, TypeOK, WorkersHaveUnits, MaterialAllowed
  <2>1. ASSUME NEW p \in Plan, RecordPlan(p) PROVE Frozen(t)
    <3>1. TaskOf[p] # t
      BY <2>1 DEF RecordPlan
    <3> QED
      BY <2>1, <3>1 DEF RecordPlan, unitVars
  <2>2. ASSUME NEW p \in Plan, NEW ready \in BOOLEAN, Finalize(p, ready) PROVE Frozen(t)
    <3>1. TaskOf[p] # t
      BY <2>2 DEF Finalize
    <3> QED
      BY <2>2, <3>1 DEF Finalize, unitVars
  <2>3. ASSUME NEW a \in Agent, RecordExpertReport(a) PROVE Frozen(t)
    <3>1. claim[a] \in Unit /\ Owner(claim[a]) # t
      BY <2>3 DEF RecordExpertReport, CanReport
    <3>2. \A u \in Unit : u # claim[a] => reported'[u] = reported[u]
      BY <2>3, <3>1 DEF RecordExpertReport
    <3> QED
      BY <2>3, <3>1, <3>2 DEF RecordExpertReport, taskVars
  <2>4. ASSUME NEW a \in Agent, StopHook(a) PROVE Frozen(t)
    <3>1. Owner(claim[a]) # t
      BY <2>4 DEF StopHook, StopObserved, StopRejected, StopWithoutUnit, StopAccepted
    <3>2. \A r \in runs' \ runs : r.unit = claim[a]
      BY <2>4 DEF StopHook, StopObserved, StopRejected, StopWithoutUnit, WithRun
    <3>3. UNCHANGED <<taskVars, reported>>
      BY <2>4 DEF StopHook, StopObserved, StopRejected, StopWithoutUnit, unitVars
    <3> QED
      BY <3>1, <3>2, <3>3 DEF taskVars
  <2>5. ASSUME NEW a \in Agent, NEW u \in Unit, StartWorkUnit(a, u) PROVE Frozen(t)
    BY <2>5 DEF StartWorkUnit, taskVars
  <2>6. ASSUME NEW a \in Agent, NEW w \in Unit, AdvisorStops(a, w) PROVE Frozen(t)
    <3>1. Owner(w) # t /\ \A r \in runs' \ runs : r.unit = w
      BY <2>6 DEF AdvisorStops, WithRun
    <3> QED
      BY <2>6, <3>1 DEF AdvisorStops, taskVars, unitVars
  <2>7. ASSUME NEW w \in Unit, RecordAdvice(w) PROVE Frozen(t)
    <3>1. Owner(w) # t
      BY <2>7 DEF RecordAdvice
    <3> QED
      BY <2>7, <3>1 DEF RecordAdvice, unitVars
  <2>8. CASE UNCHANGED <<advised, latest, final, runs, reported>>
    BY <2>8
  <2> QED
    BY <2>1, <2>2, <2>3, <2>4, <2>5, <2>6, <2>7, <2>8
       DEF Next, Chairman, Worker, vars, taskVars, unitVars, RecordWorkGraph, FailWorkUnit,
           PrepareReview, ReviewPasses, ReviewReopens, CompleteTask, CancelTask,
           BindWorkUnitHost, BindMissed, ReportRefused, TailMoves, HostDies
<1> QED
  BY <1>1, <1>2, PTL DEF Spec, ReviewedEvidenceIsFrozen

----------------------------------------------------------------------------
(* The graph implements the scheduler of ScheduledWork.                      *)

\* Only the rows of units matter to the scheduler, and of these only the
\* status and the contract.
LEMMA SchedulerStutters ==
  ASSUME status' = status, contract' = contract
  PROVE  UNCHANGED Sched!vars
<1>1. \A u \in Unit : Stage(u)' = Stage(u)
  BY DEF Stage
<1> QED
  BY <1>1 DEF Sched!vars

\* A unit whose status alone changes, seen by the scheduler.
LEMMA SchedulerMoves ==
  ASSUME Typed, NEW u \in Unit, NEW s \in {"running", "passed", "failed"},
         status' = [status EXCEPT ![u] = s], contract' = contract
  PROVE  LET new == IF s = "failed" THEN "waiting" ELSE IF s = "running" THEN "inwork" ELSE "done"
         IN  /\ [w \in Unit |-> Stage(w)]' = [[w \in Unit |-> Stage(w)] EXCEPT ![u] = new]
             /\ UNCHANGED <<[w \in Unit |-> contract[w].deps], [w \in Unit |-> contract[w].scope]>>
<1> DEFINE new == IF s = "failed" THEN "waiting" ELSE IF s = "running" THEN "inwork" ELSE "done"
<1>1. \A w \in Unit : w # u => Stage(w)' = Stage(w)
  BY DEF Stage, Typed, TypeOK
<1>2. Stage(u)' = new
  BY DEF Stage, Typed, TypeOK
<1> QED
  BY <1>1, <1>2

LEMMA InitScheduler == Init => Sched!Init
  BY DEF Init, Sched!Init, Stage, EmptyContract

LEMMA StepScheduler == Typed /\ Typed' /\ [Next]_vars => [Sched!Next]_(Sched!vars)
<1> SUFFICES ASSUME Typed, Typed', [Next]_vars PROVE Sched!Next \/ UNCHANGED Sched!vars
  OBVIOUS
<1>1. CASE UNCHANGED unitVars
  BY <1>1, SchedulerStutters DEF unitVars
<1>2. ASSUME NEW p \in Plan, RecordWorkGraph(p) PROVE Sched!Next \/ UNCHANGED Sched!vars
  <2>1. PICK g \in Proposal :
          /\ ValidGraph(p, g)
          /\ contract' = [u \in Unit |-> IF u \in UnitsOf(p) THEN g[u] ELSE contract[u]]
    BY <1>2 DEF RecordWorkGraph
  <2>2. /\ \A u \in UnitsOf(p) : status[u] = "absent"
        /\ status' = [u \in Unit |-> IF u \in UnitsOf(p) THEN "pending" ELSE status[u]]
    BY <1>2 DEF RecordWorkGraph, GraphRecorded
  <2>3. CASE UnitsOf(p) = {}
    <3>1. status' = status /\ contract' = contract
      BY <2>1, <2>2, <2>3 DEF Typed, TypeOK
    <3> QED
      BY <3>1, SchedulerStutters
  <2>4. CASE UnitsOf(p) # {}
    <3>1. UnitsOf(p) \in SUBSET Unit
      BY DEF UnitsOf
    <3>2. \A u \in Unit : Stage(u)' = IF u \in UnitsOf(p) THEN "waiting" ELSE Stage(u)
      <4> TAKE u \in Unit
      <4>1. CASE u \in UnitsOf(p)
        BY <2>2, <4>1 DEF Stage
      <4>2. CASE u \notin UnitsOf(p)
        <5>1. status'[u] = status[u] /\ status[u] \in {"absent", "pending", "running", "passed", "failed"}
          BY <2>2, <4>2 DEF Typed, TypeOK
        <5> QED
          BY <4>2, <5>1 DEF Stage
      <4> QED
        BY <4>1, <4>2
    <3>3. \A u \in UnitsOf(p) : Stage(u) = "unplanned"
      BY <2>2 DEF Stage
    <3>4. \A u \in UnitsOf(p) : contract'[u].deps \subseteq UnitsOf(p) \ {u}
      BY <2>1, <3>1 DEF ValidGraph
    <3>5. \A u \in Unit \ UnitsOf(p) : contract'[u] = contract[u]
      BY <2>1
    <3>6. /\ [u \in Unit |-> contract[u].deps]' \in [Unit -> SUBSET Unit]
          /\ [u \in Unit |-> contract[u].scope]' \in [Unit -> SUBSET Path]
      BY DEF Typed, TypeOK, Contract
    <3>7. Sched!PlanUnits(UnitsOf(p))
      BY <2>4, <3>1, <3>2, <3>3, <3>4, <3>5, <3>6 DEF Sched!PlanUnits
    <3> QED
      BY <3>1, <3>3, <3>7 DEF Sched!Next, Sched!Unplanned
  <2> QED
    BY <2>3, <2>4
<1>3. ASSUME NEW u \in Unit, FailWorkUnit(u) PROVE Sched!Next \/ UNCHANGED Sched!vars
  <2>1. Stage(u) = "inwork" /\ status' = [status EXCEPT ![u] = "failed"] /\ contract' = contract
    BY <1>3 DEF FailWorkUnit, Stage
  <2>2. Sched!GiveUp(u)
    BY <2>1, SchedulerMoves DEF Sched!GiveUp
  <2> QED
    BY <2>2 DEF Sched!Next
<1>4. ASSUME NEW a \in Agent, NEW u \in Unit, StartWorkUnit(a, u)
      PROVE  Sched!Next \/ UNCHANGED Sched!vars
  <2>1. /\ Stage(u) = "waiting"
        /\ status' = [status EXCEPT ![u] = "running"] /\ contract' = contract
    BY <1>4 DEF StartWorkUnit, Ready, Startable, Stage
  <2>2. \A d \in contract[u].deps : d \in Unit /\ Stage(d) = "done"
    BY <1>4 DEF StartWorkUnit, Ready, DependenciesDone, Stage, Typed, TypeOK, Contract
  <2>3. Sched!InWork = Running
    BY DEF Sched!InWork, Running, Stage, Typed, TypeOK
  <2>4. /\ Cardinality(Running) < MaxParallelWorkers
        /\ \A w \in Running : contract[u].scope \cap contract[w].scope = {}
    BY <1>4 DEF StartWorkUnit, ScopeFree
  <2>5. Sched!Cardinality(Sched!InWork) < MaxParallelWorkers
    BY <2>3, <2>4 DEF Cardinality, Sched!Cardinality
  <2>6. Sched!Begin(u)
    BY <2>1, <2>2, <2>3, <2>4, <2>5, SchedulerMoves DEF Sched!Begin, Running
  <2> QED
    BY <2>6 DEF Sched!Next
<1>5. ASSUME NEW a \in Agent, BindWorkUnitHost(a) \/ RecordExpertReport(a)
      PROVE  Sched!Next \/ UNCHANGED Sched!vars
  BY <1>5, SchedulerStutters DEF BindWorkUnitHost, RecordExpertReport
<1>6. ASSUME NEW a \in Agent, UnitStop(a) PROVE Sched!Next \/ UNCHANGED Sched!vars
  <2>1. claim[a] \in Unit /\ contract' = contract /\ status[claim[a]] \in {"running", "failed"}
    BY <1>6 DEF UnitStop, StopObserved, StopRejected, StopAccepted, Typed, WorkersHaveUnits
  <2>2. PICK s \in {"passed", "failed"} :
          /\ status' = [status EXCEPT ![claim[a]] = s]
          /\ s = "passed" => status[claim[a]] = "running"
    BY <1>6, <2>1 DEF UnitStop, StopObserved, StopRejected
  <2>3. CASE status[claim[a]] = "failed"
    <3>1. status' = status
      BY <2>1, <2>2, <2>3 DEF Typed, TypeOK
    <3> QED
      BY <2>1, <3>1, SchedulerStutters
  <2>4. CASE status[claim[a]] = "running"
    <3>1. Stage(claim[a]) = "inwork"
      BY <2>4 DEF Stage
    <3>2. Sched!GiveUp(claim[a]) \/ Sched!Deliver(claim[a])
      BY <2>1, <2>2, <3>1, SchedulerMoves DEF Sched!GiveUp, Sched!Deliver
    <3> QED
      BY <2>1, <3>2 DEF Sched!Next
  <2> QED
    BY <2>1, <2>3, <2>4
<1> QED
  BY UnitSteps, <1>1, <1>2, <1>3, <1>4, <1>5, <1>6

\* Whatever the order of calls, hooks and re-plans, the work graph behaves as
\* the scheduler: units begin over done dependencies and apart from the others
\* in work, and what is done or planned stays as it is.
THEOREM ImplementsScheduler == Spec => IsScheduler
<1>1. Spec => []Typed
  BY InitTyped, StepTyped, PTL DEF Spec
<1> QED
  BY <1>1, InitScheduler, StepScheduler, PTL DEF Spec, IsScheduler, Sched!Spec
=============================================================================
