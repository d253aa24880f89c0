\* One task that is re-planned, or two tasks with writers of the same files.
SPECIFICATION MCSpec
CONSTANTS
    t1 = t1  t2 = t2  p1 = p1  p2 = p2  p3 = p3
    impl = impl  verifier = verifier  other = other
    apart = apart
    d1 = d1  j1 = j1  src = src  docs = docs
    None = None
    Task = {t1, t2}
    RoutineTask = {t1}
    Plan = {p1, p2, p3}
    TaskOf <- TasksOf
    Unit = {impl, verifier, other, apart}
    PlanOf <- PlansOf
    Agent = {a1, a2, a3}
    Crit = {d1, j1}
    Path = {src, docs}
    Proposal <- Proposals
    MaxParallelWorkers = 2
SYMMETRY Symmetry
CHECK_DEADLOCK FALSE
INVARIANTS
    TypeOK
    DependenciesPassed
    PassedIsEarned
    FinalStands
    CompletedIsVerified
    GraphNeverStalls
    RunningUnitsAreApart
    RunningUnitsAreCurrent
    BoundWritersAreApart
PROPERTIES
    IsScheduler
