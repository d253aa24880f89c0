\* One routine task, an implementer and its verifier, with or without a graph.
SPECIFICATION Spec
CONSTANTS
    t1 = t1  t2 = t2  p1 = p1  p2 = p2  p3 = p3
    impl = impl  verifier = verifier  other = other
    apart = apart
    d1 = d1  j1 = j1  src = src  docs = docs
    None = None
    Task = {t1}
    RoutineTask = {t1}
    Plan = {p1}
    TaskOf <- BarrierTaskOf
    Unit = {impl, verifier}
    PlanOf <- BarrierPlanOf
    Agent = {a1, a2}
    Crit = {d1, j1}
    Path = {src}
    Proposal <- BarrierProposal
    MaxParallelWorkers = 2
SYMMETRY Symmetry
CHECK_DEADLOCK FALSE
INVARIANT JoinBarrierHolds
