\* One unit, two workers: the hooks of a living worker are delivered.
SPECIFICATION FairSpec
CONSTANTS
    t1 = t1  t2 = t2  p1 = p1  p2 = p2  p3 = p3
    impl = impl  verifier = verifier  other = other
    apart = apart
    d1 = d1  j1 = j1  src = src  docs = docs
    None = None
    Task = {t1}
    RoutineTask = {}
    Plan = {p2}
    TaskOf <- SmallTaskOf
    Unit = {other}
    PlanOf <- SmallPlanOf
    Agent = {a1, a2}
    Crit = {d1}
    Path = {src, docs}
    Proposal <- SmallProposal
    MaxParallelWorkers = 2
CHECK_DEADLOCK FALSE
PROPERTY BoundWorkerStops
