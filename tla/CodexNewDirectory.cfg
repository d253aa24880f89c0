\* One hand-off of two paths, one of them in a new directory.
SPECIFICATION Spec
CONSTANTS
    a = a
    Outside = {}
    None = None  Dir = Dir
    Handoff = {h1}
    Path = {a, n}
    Unseen = {n}
    Call = {c1}
    Scope <- ScopeOfHandoff
    Required <- RequiredOfHandoff
    MaxDoc = 1
    MaxHead = 1
INVARIANT AppliedSetIsReported
