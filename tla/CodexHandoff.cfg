\* One hand-off of one path, with another outside of its scope, and two calls.
SPECIFICATION FairSpec
CONSTANTS
    a = a
    Outside = {b}
    None = None  Dir = Dir
    Handoff = {h1}
    Path = {a, b}
    Unseen = {}
    Call = {c1, c2}
    Scope <- ScopeOfHandoff
    Required <- RequiredOfHandoff
    MaxDoc = 1
    MaxHead = 1
INVARIANTS
    TypeOK
    ExecutedIsInScope
    WindowIsExclusive
PROPERTIES
    IsContractedWork
    ClaimIsAnswered
