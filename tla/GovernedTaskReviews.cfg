\* Two reviews of changing documents and files, or two routes, a capability
\* nobody owns and a team with an Opus worker.
CONSTANTS
    c1 = c1
    c2 = c2
    f1 = f1
    f2 = f2
    pricing = pricing
    unowned = unowned
    solo = solo
    duo = duo
    deep = deep
    None = None
    Content = {c1, c2}
    Files = {f1, f2}
    Discovery = {pricing, unowned}
    Gap = {unowned}
    Team = {solo, duo, deep}
    OpusTeam = {deep}
    MaxRoutes = 2
    MaxReviews = 2
SPECIFICATION Spec
INVARIANTS
    TypeOK
    PassedIsCurrent
    WaiverIsRoutine
PROPERTIES
    CompletionIsEarned
    CompletedPassStands
    TerminalStands
SYMMETRY Symmetry
CONSTRAINT Bound
