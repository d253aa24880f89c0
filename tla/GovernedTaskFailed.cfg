CONSTANTS
    c1 = c1
    c2 = c2
    f1 = f1
    f2 = f2
    pricing = pricing
    unowned = unowned
    solo = solo
    duo = duo
    deep = deep
    None = None
    Content = {c1, c2}
    Files = {f1}
    Discovery = {pricing}
    Gap = {}
    Team = {solo}
    OpusTeam = {}
    MaxRoutes = 1
    MaxReviews = 1
SPECIFICATION Spec
PROPERTIES
    FailedReviewBlocksCompletion
SYMMETRY Symmetry
