\* Seven services, one to a behaviour.
SPECIFICATION ServicesSpec
CONSTANTS
    \* knowledge
    k1 = k1  k2 = k2  e1 = e1  a1 = a1  s0 = s0  s1 = s1  s2 = s2
    Knowledge = {k1, k2}
    Episodes = {e1}
    Artifacts = {a1}
    Sources = {s0, s1, s2}
    Company = {s0}
    Type <- kType
    SourceOf <- kSourceOf
    Derivable <- kDerivable
    Citable <- kCitable
    NoSource = NoSource
    MaxDepth = 3
    Asked = {"proposed", "validated"}
    \* session
    Conversations = {c1, c2}
    Rows = {1, 2}
    Hosts = {1, 2}
    Items = {1, 2}
    Calls = {call1}
    Nobody = Nobody
    Wishes = {FALSE}
    \* reply
    ReplyTasks = {rt1, rt2}
    NoTask = NoTask
    MaxTurns = 2
    MaxActivity = 1
    \* inputs
    UserSessions = {us1, us2}
    UserTasks = {ut1, ut2}
    None = None
    MaxInputs = 2
    \* procedures
    Methods = {m1, m2}
    Contracts = {p}
    MaxWords = 3
    MaxVersions = 3
    MaxReplays = 1
    \* credentials
    Resources = {res1}
    Captures = {cap1}
    Fields = {f1, f2}
    Values = {v1, v2}
    Projects = {pr1}
    NoValue = NoValue
    NoCall = NoCall
    \* governance
    MaxTxn = 3
    MayCall = {"record", "prepare", "verdict", "abandon", "update", "decide", "invalidate",
               "cancel", "complete", "bind"}
SYMMETRY Symmetry
INVARIANTS
    ServicesTypeOK
    OrphansAreRevoked
    ContextIsMarked
    CancelledWasAsked
    OneWordOneChange
    StoresAgree
    OrderedCallsNeverDeadlock
PROPERTIES
    CascadeIsExact
    IsReviewedTask
    AllowedReplyIsCheckpointed
    InputsStayWithTheirTask
    ReplayYieldsToUser
CHECK_DEADLOCK FALSE
