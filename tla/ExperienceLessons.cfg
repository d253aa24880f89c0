SPECIFICATION LessonSpec
CONSTANTS
    t1 = t1  t2 = t2  a1 = a1  s1 = s1  s2 = s2
    c1 = c1  c2 = c2  c3 = c3  c4 = c4
    Knowledge = {c1, c2, c3, c4}
    Episodes = {t1, t2}
    Artifacts = {a1}
    Sources = {s1, s2}
    Company = {}
    Type <- lType
    SourceOf <- lSourceOf
    Derivable <- lDerivable
    Citable <- lCitable
    Asked = {"validated"}
    NoSource = NoSource
    MaxDepth = 3
    TaskEpisodes = {t1, t2}
    Statement <- lStatement
    Polarity <- lPolarity
    Trigger <- lTrigger
    Cited <- lCited
    Related <- lRelated
    MaxOpenProposed = 1
INVARIANTS
    LessonTypeOK
    LessonsAreEarned
CHECK_DEADLOCK FALSE
