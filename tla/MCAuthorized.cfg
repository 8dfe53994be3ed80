SPECIFICATION HostSpec
CONSTANTS
    t1 = t1
    t2 = t2
    t3 = t3
    s1 = s1
    s2 = s2
    s3 = s3
    g = g
    v = v
    p = p
    Turns = {t1, t2, t3}
    Sessions = {s1, s2, s3}
    SessionOf <- MCSessionOf
    Callers = {c1}
    Requests <- MCRequests
    MarkedNoSave = {}
    Groups = {g}
    Values = {v}
    Kinds = {p}
    MaxSequence = 1
    GroupLimit = 2
    NoEvent = NoEvent
    MaxEpoch = 2
    RecordNames = {r}
    TurnInputs <- MCInputs
    Outcomes <- MCOutcomes
    Chains <- MCChains
    ActiveTurnLimit = 2
    SessionLimit = 2
    MaxActiveSessions = 2
    DiscourseLimit = 2
    RepetitionThreshold = 2
    NormalChars = 600
    DeepChars = 1600
    ConsecutiveRequired = 2
    CooldownTurns = 1
    HistoryLimit = 2
    None = None
    ScanLimit = 9
    OutputChars = 900
    NoCue = NoCue
SYMMETRY Others
VIEW Quiet
INVARIANTS ActiveIsPending CaptureHonest
PROPERTIES EndsWithReceipt NoSaveTurnsNotKept
CHECK_DEADLOCK FALSE
