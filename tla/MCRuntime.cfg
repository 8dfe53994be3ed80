SPECIFICATION Spec
CONSTANTS
    Turns = {t1, t2, t3}
    Sessions = {s1, s2}
    RecordNames = {r, q}
    TurnInputs <- MCInputs
    Outcomes <- MCOutcomes
    Chains <- MCChains
    ActiveTurnLimit = 2
    SessionLimit = 2
    DiscourseLimit = 2
    RepetitionThreshold = 2
    NormalChars = 600
    DeepChars = 1600
    ConsecutiveRequired = 2
    CooldownTurns = 1
    HistoryLimit = 2
    None = None
SYMMETRY Interchangeable
VIEW Quiet
INVARIANTS OwnersMatch DriftNeverRefused AnchorsSpaced
PROPERTIES NoSaveHonoured ReceiptsStand ReceiptsHonest ContextKept AnchorsDelivered
CHECK_DEADLOCK FALSE
