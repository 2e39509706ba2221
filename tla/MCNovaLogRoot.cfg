CONSTANTS
    f1 = f1
    d1 = d1
    None = None
    LoggerNames <- MCOneName
    LevelConfigs <- MCTwoLevelConfigs
    LogFiles = {}
    LogDirs = {d1}
    MaxHandlers = 6
SPECIFICATION Spec
INVARIANTS
    TypeOK
    NoDuplicateHandlers
    HandlersFollowFlags
    LoggerLevelsFollowFlags
    LevelRuleMatchesReference
