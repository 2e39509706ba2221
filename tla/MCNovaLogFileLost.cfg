CONSTANTS
    f1 = f1
    d1 = d1
    None = None
    LoggerNames <- MCNoNames
    LevelConfigs <- MCOneLevelConfig
    LogFiles = {f1}
    LogDirs = {d1}
    MaxHandlers = 6
SPECIFICATION Spec
INVARIANT
    FileLogFollowsFlags
