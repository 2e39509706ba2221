CONSTANTS
    t1 = t1
    t2 = t2
    hs = hs
    hf = hf
    hp = hp
    None = None
    Threads = {t1, t2}
    HandlerOrder <- MCStreamAndFile
    HandlerLevel <- MCHandlerLevel
    Publishers = {hp}
    DebugSuffix = TRUE
    Calls <- MCCalls
SPECIFICATION Spec
CHECK_DEADLOCK FALSE
INVARIANT
    FormatMatchesRecord
