CONSTANTS
    t1 = t1
    t2 = t2
    hs = hs
    hf = hf
    hp = hp
    None = None
    Threads = {t1}
    HandlerOrder <- MCStreamAndFile
    HandlerLevel <- MCHandlerLevel
    Publishers = {hp}
    DebugSuffix = FALSE
    Calls <- MCPlainCalls
SPECIFICATION Spec
CHECK_DEADLOCK FALSE
INVARIANT
    DeliveredToAdmittingHandlers
