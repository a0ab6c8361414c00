\* One thread, two turns that may overlap or supersede each other and two
\* resumptions; retry limit 2, so that success, retry and giving up all occur.
CONSTANTS
    Threads = {t1}
    Turns = {u1, u2}
    Resumes = {d1, d2}
    Tools = {refund, kb}
    GatedTools = {refund}
    NoTool = NoTool
    NoTurn = NoTurn
    NoThread = NoThread
    MaxAttempts = 2
    VisionEnabled = TRUE
SPECIFICATION FairSpec
INVARIANTS
    TypeOK
    RetryDiscipline
    OneCallPerResume
    ResultBelongsToTurn
    LoopBacksNeedCalls
PROPERTIES
    RunsTerminate
\* Every run id is used once, so the system stops when all are used.
CHECK_DEADLOCK FALSE
