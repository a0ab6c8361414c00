\* Two chat turns and one decision on one thread, under fairness.
CONSTANTS
    Threads = {t1}
    Turns = {u1, u2}
    Resumes = {d1}
    Tools = {refund, kb}
    GatedTools = {refund}
    NoTool = NoTool
    NoTurn = NoTurn
    NoThread = NoThread
    MaxAttempts = 2
    VisionEnabled = FALSE
    Approvals = {a1}
    NoApproval = NoApproval
    Messages = {m1}
    NoMessage = NoMessage
SPECIFICATION FairSpec
INVARIANTS
    TypeOK
    CachedReplyWasAudited
    SilentTurnIsPaused
PROPERTIES
    RequestsTerminate
\* Every request id is used once, so the system stops when all are used.
CHECK_DEADLOCK FALSE
