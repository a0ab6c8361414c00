\* Two threads: one chat turn, two decisions about two approval rows.
CONSTANTS
    Threads = {t1, t2}
    Turns = {u1}
    Resumes = {d1, d2}
    Tools = {refund, kb}
    GatedTools = {refund}
    NoTool = NoTool
    NoTurn = NoTurn
    NoThread = NoThread
    MaxAttempts = 2
    VisionEnabled = FALSE
    Approvals = {a1, a2}
    NoApproval = NoApproval
    Messages = {m1}
    NoMessage = NoMessage
SPECIFICATION Spec

INVARIANTS
    CallsBackedByApprovals
PROPERTIES
    GraphSpec
    GateSpec
\* Every request id is used once, so the system stops when all are used.
CHECK_DEADLOCK FALSE
