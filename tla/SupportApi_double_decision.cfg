\* One turn and two decisions on one thread.
CONSTANTS
    Threads = {t1}
    Turns = {u1}
    Resumes = {d1, d2}
    Tools = {refund, order}
    GatedTools = {refund, order}
    NoTool = NoTool
    NoTurn = NoTurn
    NoThread = NoThread
    MaxAttempts = 2
    VisionEnabled = FALSE
    Approvals = {a1}
    NoApproval = NoApproval
    Messages = {m1}
    NoMessage = NoMessage
SPECIFICATION Spec
SYMMETRY RequestSymmetry
INVARIANTS
    OneDecisionPerApproval
\* Every request id is used once, so the system stops when all are used.
CHECK_DEADLOCK FALSE
