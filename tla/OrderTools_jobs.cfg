\* Three executions of the tools on one order; refunds of nothing, at and above the
\* threshold.
CONSTANTS
    Orders = {o1}
    Jobs = {j1, j2, j3}
    NoOrder = NoOrder
    Amounts = {0, 1, 2}
    Threshold = 1
SPECIFICATION Spec
SYMMETRY JobSymmetry
INVARIANTS
    TypeOK
    ReplyTellsEffect
    MutatedOnlyIfAllowed
\* Every job runs once, so the system stops when all are over.
CHECK_DEADLOCK FALSE
