\* Two approvals and one agent, whose worker may be stopped or crash at any time;
\* the cooldown outlasts the failing sweeps.
CONSTANTS
    Approvals = {a1, a2}
    Agents = {w1}
    NoApproval = NoApproval
    SLA = 1
    Cooldown = 4
    Poll = 1
    SlowSink = 1
SPECIFICATION FairSpec
INVARIANTS
    TypeOK
PROPERTIES
    NotFlooded
    NobodyStarves
