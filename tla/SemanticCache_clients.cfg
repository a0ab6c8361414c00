\* Two entries around the threshold, of two workers, against one caller: lookups only
\* read, so that a second one changes nothing for the first.  One candidate is the
\* limit, so that a scan may be cut short.
CONSTANTS
    Workers = {w1, w2}
    Lookups = {l1}
    Stores = {s1, s2}
    Queries <- MCQueries
    NoEmbedding = NoEmbedding
    NoEntry = NoEntry
    NoKey = NoKey
    Exact = 3
    Threshold = 2
    MaxCandidates = 1
    MaxScans = 2
SPECIFICATION FairSpec
INVARIANTS
    TypeOK
PROPERTIES
    BestOfLive
    ContractSpec
    CacheTurnsOver
\* Every call runs once, so the system stops when all are over.
CHECK_DEADLOCK FALSE
