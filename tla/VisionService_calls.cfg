\* Three calls, so that two can wait behind a load; probabilities in quarters, so that
\* one lies exactly on the threshold of 0.75 and ties exist.
CONSTANTS
    Calls = {c1, c2, c3}
    NoCall = NoCall
    NoModel = NoModel
    NoVerdict = NoVerdict
    Whole = 4
    ConfidenceThreshold = 3
SPECIFICATION FairSpec
INVARIANTS
    TypeOK
    OneModel
    SevereIsReviewed
PROPERTIES
    CallsEnd
\* Every call runs once, so the system stops when all are over.
CHECK_DEADLOCK FALSE
