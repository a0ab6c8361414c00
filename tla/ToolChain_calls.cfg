\* One call, sent up to three times as the client does, so that three executions of it
\* overlap; OrderTools_jobs has executions of different calls.
CONSTANTS
    Orders = {o1}
    Jobs <- MCJobs
    NoOrder = NoOrder
    Amounts = {1, 2}
    Threshold = 1
    Calls = {c1}
    MaxSends = 3
    Server = http
    Nobody = Nobody
    NoServer = NoServer
SPECIFICATION ChainSpec
INVARIANTS
    PaymentsBounded
    CancelAnswerIsFinal
\* Every call is made once, so the system stops when all are over.
CHECK_DEADLOCK FALSE
