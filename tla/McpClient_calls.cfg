\* Two callers of a tool that an HTTP server or a stdio server lists, one stdio server and one HTTP server, under fairness.
CONSTANTS
    Calls = {c1, c2}
    Tools = {refund}
    Servers = {stdio, http}
    StdioServers = {stdio}
    Nobody = Nobody
    NoServer = NoServer
    MaxSends = 3
SPECIFICATION FairSpec
INVARIANTS
    TypeOK
    OneExchange
    ExecutionsBounded
PROPERTIES
    CallsTerminate
\* A call is made once, so the system stops when all calls are over.
CHECK_DEADLOCK FALSE
