------------------------------- MODULE McpClient -------------------------------
(***************************************************************************)
(* app/mcp/client.py: start-up (initialize_all, discover_tools), call_tool *)
(* and _call with its tenacity retry, over HTTPTransport (one POST per     *)
(* send) and StdioTransport (one child process whose pipes all callers     *)
(* share under an asyncio lock).                                           *)
(*                                                                         *)
(* A frame on a pipe or on the network is named by the call it carries:    *)
(* the JSON-RPC id is written into every envelope and compared with        *)
(* nothing.  The servers are external; they answer frames in order.        *)
(***************************************************************************)
EXTENDS Naturals, Sequences, FiniteSets

CONSTANTS
    Calls,          \* ids of call_tool invocations
    Tools,          \* tool names
    Servers,        \* keys of _transports
    StdioServers,   \* those behind a StdioTransport
    Nobody,         \* no holder of the lock, no answer
    NoServer,       \* a call that was not made, a tool that nobody listed
    MaxSends        \* stop_after_attempt(3)

VARIABLES
    startup,    \* what lifespan is doing, and the servers it has still to ask
    registry,   \* _tool_registry: the server of each tool
    rpc,        \* rpc[c]: invocation c inside _call
    lock,       \* lock[s]: holder of StdioTransport._lock
    process,    \* process[s]: the child process behind _process
    stdin,      \* stdin[s]: frames written and not yet read by the server
    stdout,     \* stdout[s]: response lines not yet read by the client
    wire,       \* <<c, n>>: the n-th POST of call c, which the server may still take up
    executed,   \* history: how often a server took up a frame of call c
    abandoned   \* history: a frame was left unread in the pipes of this process

stdioVars == <<lock, process, stdin, stdout, abandoned>>
httpVars == <<wire, executed>>
vars == <<startup, registry, rpc, stdioVars, httpVars>>

Methods == {"initialize", "tools/list"}

\* The invocations of _call: one per server for each of the two start-up methods,
\* and those of call_tool.
StartupCalls == Methods \X Servers
Rpcs == Calls \cup StartupCalls

ASSUME McpAssumption ==
    /\ StdioServers \subseteq Servers
    /\ Calls \cap StartupCalls = {}
    /\ Nobody \notin Calls \cup StartupCalls
    /\ NoServer \notin Servers
    /\ MaxSends \in Nat \ {0}

HttpServers == Servers \ StdioServers

NoRpc == [pc |-> "idle", server |-> NoServer, sends |-> 0, answer |-> Nobody]

Init ==
    /\ startup = [pc |-> "initialize", todo |-> Servers]
    /\ registry = [t \in Tools |-> NoServer]
    /\ rpc = [c \in Rpcs |-> NoRpc]
    /\ lock = [s \in StdioServers |-> Nobody]
    /\ process = [s \in StdioServers |-> "none"]
    /\ stdin = [s \in StdioServers |-> <<>>]
    /\ stdout = [s \in StdioServers |-> <<>>]
    /\ wire = {}
    /\ executed = [c \in Calls |-> 0]
    /\ abandoned = [s \in StdioServers |-> FALSE]

-----------------------------------------------------------------------------
(***************************************************************************)
(* _call: the retry around send                                            *)
(***************************************************************************)
\* An unknown tool is an MCPProtocolError at once.
CallTool(c, t) ==
    /\ startup.pc = "serving"
    /\ rpc[c].pc = "idle"
    /\ rpc' = [rpc EXCEPT ![c].pc = IF registry[t] = NoServer THEN "failed" ELSE "ready",
                           ![c].server = registry[t]]
    /\ UNCHANGED <<startup, registry, stdioVars, httpVars>>

AwaitingOn(c, kind) == rpc[c].pc = "awaiting" /\ rpc[c].server \in kind

\* Mutant: the stop condition is off by one.
AfterTransportErrorOffByOne(R) ==
    [R EXCEPT !.pc = IF R.sends <= MaxSends THEN "ready" ELSE "failed"]

\* MCPTransportError: wait_exponential, then another attempt until
\* stop_after_attempt; reraise=True.
AfterTransportError(R) ==
    [R EXCEPT !.pc = IF R.sends < MaxSends THEN "ready" ELSE "failed"]

\* A response: _unwrap returns its result, or raises MCPProtocolError, which is
\* not retried; a response that is no JSON raises a ValueError before that.
Responds(c, from) ==
    \E pc \in {"answered", "failed", "raised"} :
        rpc' = [rpc EXCEPT ![c].pc = pc,
                           ![c].answer = IF pc = "answered" THEN from ELSE Nobody]

-----------------------------------------------------------------------------
(***************************************************************************)
(* HTTPTransport.send                                                      *)
(***************************************************************************)
\* The start-up methods change nothing at a server, so of their POSTs only the
\* responses are followed.
HttpPosts(c) ==
    /\ rpc[c].pc = "ready"
    /\ rpc[c].server \in HttpServers
    /\ rpc' = [rpc EXCEPT ![c].pc = "awaiting", ![c].sends = @ + 1]
    /\ wire' = IF c \in Calls THEN wire \cup {<<c, rpc[c].sends + 1>>} ELSE wire
    /\ UNCHANGED <<startup, registry, stdioVars, executed>>

\* The server carries out a request it received; whether the client still
\* waits for it is not its concern.
HttpExecutes(c, n) ==
    /\ <<c, n>> \in wire
    /\ wire' = wire \ {<<c, n>>}
    /\ executed' = [executed EXCEPT ![c] = @ + 1]
    /\ UNCHANGED <<startup, registry, rpc, stdioVars>>

\* The response of this POST, on its own connection.
HttpResponds(c) ==
    /\ AwaitingOn(c, HttpServers)
    /\ <<c, rpc[c].sends>> \notin wire
    /\ Responds(c, c)
    /\ UNCHANGED <<startup, registry, stdioVars, httpVars>>

\* httpx.HTTPError: connection failure, error status, or the 15 s timeout, with
\* the request carried out or not.
HttpFails(c) ==
    /\ AwaitingOn(c, HttpServers)
    /\ rpc' = [rpc EXCEPT ![c] = AfterTransportError(@)]
    /\ UNCHANGED <<startup, registry, stdioVars, httpVars>>

-----------------------------------------------------------------------------
(***************************************************************************)
(* StdioTransport.send, from taking the lock to releasing it               *)
(***************************************************************************)
\* Mutant: `async with self._lock` is missing.
StdioWritesUnlocked(c) ==
    LET s == rpc[c].server
        fresh == process[s] \in {"none", "reaped"} IN
    /\ rpc[c].pc = "ready"
    /\ s \in StdioServers
    /\ \E pc \in {"draining", "awaiting"} :
          rpc' = [rpc EXCEPT ![c].pc = pc, ![c].sends = @ + 1]
    /\ lock' = [lock EXCEPT ![s] = c]
    /\ process' = [process EXCEPT ![s] = IF fresh THEN "alive" ELSE @]
    /\ stdin' = [stdin EXCEPT ![s] = IF process[s] = "exited" THEN @
                                     ELSE IF fresh THEN <<c>> ELSE Append(@, c)]
    /\ stdout' = [stdout EXCEPT ![s] = IF fresh THEN <<>> ELSE @]
    /\ abandoned' = [abandoned EXCEPT ![s] = @ /\ ~fresh]
    /\ UNCHANGED <<startup, registry, httpVars>>

\* A child that closed its stdout may live on, and read or close its other pipes.
Lives(s) == process[s] \in {"alive", "closed"}

\* The waiter leaves `async with self._lock` without having read an answer.
GivesUp(s) ==
    /\ lock' = [lock EXCEPT ![s] = Nobody]
    /\ abandoned' = [abandoned EXCEPT ![s] = @ \/ stdin[s] # <<>> \/ stdout[s] # <<>>]

\* _ensure_started and the write: a process whose returncode is set is replaced
\* by a new one with empty pipes; one that died unnoticed swallows the frame.  If
\* the child is slow to read, drain has to wait.
StdioWrites(c) ==
    LET s == rpc[c].server
        fresh == process[s] \in {"none", "reaped"} IN
    /\ rpc[c].pc = "ready"
    /\ s \in StdioServers
    /\ lock[s] = Nobody
    /\ \E pc \in {"draining", "awaiting"} :
          rpc' = [rpc EXCEPT ![c].pc = pc, ![c].sends = @ + 1]
    /\ lock' = [lock EXCEPT ![s] = c]
    /\ process' = [process EXCEPT ![s] = IF fresh THEN "alive" ELSE @]
    /\ stdin' = [stdin EXCEPT ![s] = IF process[s] = "exited" THEN @
                                     ELSE IF fresh THEN <<c>> ELSE Append(@, c)]
    /\ stdout' = [stdout EXCEPT ![s] = IF fresh THEN <<>> ELSE @]
    /\ abandoned' = [abandoned EXCEPT ![s] = @ /\ ~fresh]
    /\ UNCHANGED <<startup, registry, httpVars>>

\* The write or the spawn raises OSError, which nothing here catches or retries.
StdioBreaks(c) ==
    LET s == rpc[c].server IN
    /\ rpc[c].pc = "ready"
    /\ s \in StdioServers
    /\ lock[s] = Nobody
    /\ process[s] # "alive"
    /\ rpc' = [rpc EXCEPT ![c].pc = "raised", ![c].sends = @ + 1]
    /\ UNCHANGED <<startup, registry, stdioVars, httpVars>>

\* drain returns: the child has read enough of what was written.
StdioDrains(c) ==
    /\ rpc[c].pc = "draining"
    /\ rpc' = [rpc EXCEPT ![c].pc = "awaiting"]
    /\ UNCHANGED <<startup, registry, stdioVars, httpVars>>

\* drain raises: the child closed the pipe or died.
StdioDrainBreaks(c) ==
    /\ rpc[c].pc = "draining"
    /\ process[rpc[c].server] # "alive"
    /\ rpc' = [rpc EXCEPT ![c].pc = "raised"]
    /\ GivesUp(rpc[c].server)
    /\ UNCHANGED <<startup, registry, process, stdin, stdout, httpVars>>

\* readline returns the next line of the pipe, whichever frame it answers.
StdioReads(c) ==
    LET s == rpc[c].server IN
    /\ AwaitingOn(c, StdioServers)
    /\ stdout[s] # <<>>
    /\ Responds(c, Head(stdout[s]))
    /\ stdout' = [stdout EXCEPT ![s] = Tail(@)]
    /\ lock' = [lock EXCEPT ![s] = Nobody]
    /\ UNCHANGED <<startup, registry, process, stdin, abandoned, httpVars>>

\* readline returns b"": what follows awaits the end of stderr, under the lock.
StdioEOF(c) ==
    LET s == rpc[c].server IN
    /\ AwaitingOn(c, StdioServers)
    /\ process[s] # "alive"
    /\ stdout[s] = <<>>
    /\ rpc' = [rpc EXCEPT ![c].pc = "stderr"]
    /\ UNCHANGED <<startup, registry, stdioVars, httpVars>>

\* stderr.read() returns: the child died, or closed its stderr.  The only
\* MCPTransportError of this transport.
StdioFails(c) ==
    /\ rpc[c].pc = "stderr"
    /\ rpc' = [rpc EXCEPT ![c] = AfterTransportError(@)]
    /\ GivesUp(rpc[c].server)
    /\ UNCHANGED <<startup, registry, process, stdin, stdout, httpVars>>

\* Mutant: readline without wait_for.
StdioNeverTimesOut(c) ==
    /\ AwaitingOn(c, StdioServers) /\ FALSE
    /\ UNCHANGED vars

\* wait_for raises TimeoutError, which is not an MCPTransportError: no retry,
\* and the frame and its answer stay in the pipes.
StdioTimesOut(c) ==
    LET s == rpc[c].server IN
    /\ AwaitingOn(c, StdioServers)
    /\ stdout[s] = <<>>
    /\ rpc' = [rpc EXCEPT ![c].pc = "raised"]
    /\ GivesUp(s)
    /\ UNCHANGED <<startup, registry, process, stdin, stdout, httpVars>>

\* The caller's task is cancelled while it waits; `async with` frees the lock.
Cancelled(c) ==
    LET s == rpc[c].server
        holding == rpc[c].pc \in {"draining", "stderr"} \/ AwaitingOn(c, StdioServers) IN
    /\ rpc[c].pc \in {"ready", "draining", "awaiting", "stderr"}
    /\ rpc' = [rpc EXCEPT ![c].pc = "cancelled"]
    /\ IF holding THEN GivesUp(s) ELSE UNCHANGED <<lock, abandoned>>
    /\ UNCHANGED <<startup, registry, process, stdin, stdout, httpVars>>

\* The child process reads a frame, carries it out and writes its answer, if it
\* still can.
ServerExecutes(s) ==
    /\ Lives(s)
    /\ stdin[s] # <<>>
    /\ executed' = [c \in Calls |->
                       IF c = Head(stdin[s]) THEN executed[c] + 1 ELSE executed[c]]
    /\ stdout' = [stdout EXCEPT ![s] = IF process[s] = "alive" THEN Append(@, Head(stdin[s]))
                                       ELSE @]
    /\ stdin' = [stdin EXCEPT ![s] = Tail(@)]
    /\ UNCHANGED <<startup, registry, rpc, lock, process, abandoned, wire>>

ServerCloses(s) ==
    /\ process[s] = "alive"
    /\ process' = [process EXCEPT ![s] = "closed"]
    /\ UNCHANGED <<startup, registry, rpc, lock, stdin, stdout, abandoned, httpVars>>

ServerExits(s) ==
    /\ Lives(s)
    /\ process' = [process EXCEPT ![s] = "exited"]
    /\ stdin' = [stdin EXCEPT ![s] = <<>>]
    /\ UNCHANGED <<startup, registry, rpc, lock, stdout, abandoned, httpVars>>

\* The event loop notices the exit and sets returncode.
ReturncodeSet(s) ==
    /\ process[s] = "exited"
    /\ process' = [process EXCEPT ![s] = "reaped"]
    /\ UNCHANGED <<startup, registry, rpc, lock, stdin, stdout, abandoned, httpVars>>

-----------------------------------------------------------------------------
(***************************************************************************)
(* initialize_all and discover_tools, awaited one server after the other   *)
(* in the lifespan of a worker, before it accepts requests                 *)
(***************************************************************************)
Asked == {<<startup.pc, s>> : s \in startup.todo}

StartupAsks(s) ==
    LET c == <<startup.pc, s>> IN
    /\ c \in Asked
    /\ \A d \in Asked : startup.pc \in Methods /\ rpc[d].pc = "idle"
    /\ rpc' = [rpc EXCEPT ![c].pc = "ready", ![c].server = s]
    /\ UNCHANGED <<startup, registry, stdioVars, httpVars>>

\* Both loops log the two MCP errors and go on with the next server; a tool that
\* two servers list stays with the later one.
StartupHears(s) ==
    LET c == <<startup.pc, s>>
        rest == startup.todo \ {s} IN
    /\ startup.pc \in Methods
    /\ s \in startup.todo
    /\ rpc[c].pc \in {"answered", "failed"}
    /\ startup' = IF rest # {} THEN [startup EXCEPT !.todo = rest]
                  ELSE IF startup.pc = "initialize" THEN [pc |-> "tools/list", todo |-> Servers]
                  ELSE [pc |-> "serving", todo |-> {}]
    /\ \E listed \in SUBSET Tools :
          /\ startup.pc = "initialize" \/ rpc[c].pc = "failed" => listed = {}
          /\ registry' = [t \in Tools |-> IF t \in listed THEN s ELSE registry[t]]
    /\ rpc' = [rpc EXCEPT ![c] = NoRpc]
    /\ UNCHANGED <<stdioVars, httpVars>>

\* Any other exception leaves lifespan: the worker does not start.
StartupCrashes(s) ==
    /\ startup.pc \in Methods
    /\ s \in startup.todo
    /\ rpc[<<startup.pc, s>>].pc = "raised"
    /\ startup' = [pc |-> "crashed", todo |-> {}]
    /\ UNCHANGED <<registry, rpc, stdioVars, httpVars>>

-----------------------------------------------------------------------------
\* The two awaits under the lock that have no timeout, while the child neither
\* reads nor closes the pipe that is waited for.
Hangs(c) ==
    \/ rpc[c].pc = "draining" /\ stdin[rpc[c].server] # <<>>
    \/ rpc[c].pc = "stderr" /\ Lives(rpc[c].server)

Unhangs(c) == StdioDrains(c) \/ StdioFails(c)

Progress(c) ==
    \/ HttpPosts(c) \/ HttpResponds(c) \/ HttpFails(c)
    \/ StdioWrites(c) \/ StdioBreaks(c) \/ StdioDrainBreaks(c)
    \/ StdioReads(c) \/ StdioEOF(c) \/ StdioTimesOut(c)
    \/ ~Hangs(c) /\ Unhangs(c)

StartupStep(s) == StartupAsks(s) \/ StartupHears(s) \/ StartupCrashes(s)

Next ==
    \/ \E s \in Servers : StartupStep(s)
    \/ \E c \in Calls, t \in Tools : CallTool(c, t)
    \/ \E c \in Rpcs : Progress(c) \/ Unhangs(c)
    \/ \E c \in Calls : Cancelled(c)
    \/ \E c \in Calls, n \in 1 .. MaxSends : HttpExecutes(c, n)
    \/ \E s \in StdioServers :
          ServerExecutes(s) \/ ServerCloses(s) \/ ServerExits(s) \/ ReturncodeSet(s)

Spec == Init /\ [][Next]_vars

\* Timers fire and ready tasks are scheduled; servers and callers owe nothing, so
\* a caller that hangs may hang for ever.
FairSpec ==
    /\ Spec
    /\ \A c \in Rpcs : WF_vars(Progress(c))
    /\ \A s \in Servers : WF_vars(StartupStep(s))

-----------------------------------------------------------------------------
(***************************************************************************)
(* Properties                                                              *)
(***************************************************************************)
TypeOK ==
    /\ startup \in [pc : Methods \cup {"serving", "crashed"}, todo : SUBSET Servers]
    /\ registry \in [Tools -> Servers \cup {NoServer}]
    /\ rpc \in [Rpcs -> [pc : {"idle", "ready", "draining", "awaiting", "stderr", "answered",
                               "failed", "raised", "cancelled"},
                         server : Servers \cup {NoServer},
                         sends : 0 .. MaxSends,
                         answer : Rpcs \cup {Nobody}]]
    /\ lock \in [StdioServers -> Rpcs \cup {Nobody}]
    /\ process \in [StdioServers -> {"none", "alive", "closed", "exited", "reaped"}]
    /\ stdin \in [StdioServers -> Seq(Rpcs)]
    /\ stdout \in [StdioServers -> Seq(Rpcs)]
    /\ wire \subseteq Calls \X (1 .. MaxSends)
    /\ executed \in [Calls -> Nat]
    /\ abandoned \in [StdioServers -> BOOLEAN]

\* StdioTransport._lock: as long as no waiter gave up on this process, its pipes
\* carry the one exchange of the lock's holder and nothing else.
OneExchange ==
    \A s \in StdioServers :
        LET frames == stdin[s] \o stdout[s] IN
        ~abandoned[s] => frames \in {<<>>, <<lock[s]>>}

Frames(c, q) == Cardinality({i \in DOMAIN q : q[i] = c})

Outstanding(c) ==
    LET s == rpc[c].server IN
    IF s \in StdioServers THEN Frames(c, stdin[s]) ELSE Cardinality({w \in wire : w[1] = c})

\* _call retries at-least-once but boundedly: what servers did for one invocation,
\* and what they may still do for it after the caller is gone, never exceeds the
\* sends, and these never exceed the stop condition.
ExecutionsBounded ==
    \A c \in Calls :
        /\ executed[c] + Outstanding(c) <= rpc[c].sends
        /\ rpc[c].sends <= MaxSends

HangsFor(s) == \E d \in Rpcs : Hangs(d) /\ rpc[d].server = s

\* _call, StdioTransport.send, lifespan: every invocation returns or raises, and
\* start-up comes to an end, also when servers die, fall silent or are restarted
\* while others wait for the lock; unless a caller hangs for ever in drain() or
\* stderr.read(), which have no timeout, and then only the callers of its server
\* and the start-up may be held up.
CallsTerminate ==
    /\ \A c \in Rpcs :
          rpc[c].pc = "ready" ~>
             \/ rpc[c].pc \in {"answered", "failed", "raised", "cancelled"}
             \/ [] HangsFor(rpc[c].server)
    /\ <>(startup.pc \in {"serving", "crashed"} \/ \E s \in StdioServers : [] HangsFor(s))
=============================================================================
