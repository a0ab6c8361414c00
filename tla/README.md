# Formal models of Agentic-Support-OS

TLA+ models of the support service in `src/app`: what they model, what TLC checks on small
instances, and what TLAPS proves for every instance. All paths below are relative to the
repository's `src/` directory.

## 1. The system

A FastAPI service (two uvicorn workers) answers customer messages with a LangGraph agent, asks
human reviewers before risky tools run, reaches tools over MCP, and remembers things in
Postgres (graph checkpoints, approval queue, audit trail) and Redis (semantic cache).

| Component | Source | State it keeps | Operations |
|---|---|---|---|
| Agent graph | `app/agents/{graph,nodes,state}.py` | a checkpoint per thread, an in-memory copy per running invocation | five nodes, three conditional edges, a static interrupt before `action_executor`, resume |
| API handlers | `app/api/main.py` | rows of `approval_queue` and `audit_trail`; the local variables of each request | `_run_turn` (SSE and WebSocket), `decide_approval`, lifespan, read-only endpoints |
| Persistence models | `app/models.py` | five tables | declarations only; three tables are written by no code |
| MCP client | `app/mcp/client.py` | registry and transports; for stdio a child process, its pipes and a lock | `_call` with retry, `send` of two transports, discovery at start-up |
| Proactive SLA agent | `app/agents/proactive_agent.py` | `_last_escalated`, a stop event | poll loop, sweep, start, stop |
| Order action tool | `app/tools/order_actions.py` | none (callbacks to the order store) | lookup, validate against rules, mutate |
| Refund tool | `app/tools/refunds.py` | none (callbacks to the provider and the approval queue) | issue, or suspend and enqueue |
| Semantic cache | `app/cache/semantic_cache.py` | one Redis hash per entry, with a TTL | `lookup` (scan), `store` (hset, expire) |
| Knowledge base | `app/tools/knowledge_base.py` | dense and BM25 indexes in memory | `ingest`, `query` |
| PII sanitizer | `app/security/pii_sanitizer.py` | none | `sanitize`, `sanitize_payload` |
| Vision | `app/vision/*`, `app/tools/vision_inspection.py` | a lazily loaded network | `inspect` |
| Schemas, config, telemetry, branding | `app/{schemas,config,branding}.py`, `app/telemetry` | none | declarations, logging |
| Evaluation, stub server | `eval/`, `docker/mcp_stub_server.py` | none | development aids |

**Interactions.** `_run_turn` starts a graph run with a fresh `initial_state`; `decide_approval`
commits a decision and starts a run with `None` on the row's thread. The executor node calls the
MCP client. A tool server may suspend a refund by inserting an approval row. The SLA agent reads
the same rows. Nothing but the database connects two requests: no lock, no version column, no
queue per thread.

**What is hard.** Requests interleave at every `await`, also across workers; two runs may work on
one thread, the later checkpoint winning; a request can die between any two awaits; calls to tools
are repeated; a stdio pipe carries late answers; each sweep of the SLA agent works on rows read
before its first notification.

**What makes each component correct.** Graph: no tool runs before a resumption, one call per
resumption, attempts are counted right, a result never crosses turns, every run ends. API: every
call is backed by an approval committed for that thread, requests end, what the cache serves was
audited. MCP client: frames of two callers never mix, executions are bounded by the retry limit,
every call ends unless its server hangs one of two untimed awaits. SLA agent: no flooding, nobody starves. Tools: nothing is
mutated that the rules never let pass, a reply tells what was done, money leaves unapproved only up to the
threshold. Knowledge base: both indexes hold the same version, an answer is the best of the ranking. Cache: a hit
was live during the lookup and is the best of what stayed live, entries go away. Vision: one model judges all calls of a process,
nothing severe passes unreviewed. Sanitizer: no recognised secret or name is left, the Luhn test is Luhn's.

## 2. Modules

| Module | Models | Actions |
|---|---|---|
| `AgentGraph` | `graph.py`, `nodes.py`, `state.py`, and LangGraph's `astream` as far as the code relies on it | one per node (the executor has four: the call, and success, retry or giving up), `StartTurn`, `Resume`, `RunDies` |
| `ApprovalGate` | abstract: a reviewer request that approved a thread is good for one tool call on that thread | `Grant`, `Invoke` |
| `SupportApi` | `main.py` composed with `AgentGraph` (by `INSTANCE`), the approval queue, audit trail and cache | one per stretch of a handler between two awaits |
| `McpClient` | start-up, the tool registry, `_call`, `HTTPTransport`, `StdioTransport`, and servers as external processes | one per await of `send` and of the two start-up loops, plus servers, network and cancellation |
| `ProactiveSLA` | the SLA agent's loop, with a clock | one per await of the sweep, plus clock, reviewers, stop and crash |
| `OrderTools` | `order_actions.py` and `refunds.py` as executions that share an order store | one per await of the two tools, plus the warehouse and failing callbacks |
| `KnowledgeBase` | `knowledge_base.py`: both indexes, fusion, cut, reranking | ingest before and after its await, failure, query |
| `ToolChain` | `McpClient` with one HTTP server composed with `OrderTools`: each POST taken up is one execution | the actions of both, coupled where the server takes a call up and answers it |
| `CacheContract` | abstract: an answer of the cache is close to the question and was in the cache during the call | `Change`, `Ask`, `Answer` |
| `SemanticCache` | `semantic_cache.py` over Redis, with the embeddings of `main.py` | one per Redis command of `lookup` and `store`, plus expiry and interrupted calls |
| `VisionService` | `defect_classifier.py`: lazy load, inference, verdict | one per await of `classify`, plus failing loads and cancelled callers |
| `PiiSanitizer` | `pii_sanitizer.py` as functions, one call per behaviour | `ChecksCard`, `Sanitizes`, `SanitizesPayload` |
| `AgentGraphProofs`, `SupportApiProofs`, `McpClientProofs`, `ProactiveSLAProofs`, `OrderToolsProofs`, `SemanticCacheProofs`, `KnowledgeBaseProofs` | theorems about the module each is named after, `OrderToolsProofs` also about `ToolChain` (section 4) | |
| `PhotoAndTextProofs` | theorems about `VisionService` and `PiiSanitizer` (section 4) | |
| `MC*` | symmetry sets and definitions of constants for TLC | |

### AgentGraph

`ckpt[t]` is the latest checkpoint of thread *t* and the node it will run next; `run[r]` is
the in-memory side of one `astream` call, with its own copy of the state and, inside the executor,
the call it awaits; `calls` is the history of all `call_tool` invocations. `AgentState` keeps the channels
that steer the graph; `messages` is kept as the last human message, named after its turn.
`InitialState` is the merge of the new turn's dictionary: `tool_call_stack` has an appending reducer
and survives, every other channel is overwritten. `Advance` is what LangGraph does when a node
returns: write the checkpoint, then stop at END, stop at the interrupt, or go on. `RunDies` is any
way a run is lost: a node raises (an LLM error, a query the knowledge base refuses, a cancelled
HTTP request) or the worker dies. `_plan_tool_call` may answer any tool; the critic may
answer anything.

### SupportApi

A chat request's id is the id of the run it starts, and likewise for decisions, so
`SupportApi` adds only each request's program counter. `ChatLeavesStream` is what follows the stream:
the branch for an event that required approval inserts a row, the other audits `complete_turn`. The
first branch is in the code but never taken: `requires_human_approval` asks for a call with status
`"pending"`, and the executor only ever stores one as `"retrying"`. Approval rows
therefore come from `RefundSuspended`, the refund tool's `enqueue_approval`. `ChatBreaks`,
`DecideAborts` and `DecideBreaks` are the losses of a request at each await. The commit of a
decision is an unconditional UPDATE, so `DecideReads` and `DecideCommits` are separate actions and
others run in between.

### McpClient

A frame is named by the call it carries, because the client compares the JSON-RPC id with nothing.
A stdio server is a child process with two FIFO pipes; the lock is held from the write to
the end of the read. Between the two a caller may wait in `drain` (`"draining"`) and, after an empty line, for the end of the child's
stderr (`"stderr"`): neither await has a timeout, and `StdioDrains` and `StdioFails`, which end them, are owed only when the child has
read what was written or is gone (`Hangs`). A child may close its stdout and live on (`"closed"`), read on without being heard, and may break
the pipe of who writes to it. Whoever leaves the lock with frames or answers still in the pipes has given up on the process (`GivesUp`, history `abandoned`).
A process that died is replaced only when `returncode` has been set,
which happens some time after (`ReturncodeSet`). An HTTP request stays on `wire` until the server takes it
up, whether or not the client still waits. Start-up is the two loops of `initialize_all` and
`discover_tools`, whose calls go through the same `_call`; a server may list any set of tools, and the registry
keeps the last server that listed one. An exception the loops do not catch ends the worker's
start-up (`StartupCrashes`); requests come only after start-up (`CallTool`). `main.py` configures only HTTP endpoints; the stdio transport
is modelled because it is part of the client's interface.

### ProactiveSLA

Timestamps become ages that saturate where the code no longer distinguishes them. `elapsed` is
the time since the sweep read `now`. `Tick` may not overtake a timer that is due or a select,
and the sinks of one sweep take at most `SlowSink` ticks (a bound). Two workers are two
independent copies of the agent; the runs have one.

### OrderTools

A job is one execution of a tool with its local variables; the same request may be several jobs, since the MCP client
and the executor both send again what they have no answer to. The order store is external: `Warehouse`
ships, delivers and runs out of stock between any two awaits, and of a mutation only a cancellation shows in what the rules read. `CallbackFails` raises
before or after the callback took effect. `allowed` is history: the executions whose action the rules would have let
pass on the store at some moment of the execution. The tools themselves are not wired into `main.py`: the MCP servers that
would run them are outside the repository.

### KnowledgeBase

The dense index appends a chunk id that is already there, the sparse one replaces it; `Get` finds the
first document and `DenseScore` the last, as the code's generator and dictionary do. Scores are small
integers and any assignment is possible, so all ties and all orders of fused and rerank scores occur; Python's
unspecified order of a set of strings is `Rankings`' choice among ties. The stable sort of the chunks is given by its places: an
element goes behind all that score more and all of its own score that were before it.

### ToolChain

Job *(c, n)* is what the server does with the *n*-th send of call *c*. The client forgets a send it got no answer to, the server
does not: executions of one call overlap, and a POST still on the wire is carried out after the caller gave up. `request` holds the
arguments, the same for every send, because `_call` resends the payload as it is.

### SemanticCache

Redis commands are atomic, nothing else is. A SCAN returns any live keys and, when its cursor is back at 0, has returned every
key that was there from first to last, which is what Redis guarantees. `LookupReads` is one HGETALL with the comparison that follows it;
`AfterBatch` is the loop's exit test, made only between batches, as in the code. `store` is an HSET and an EXPIRE; when its caller dies in between, the
entry keeps no TTL. An embedding is a point on a line and a worker: `_fake_embed` seeds a generator with `hash(text)`,
which each process salts for itself, so that entries of the other worker are never similar. `held` and `kept` are history: the entries that
were live during a lookup, and the keys that were live all the while. `CacheContract` is stated apart: `SupportApi` treats its cache as such a set, and
`ContractSpec` says that the implementation keeps the promise.

### VisionService

`_model` is represented by the probabilities it gives one photo. `EntersLock` is the second test of `_model`, under the lock. A
cancelled caller leaves `async with`, which releases the lock while its thread goes on; nobody takes that thread's result. `Verdict` has
the six classes, their severities and both comparisons of the source; `max` takes the first of equals.

### PiiSanitizer

A text is a sequence of cells, letters or secrets that a regular expression recognises; redaction marks cells in place, so that what
became of every cell can be told. Which spans are entities is spaCy's choice, that is, any set of disjoint spans. Entities are replaced longest first and everywhere
in the text, as `str.replace` does: `Replaced` tells for each occurrence, from the left, whether it is replaced or begins inside one that is. Entities
of one length keep their order, as in Python's stable sort. Payloads are nested dicts and lists. The loops and the recursion of the code are recursive
functions over the length of a number, the entities of a text and the values of a payload, so that they can be proved about. `sanitizer` holds
the one call of a behaviour, its argument and its result.

## 3. Runs

| Run | Shows |
|---|---|
| `AgentGraph_turns` | type invariant; `RetryDiscipline`, `OneCallPerResume`, `ResultBelongsToTurn` under overlapping turns and resumptions; the cycle through the critic only turns with calls a reviewer let pass (`LoopBacksNeedCalls`); every run ends (`RunsTerminate`) |
| `SupportApi_gate` | every call is backed by a committed approval of its thread; the API implements `AgentGraph` and `ApprovalGate` |
| `SupportApi_turns` | type invariant; `CachedReplyWasAudited`; a turn is reported complete without a reply exactly when it stands at the interrupt (`SilentTurnIsPaused`); chat turns and decisions are answered or end in an error |
| `SupportApi_double_decision` | the finding of section 5 |
| `McpClient_calls` | `OneExchange` (the lock keeps exchanges apart as long as nobody gave up), `ExecutionsBounded`; start-up ends and every call returns or raises, whatever servers do, unless a caller hangs for ever in `drain()` or `stderr.read()`, and then only the callers of its server and the start-up are held up (`CallsTerminate`) |
| `ToolChain_calls` | a call is paid at most as often as it was sent, late executions included, and what the caller is told agrees with what was paid (`PaymentsBounded`); what it is told of a cancellation is final (`CancelAnswerIsFinal`) |
| `ProactiveSLA_loop` | type invariant; `NotFlooded`; a failing sink cannot starve the other approvals (`NobodyStarves`) |
| `OrderTools_jobs` | type invariant; a reply stays true (`ReplyTellsEffect`); nothing is mutated that the rules never let pass during the execution (`MutatedOnlyIfAllowed`) |
| `SemanticCache_clients` | type invariant; a complete scan gives the best of what stayed live (`BestOfLive`); lookup and store implement `CacheContract` (`ContractSpec`); lookups end and entries go away (`CacheTurnsOver`) |
| `KnowledgeBase_query` | type invariant; concurrent ingests keep the two indexes on one version (`IndexesAgree`); an answer is the top of the fused ranking in the order of its final scores (`AnswerIsBest`) |
| `VisionService_calls` | type invariant; one model judges all calls (`OneModel`); what needs no review leaves at most 1 - threshold to a broken or incomplete product, on ties too (`SevereIsReviewed`); every call ends (`CallsEnd`) |
| `PiiSanitizer_texts` | the Luhn test is Luhn's for even and odd lengths and finds any wrong digit (`LuhnIsStandard`); no letter of a recognised entity is left unless entity texts can cross (`EntitiesRedacted`); the copy of a payload has its shape, and every string is sanitised that is not in a dict or list inside a list, where the docstring's promise is left open (`PayloadSanitized`) |

**Bounds.** *AgentGraph*: one thread (threads share nothing in this module), two turns and two
resumptions: enough for a turn to supersede an interrupted one, for two runs to race on a checkpoint,
and for a retry to be resumed and given up at `MaxAttempts = 2`. *SupportApi*: two turns and one decision on one thread, so that the second turn can hit
the cache; one turn and two decisions on two threads with two rows for the gate, so that an approval could reach
the wrong thread. *McpClient*: two callers of one tool, which either of a stdio and an HTTP server may list, and the real limit of three sends; a frame
left by one caller, or by the start-up, can meet the other, across a restart of the server. Calls of different tools differ only in their server.
*ProactiveSLA*: two approvals; all constants are the smallest at which the cooldown spans several sweeps. *OrderTools*: three executions of one order
(orders share nothing) and amounts of nothing, at and above the threshold: two executions can race with each other and with the
warehouse while a third fails. *KnowledgeBase*: three chunk ids, three ingests, scores 0 and 1 and over-fetching by two (`Overfetch`; the
code's factor is three): enough for a known id to be ingested again, for ties, and for candidates beyond `top_k` that the reranker prefers.
*ToolChain*: one call with the real three sends, so that three executions of it overlap; calls of different callers meet in `OrderTools_jobs`.
*SemanticCache*: two entries of either worker around the threshold against one caller (lookups only read), a candidate limit of one and scans of up to two batches, so
that a scan can be cut short and an entry stored, overwritten or dropped between any two commands. *VisionService*: three calls, two of which
can wait behind a load, and probabilities in quarters, so that one lies on the threshold and classes tie. *PiiSanitizer*: texts of up to five cells (a name in a name, two
names that cross), payloads of three levels, and the 12- to 14-digit numbers with at most two digits other than 0 (each digit adds to the Luhn sum by itself). Ids
are used once, so these systems stop when all ids are used and deadlock is not checked; the SLA agent
never stops and its deadlock check is on.

**Fairness.** Each run, request and call gets weak fairness of its own progress: asyncio schedules every
ready task, and awaits are bounded by a client's timeout (15 s for `readline`; httpx bounds each read, and a server that drips a
response for ever is left out). The exceptions are `drain()` and `stderr.read()` of the stdio transport: `McpClient` has no fairness for
them while the child neither reads nor exits. `AgentGraph` and `SupportApi` take MCP calls to end, as `main.py` configures HTTP servers only.
Users, reviewers, tool servers and failures owe nothing. For the SLA agent the clock and the loop are fair,
from some moment on the select answers, and the sink returns or raises, either way and each time: the only one that `main.py` wires in,
`default_notify_sink`, writes a log line. For the cache, Redis answers and drops what has expired; for
the vision service, threads end and the lock is passed on. `NobodyStarves`
depends on the cooldown outlasting the sweeps that fail: with two rows and one tick per poll it fails at a
cooldown of two ticks. The configured 15 minutes and 60 s leave room for about fifteen failing rows.

## 4. Proofs

TLAPS checks the following for every value of the constants that satisfies the module's assumption. Unless marked
as a refinement or an action property, a theorem has the form `Spec => []P`. Each module proves one inductive invariant `IInv`
(theorem `Invariance`) with one lemma per action, and gets the others from it.

| Module | Theorems | Assumption |
|---|---|---|
| `AgentGraphProofs` | `TypeOK`, `OneCallPerResume`, `RetryDiscipline`, `ResultBelongsToTurn`, `LoopBacksNeedCalls` | `GraphAssumption` |
| `SupportApiProofs` | `TypeOK`, `CallsBackedByApprovals`, `CachedReplyWasAudited`, `SilentTurnIsPaused`; refinements `GraphSpec`, `GateSpec` | `ApiAssumption` |
| `McpClientProofs` | `TypeOK`, `OneExchange`, `ExecutionsBounded` | `McpAssumption` |
| `ProactiveSLAProofs` | `TypeOK`; action property `NotFlooded` | `SlaAssumption` |
| `OrderToolsProofs` | `TypeOK`, `ReplyTellsEffect`, `MutatedOnlyIfAllowed` | `ToolsAssumption` |
| `OrderToolsProofs`, of `ChainSpec` | `PaymentsBounded`, `CancelAnswerIsFinal`; refinements `Spec` of `OrderTools`, `[][Next]_vars` of `McpClient` | `ToolsAssumption`, `ChainAssumption` |
| `SemanticCacheProofs` | `TypeOK`; action property `BestOfLive`; refinement `ContractSpec` | `CacheAssumption` |
| `PhotoAndTextProofs` | `TypeOK`, `OneModel`, `SevereIsReviewed` | `VisionAssumption` |
| `PhotoAndTextProofs`, of `SanitizerSpec` | `LuhnIsStandard`, `EntitiesRedacted`, `PayloadSanitized` | `SanitizerAssumption` |
| `KnowledgeBaseProofs` | `TypeOK`, `IndexesAgree`, `AnswerIsBest` | `KBAssumption` |

The assumptions say that null values are not members of the sets they stand beside and that limits are natural numbers. Why the
properties are not inductive alone, and what is added:

- **AgentGraph.** A checkpoint outlives its run, so what a resumption finds there must be known: `CkptInv` says that each
  checkpoint's state is `Sound` (its retries are counted, and before the end of the graph an attempt is left) and `Justified`
  (its result was obtained for its turn). A run's private copy becomes a checkpoint later, so `RunInv` says the same of running
  invocations, ties the call a run awaits to the pending call and to the history, and lets a run stand before the executor only as
  a resumption that has not called yet. `IdleInv`: a run not started has called nothing. `LoopBacksNeedCalls` needs an invariant of its own, `LoopInv`,
  proved on top of `IInv`: who enters the critic, or waits for a call, has a call that no loop-back has used up.
- **SupportApi.** `SupportApiProofs` instantiates `AgentGraphProofs`: every step of the API is a step of the graph or leaves it alone
  (`GraphRefinement`), so the graph's invariant is available. What is added ties runs to requests: the run of a decision has
  started only after its commit, on the thread of its row, rows keep their threads, and the run of a chat turn never passes the
  executor. `NothingRequiresApproval` shows that `_run_turn`'s approval branch is dead code: no run yields an event for which
  `requires_human_approval` is true. In `GateRefinement` a commit is `Grant` and a tool call is `Invoke`.
- **McpClient.** Executions are bounded by counting: those done, the frames in the pipe of the server a call was routed to, and its
  POSTs on the wire are together at most its sends. So a frame must wait only where its call was routed; lemmas say how
  `Append` and `Tail` change a count. `OneExchange` needs that a dead child process has nothing to read and that a caller in `drain` or
  `stderr.read` is one of a stdio server: it leaves the pipes empty or the process marked as abandoned.
- **ProactiveSLA.** An agent measures the cooldown from the start of a sweep, the property from the delivery. `Lag` bounds the
  difference of the two clocks by the duration of a sweep, also when one of them saturates.
- **OrderTools.** An execution on its way to `mutate_order` was already allowed: the record the rules judged was the store's at its
  lookup. A refund's amount lies on the side of the threshold its branch was chosen for.
- **ToolChain.** `ChainInv` has four parts. `IInv` of `OrderTools` and that of `McpClient` hold because every step of the composition
  is a step of each or leaves it alone (`ChainImplementsTools`, `ChainDrivesClient`). `AnswerInv` speaks of finished executions, about which
  `OrderTools` alone had nothing to promise: the effects that its reply stands for were had, and the order of a cancellation never
  leaves the state that the reply told of. `LinkInv` ties the two: a job that has started, or whose POST is on the wire, is one of the
  sends of its call and has its request, and a call is answered only by an execution that returned. `PaymentsBounded` is then a
  count of the sends; that who is told `pending` was paid by no other send is because all sends of a call have one amount.
- **SemanticCache.** A lookup reads each hash at another moment: the best entry so far was live during the call, and it is at least as
  similar as every key read that stayed live. A key belongs to one query, so its similarity cannot change under a lookup.
- **VisionService.** A load is under way only while its call holds the lock and there is no model. The verdict's lemmas show that `max`
  is defined and that a class that needs no review leaves no more than the rest of the probability to the others.
- **KnowledgeBase.** The types of the indexes; what an ingest appends is the last document of its id and what the sparse index got;
  an indexed id has a first document, so `get` is defined. `AnswerIsBest` rests on lemmas about slices and sorts: the places that the stable sort gives
  (how many elements go before one) are a permutation, since no two elements share one; and a cut of a ranking leaves behind nothing that
  scores better. Any ranking is a bijection sorted by the fused score, so ties may fall in any order.

- **PiiSanitizer.** One call is made, so no invariant needs strengthening; what has to be shown is what recursive functions compute. Each
  is first shown to exist (by induction, the function for *n* extended to *n* + 1) and to satisfy its equation.
  *Luhn:* the sum over the digits from the left is the sum over their reverse, and a sum changed in one digit changes modulo 10, because
  doubling permutes the digits. `AnyNumber` says it of every sequence of digits, of which the model enumerates sparse ones only. *Entities:* a cell that an entity covers is only lost to a later entity when an earlier one was replaced there. If no texts cross, an
  occurrence that meets a replaced one lies inside it, since the earlier text is not shorter; so each entity is either already gone or still has its
  text in place when its turn comes, and the replacements from the left reach it, for it does not cross itself. *Payloads:* induction
  over the steps of a path: the copy below a path is the copy of what is below it until a list is entered, and the value itself after that;
  this says more than `PayloadSanitized`, which asks nothing of what lies in a container inside a list but its shape.

The prover has no induction rule it could apply to a formula. The inductions above name a least counterexample in a set of numbers
(`WFMin`, with `NatLessThanWellFounded`) and derive a contradiction.

Only model-checked is the liveness: `RunsTerminate`, `RequestsTerminate`, `CallsTerminate`, `NobodyStarves`, `CacheTurnsOver` and `CallsEnd`
(fairness and `ENABLED` are out of the prover's reach). Every type invariant, safety invariant, action property and refinement of the passing runs is proved.

## 5. Findings

**Two reviewers can decide one approval** (`SupportApi_double_decision`). `decide_approval` refuses a row that is not pending with
a 409, but the check and the commit are separated by an await, and the commit is not conditional: two requests can both be answered, and
both resume the thread.

Further behaviours the models contain, and no run is spent on:

- *Re-planning has no cap.* `app/agents/graph.py:10` speaks of one, but a success resets `retry_count` (`nodes.py:183`) and the edge
  after verification tests nothing else. What holds is `LoopBacksNeedCalls`.
- *A chat turn is reported complete while it stands at the interrupt* (`graph.py:103-105`), with an empty reply that is audited and
  cached; no approval row is inserted for it. `SilentTurnIsPaused` states exactly when.
- *An approval does not bind a call* (`graph.py:29-30`): the resumed executor plans afresh and may call another gated tool. What holds is
  `CallsBackedByApprovals`.
- *A delivered order can be cancelled* (`order_actions.py:42-43`): the rule tests for the one status `"shipped"`.
- *Retries:* a cancellation whose answer was lost is answered "already cancelled", FAILED, about its own success; a refund may be paid once
  per send; an approved refund above the threshold can never be issued; the executor takes a tool's reply with status `failed` for a
  success.
- *Losses:* a decision committed by a request that then dies is never carried out, and a second attempt is refused; a resumption's
  calls leave no audit row; a cache entry whose EXPIRE was lost stays.
- *A stdio server can hold up its callers for ever:* `drain()` (`client.py:88`) and `stderr.read()` (`client.py:91`) are awaited under the
  lock without a timeout. A child that stops reading, or closes its stdout and lives on, stops the holder, every later caller of that
  server, and a start-up that asks it. `CallsTerminate` makes this its only exception.
- *Stale or foreign data:* a stdio response that arrives after its caller gave up is read by the next caller, and a stdio timeout is not the
  `MCPTransportError` its docstring announces, so it is not retried and stops start-up; a row decided during a sweep is still
  escalated; the critic may judge the result of an earlier call of its turn; `get` shows the first text of a chunk ingested again;
  embeddings called deterministic (`main.py:46`) differ between processes.
- *Sanitizer:* dicts and lists inside lists are passed on as they are (against the docstring, `pii_sanitizer.py:133`); of names whose
  texts cross, letters may be left; planner and critic prompts and the tool result on the call stack (`nodes.py:176`, `224-249`) are not sanitised
  at all, although `README.md:30` says every prompt and record is.
- *Vision:* `requires_manual_review` is computed and acted on by nobody, and the configured threshold is never passed to the service.

## 6. Not modelled, and the plan

Not modelled: schemas and configuration (declarations; limits that matter are constants of the modules), tracing and branding (no state that anything reads),
the evaluation script and the stub server (development aids), prompts and LLM answers (any answer is possible), which text a regular expression or
spaCy recognises, tensor code, the arithmetic of BM25 and of the embeddings, and the read-only endpoints. Three of the five tables in
`models.py` are written by no code.

Four hazards have no property, because the code has no step that would make one true and no document promises it: the
dropped events of a resumption (`main.py:256`), chat messages that the knowledge base refuses (`schemas.py:151`), rows decided during a
sweep (`proactive_agent.py:92`), and the SLA agent's memory across restarts and workers (`proactive_agent.py:57`).

Left of the plan: a composition of `SupportApi` with `ToolChain`, in which the refund that is suspended meets the decision about it.
