------------------------------ MODULE AgentGraph ------------------------------
(***************************************************************************)
(* The LangGraph StateGraph of app/agents: five nodes, the conditional     *)
(* edges between them, the static interrupt before "action_executor" and   *)
(* the checkpoint each thread keeps in Postgres.                           *)
(*                                                                         *)
(* A run is one `graph.astream(...)` invocation.  A Turn run passes a      *)
(* fresh initial_state (app/api/main.py, _run_turn); a Resume run passes   *)
(* None (decide_approval) and continues from the thread's checkpoint.  A   *)
(* run works on its own in-memory copy of the state and overwrites the     *)
(* thread's checkpoint after every node: nothing serialises two runs on    *)
(* one thread.                                                             *)
(***************************************************************************)
EXTENDS Integers, Sequences, FiniteSets

CONSTANTS
    Threads,        \* conversation thread ids
    Turns,          \* ids of astream(initial_state) invocations
    Resumes,        \* ids of astream(None) invocations
    Tools,          \* tool names the planner LLM may answer with
    GatedTools,     \* _HITL_GATED_TOOLS
    NoTool,         \* Python's None where a tool result is expected
    NoTurn,         \* no human message yet
    NoThread,       \* a run that was not started
    MaxAttempts,    \* settings.max_tool_retry_attempts
    VisionEnabled   \* build_graph was given a vision_service

ASSUME GraphAssumption ==
    /\ GatedTools \subseteq Tools
    /\ NoTool \notin Tools
    /\ NoTurn \notin Turns
    /\ NoThread \notin Threads
    /\ Turns \cap Resumes = {}
    /\ MaxAttempts \in Nat \ {0}
    /\ VisionEnabled \in BOOLEAN

VARIABLES
    ckpt,   \* ckpt[t]: latest checkpoint of thread t
    run,    \* run[r]: in-memory side of invocation r
    calls   \* call_tool invocations issued so far, in order

vars == <<ckpt, run, calls>>

Runs == Turns \cup Resumes

Nodes == {"router_supervisor", "visual_inspection", "policy_rag",
          "action_executor", "verification_critic"}

\* Mutant: compiled without the breakpoint.
InterruptBeforeNothing == {}

\* The interrupt_before argument of graph.compile.
InterruptBefore == {"action_executor"}

(***************************************************************************)
(* The channels of AgentState that steer the graph.  tool_call_stack is    *)
(* the only one kept with an appending reducer; messages is kept as its    *)
(* last human message, named by the turn that sent it.                     *)
(***************************************************************************)
CallRecord == [tool : Tools, attempt : 1 .. MaxAttempts,
               status : {"pending", "success", "failed", "retrying"}]

NoCall == [tool |-> NoTool, attempt |-> 0, status |-> "none"]

AgentState ==
    [last_human : Turns \cup {NoTurn},
     image_attached : BOOLEAN,
     tool_call_stack : Seq(CallRecord),
     pending_tool_call : CallRecord \cup {NoCall},
     retry_count : 0 .. MaxAttempts,
     last_tool_result : Tools \cup {NoTool},
     verification_passed : {"none", "pass", "fail"},
     final_response : {"none", "no_action", "done"},
     replans : Nat]  \* history: how often this turn's verification looped back

\* The thread's channels before any checkpoint exists.
EmptyState ==
    [last_human |-> NoTurn, image_attached |-> FALSE, tool_call_stack |-> <<>>,
     pending_tool_call |-> NoCall, retry_count |-> 0, last_tool_result |-> NoTool,
     verification_passed |-> "none", final_response |-> "none", replans |-> 0]

\* Mutant: a queued call survives into the next turn.
InitialStateKeepsPending(u, image, old) ==
    [EmptyState EXCEPT !.last_human = u, !.image_attached = image,
                       !.tool_call_stack = old.tool_call_stack,
                       !.pending_tool_call = old.pending_tool_call]

\* Mutant: user_context is not replaced by the new turn.
InitialStateKeepsResult(u, image, old) ==
    [EmptyState EXCEPT !.last_human = u, !.image_attached = image,
                       !.tool_call_stack = old.tool_call_stack,
                       !.last_tool_result = old.last_tool_result]

\* initial_state of _run_turn merged into the channels a thread already has:
\* everything is overwritten except the appending tool_call_stack.
InitialState(u, image, old) ==
    [EmptyState EXCEPT !.last_human = u, !.image_attached = image,
                       !.tool_call_stack = old.tool_call_stack]

NoRun == [status |-> "idle", thread |-> NoThread, node |-> "END",
          state |-> EmptyState, call |-> NoCall, output |-> "none"]

Init ==
    /\ ckpt = [t \in Threads |-> [state |-> EmptyState, next |-> "absent"]]
    /\ run = [r \in Runs |-> NoRun]
    /\ calls = <<>>

-----------------------------------------------------------------------------
(***************************************************************************)
(* Routing functions and the approval predicate                            *)
(***************************************************************************)
RouteAfterRouter(s) ==
    IF VisionEnabled /\ s.image_attached THEN "visual_inspection" ELSE "policy_rag"

RouteAfterExecutor(s) ==
    IF s.pending_tool_call # NoCall /\ s.retry_count < MaxAttempts
    THEN "action_executor" ELSE "verification_critic"

\* Mutant: a failed verification asks the critic again.
RouteAfterVerificationToCritic(s) ==
    IF s.verification_passed = "fail" /\ s.retry_count < MaxAttempts
    THEN "verification_critic" ELSE "END"

RouteAfterVerification(s) ==
    IF s.verification_passed = "fail" /\ s.retry_count < MaxAttempts
    THEN "action_executor" ELSE "END"

RequiresHumanApproval(s) ==
    /\ s.pending_tool_call.tool \in GatedTools
    /\ s.pending_tool_call.status = "pending"

-----------------------------------------------------------------------------
(***************************************************************************)
(* Starting, finishing and losing a run                                    *)
(***************************************************************************)
Running(r) == run[r].status = "running"

At(r, n) == Running(r) /\ run[r].node = n /\ run[r].call = NoCall

Ended(r, how, out) ==
    [NoRun EXCEPT !.status = how, !.thread = run[r].thread, !.output = out]

\* A node returned: its writes are applied to the channels, the checkpoint is
\* put, and the next node is prepared.  Some channel has changed since the
\* run began, so a node in interrupt_before always stops the run here.
Advance(r, s, n) ==
    /\ ckpt' = [ckpt EXCEPT ![run[r].thread] = [state |-> s, next |-> n]]
    /\ run' = [run EXCEPT ![r] =
                  IF n = "END" THEN Ended(r, "done", s.final_response)
                  ELSE IF n \in InterruptBefore THEN Ended(r, "paused", s.final_response)
                  ELSE [@ EXCEPT !.node = n, !.state = s, !.call = NoCall]]

\* astream(initial_state): a new turn restarts the thread at the router; a
\* task that an earlier run left interrupted is discarded.
StartTurn(r, t, image) ==
    LET s == InitialState(r, image, ckpt[t].state) IN
    /\ r \in Turns
    /\ run[r].status = "idle"
    /\ ckpt' = [ckpt EXCEPT ![t] = [state |-> s, next |-> "router_supervisor"]]
    /\ run' = [run EXCEPT ![r] = [NoRun EXCEPT !.status = "running", !.thread = t,
                                              !.node = "router_supervisor", !.state = s]]
    /\ UNCHANGED calls

\* Mutant: a missing checkpoint is resumed instead of refused.
ResumeUnchecked(r, t) ==
    LET c == ckpt[t] IN
    /\ r \in Resumes
    /\ run[r].status = "idle"
    /\ run' = [run EXCEPT ![r] =
                  [NoRun EXCEPT !.status = "running", !.thread = t,
                                !.node = c.next, !.state = c.state]]
    /\ UNCHANGED <<ckpt, calls>>

\* astream(None): the node the checkpoint stopped at runs without another
\* interrupt; a finished thread has nothing to run, and a thread without a
\* checkpoint makes LangGraph raise EmptyInputError.
Resume(r, t) ==
    LET c == ckpt[t] IN
    /\ r \in Resumes
    /\ run[r].status = "idle"
    /\ run' = [run EXCEPT ![r] =
                  IF c.next = "absent"
                  THEN [NoRun EXCEPT !.status = "failed", !.thread = t]
                  ELSE IF c.next = "END"
                  THEN [NoRun EXCEPT !.status = "done", !.thread = t,
                                     !.output = c.state.final_response]
                  ELSE [NoRun EXCEPT !.status = "running", !.thread = t,
                                     !.node = c.next, !.state = c.state]]
    /\ UNCHANGED <<ckpt, calls>>

\* A node raises, the client disconnects and the generator is closed, or the
\* worker process dies: what the run had not checkpointed is lost.
RunDies(r) ==
    /\ Running(r)
    /\ run' = [run EXCEPT ![r] = Ended(r, "failed", "none")]
    /\ UNCHANGED <<ckpt, calls>>

-----------------------------------------------------------------------------
(***************************************************************************)
(* The nodes                                                               *)
(***************************************************************************)
RouterSupervisor(r) ==
    /\ At(r, "router_supervisor")
    /\ Advance(r, run[r].state, RouteAfterRouter(run[r].state))
    /\ UNCHANGED calls

\* Mutant: the edge out of visual_inspection leads back to the router.
VisualInspectionToRouter(r) ==
    /\ At(r, "visual_inspection")
    /\ Advance(r, run[r].state, "router_supervisor")
    /\ UNCHANGED calls

VisualInspection(r) ==
    /\ At(r, "visual_inspection")
    /\ Advance(r, run[r].state, "policy_rag")
    /\ UNCHANGED calls

PolicyRAG(r) ==
    /\ At(r, "policy_rag")
    /\ Advance(r, run[r].state, "action_executor")
    /\ UNCHANGED calls

\* _plan_tool_call: whatever tool the LLM names.  A call left pending by an
\* earlier attempt is taken up instead of planning.
PlannedCalls(s) ==
    IF s.pending_tool_call # NoCall THEN {s.pending_tool_call}
    ELSE [tool : Tools, attempt : {0}, status : {"pending"}]

\* First half of action_executor_node, up to the await on call_tool.
ExecutorCalls(r) ==
    /\ At(r, "action_executor")
    /\ \E p \in PlannedCalls(run[r].state) :
          LET c == [p EXCEPT !.attempt = @ + 1] IN
          /\ run' = [run EXCEPT ![r].call = c]
          /\ calls' = Append(calls, [run |-> r, thread |-> run[r].thread,
                                     turn |-> run[r].state.last_human,
                                     tool |-> c.tool, attempt |-> c.attempt])
    /\ UNCHANGED ckpt

InCall(r) == Running(r) /\ run[r].call # NoCall

Recorded(c, how) == [c EXCEPT !.status = how]

\* The three dictionaries the second half of action_executor_node returns,
\* merged into the channels.
Succeeded(s, c) ==
    [s EXCEPT !.tool_call_stack = Append(@, Recorded(c, "success")),
              !.pending_tool_call = NoCall,
              !.retry_count = 0,
              !.last_tool_result = c.tool]

Retried(s, c) ==
    [s EXCEPT !.tool_call_stack = Append(@, Recorded(c, "retrying")),
              !.pending_tool_call = Recorded(c, "retrying"),
              !.retry_count = @ + 1]

GivenUp(s, c) ==
    [s EXCEPT !.tool_call_stack = Append(@, Recorded(c, "failed")),
              !.pending_tool_call = NoCall]

ExecutorSucceeds(r) ==
    LET s == Succeeded(run[r].state, run[r].call) IN
    /\ InCall(r)
    /\ Advance(r, s, RouteAfterExecutor(s))
    /\ UNCHANGED calls

ExecutorRetries(r) ==
    LET s == Retried(run[r].state, run[r].call) IN
    /\ InCall(r)
    /\ run[r].call.attempt < MaxAttempts
    /\ Advance(r, s, RouteAfterExecutor(s))
    /\ UNCHANGED calls

ExecutorGivesUp(r) ==
    LET s == GivenUp(run[r].state, run[r].call) IN
    /\ InCall(r)
    /\ run[r].call.attempt >= MaxAttempts
    /\ Advance(r, s, RouteAfterExecutor(s))
    /\ UNCHANGED calls

\* _compose_final_response
FinalResponse(s) == IF s.last_tool_result = NoTool THEN "no_action" ELSE "done"

\* The critic LLM answers PASS or anything else.
VerificationCritic(r) ==
    /\ At(r, "verification_critic")
    /\ \E verdict \in {"pass", "fail"} :
          LET v == [run[r].state EXCEPT
                       !.verification_passed = verdict,
                       !.final_response = IF verdict = "pass"
                                          THEN FinalResponse(run[r].state) ELSE "none"]
              n == RouteAfterVerification(v)
              s == IF n = "END" THEN v ELSE [v EXCEPT !.replans = @ + 1] IN
          Advance(r, s, n)
    /\ UNCHANGED calls

NodeStep(r) ==
    \/ RouterSupervisor(r)
    \/ VisualInspection(r)
    \/ PolicyRAG(r)
    \/ ExecutorCalls(r)
    \/ ExecutorSucceeds(r)
    \/ ExecutorRetries(r)
    \/ ExecutorGivesUp(r)
    \/ VerificationCritic(r)

Next ==
    \/ \E r \in Turns, t \in Threads, image \in BOOLEAN : StartTurn(r, t, image)
    \/ \E r \in Resumes, t \in Threads : Resume(r, t)
    \/ \E r \in Runs : NodeStep(r) \/ RunDies(r)

Spec == Init /\ [][Next]_vars

\* asyncio schedules every ready task, and every await inside a node is bounded
\* by a client timeout (15 s per MCP send, the OpenAI client's own), so a node
\* that was entered returns or raises.
FairSpec == Spec /\ \A r \in Runs : WF_vars(NodeStep(r))

-----------------------------------------------------------------------------
(***************************************************************************)
(* Properties                                                              *)
(***************************************************************************)
RunRecord ==
    [status : {"idle", "running", "paused", "done", "failed"},
     thread : Threads \cup {NoThread},
     node : Nodes \cup {"END"},
     state : AgentState,
     call : CallRecord \cup {NoCall},
     output : {"none", "no_action", "done"}]

TypeOK ==
    /\ ckpt \in [Threads -> [state : AgentState, next : Nodes \cup {"END", "absent"}]]
    /\ run \in [Runs -> RunRecord]
    /\ \A r \in Runs : Running(r) => run[r].thread \in Threads /\ run[r].node \in Nodes
    /\ calls \in Seq([run : Runs, thread : Threads, turn : Turns \cup {NoTurn},
                      tool : Tools, attempt : 1 .. MaxAttempts])

\* The states a later step can still build on.
LiveStates ==
    {ckpt[t].state : t \in Threads} \cup {run[r].state : r \in {q \in Runs : Running(q)}}

\* A record with attempt k > 1 directly follows attempt k - 1 of the same tool.
Chained(stack) ==
    \A i \in DOMAIN stack :
        stack[i].attempt > 1 =>
            /\ i > 1
            /\ stack[i - 1] = [stack[i] EXCEPT !.attempt = @ - 1, !.status = "retrying"]

\* A pending call is the last record of the stack, it failed with attempts left,
\* and retry_count has counted each of its failures.
RetriesCounted(s) ==
    LET stack == s.tool_call_stack
        p == s.pending_tool_call IN
    /\ p # NoCall =>
          /\ stack # <<>> /\ p = stack[Len(stack)]
          /\ p.status = "retrying"
          /\ p.attempt < MaxAttempts /\ p.attempt <= s.retry_count
    /\ Chained(stack)

\* Self-correction (action_executor_node) never loses count of a call's
\* attempts, whatever restarted turns, crashes and runs racing on a thread do.
RetryDiscipline == \A s \in LiveStates : RetriesCounted(s)

\* The interrupt before the executor: a chat turn never invokes a tool by
\* itself, and one resumption invokes at most one, whatever retries, failed
\* verifications and concurrent runs happen on the thread.
OneCallPerResume ==
    /\ \A i \in DOMAIN calls : calls[i].run \in Resumes
    /\ \A i, j \in DOMAIN calls : calls[i].run = calls[j].run => i = j

\* A tool result the critic judges and the reply quotes was obtained for the
\* turn being answered, never for an earlier message on the thread.
ResultBelongsToTurn ==
    \A t \in Threads :
        LET s == ckpt[t].state IN
        s.last_tool_result # NoTool =>
            \E i \in DOMAIN calls :
                /\ calls[i].thread = t
                /\ calls[i].turn = s.last_human
                /\ calls[i].tool = s.last_tool_result

\* Every invocation of the graph ends: at END, at the interrupt, or in an error.
RunsTerminate == \A r \in Runs : Running(r) ~> ~Running(r)

\* The calls of a log that were made on thread t for turn u.
CallsMade(log, t, u) == {i \in DOMAIN log : log[i].thread = t /\ log[i].turn = u}

\* The cycle through the critic: a failed verification sends a turn back to the
\* executor at most once per tool call made for that turn; as each call takes a
\* resumption of its own, only reviewers can keep the cycle going.
LoopBacksNeedCalls ==
    \A t \in Threads :
        LET s == ckpt[t].state IN s.replans <= Cardinality(CallsMade(calls, t, s.last_human))
=============================================================================
