--------------------------- MODULE AgentGraphProofs ---------------------------
(***************************************************************************)
(* The safety invariants of AgentGraph for any number of threads, turns,   *)
(* resumptions and tools and any retry limit.                              *)
(*                                                                         *)
(* The inductive invariant IInv says of every state a later step can build *)
(* on - each thread's checkpoint and each running run's private copy - the *)
(* same three things, so that overwriting a checkpoint with a stale copy,  *)
(* which the code does not prevent, keeps it: the state is Sound for the   *)
(* node that will run on it, its result is Justified by a call of its own  *)
(* turn, and a call in flight continues what the state has pending.        *)
(***************************************************************************)
EXTENDS AgentGraph, FiniteSetTheorems, SequenceTheorems, TLAPS

\* What the node n may rely on when it is entered with channels s.
Sound(s, n) ==
    /\ s \in AgentState
    /\ RetriesCounted(s)
    /\ n \notin {"verification_critic", "END"} => s.retry_count < MaxAttempts

\* The log holds a call of tool k, made on thread t for turn u.
CalledFor(log, t, u, k) ==
    \E i \in DOMAIN log : log[i].thread = t /\ log[i].turn = u /\ log[i].tool = k

Justified(log, s, t) ==
    s.last_tool_result # NoTool => CalledFor(log, t, s.last_human, s.last_tool_result)

\* c is the next attempt of what s has pending, or a first attempt.
Continues(s, c) ==
    /\ c \in CallRecord
    /\ IF s.pending_tool_call = NoCall THEN c.attempt = 1
       ELSE c = [s.pending_tool_call EXCEPT !.attempt = @ + 1]

Issued(log, r) == \E i \in DOMAIN log : log[i].run = r

\* The checkpoints.
CkptInv ==
    \A t \in Threads : Sound(ckpt[t].state, ckpt[t].next) /\ Justified(calls, ckpt[t].state, t)

\* A run that is being executed: it may issue a call only as a resumption, and
\* only if it has issued none.
Healthy(R, log, r) ==
    R.status = "running" =>
        /\ R.thread \in Threads /\ R.node \in Nodes
        /\ Sound(R.state, R.node)
        /\ Justified(log, R.state, R.thread)
        /\ R.call # NoCall =>
              /\ R.node = "action_executor"
              /\ Continues(R.state, R.call)
              /\ CalledFor(log, R.thread, R.state.last_human, R.call.tool)
        /\ R.node = "action_executor" /\ R.call = NoCall =>
              r \in Resumes /\ ~Issued(log, r)

RunInv == \A r \in Runs : Healthy(run[r], calls, r)

\* A run that was not started has issued nothing.
IdleInv == \A r \in Runs : run[r].status = "idle" => ~Issued(calls, r)

IInv == TypeOK /\ CkptInv /\ RunInv /\ IdleInv /\ OneCallPerResume

-----------------------------------------------------------------------------
(***************************************************************************)
(* Facts about states                                                      *)
(***************************************************************************)
CallLog == Seq([run : Runs, thread : Threads, turn : Turns \cup {NoTurn},
                tool : Tools, attempt : 1 .. MaxAttempts])

\* The null call is not a call.
LEMMA NoCallIsNoCall == NoCall \notin CallRecord
  BY GraphAssumption DEF NoCall, CallRecord

\* A thread without checkpoints is in order.
LEMMA EmptyIsSound ==
    /\ \A n : Sound(EmptyState, n)
    /\ \A log, t : Justified(log, EmptyState, t)
<1>1. EmptyState \in AgentState
  BY GraphAssumption DEF EmptyState, AgentState, NoCall
<1>2. RetriesCounted(EmptyState)
  BY DEF EmptyState, RetriesCounted, Chained
<1>3. EmptyState.retry_count < MaxAttempts
  BY GraphAssumption DEF EmptyState
<1>4. EmptyState.last_tool_result = NoTool
  BY DEF EmptyState
<1> QED
  BY <1>1, <1>2, <1>3, <1>4 DEF Sound, Justified

\* initial_state of _run_turn restarts every count but the appended stack.
LEMMA InitialIsSound ==
    ASSUME NEW old \in AgentState, RetriesCounted(old),
           NEW u \in Turns, NEW image \in BOOLEAN
    PROVE  LET s == InitialState(u, image, old) IN
           Sound(s, "router_supervisor") /\ s.last_tool_result = NoTool
<1> DEFINE s == InitialState(u, image, old)
<1>1. /\ s.tool_call_stack = old.tool_call_stack
      /\ s.pending_tool_call = NoCall
      /\ s.retry_count = 0
      /\ s.last_tool_result = NoTool
  BY DEF InitialState, EmptyState
<1>2. s \in AgentState
  <2>1. EmptyState \in AgentState /\ old.tool_call_stack \in Seq(CallRecord)
    BY EmptyIsSound DEF Sound, AgentState
  <2> QED
    BY <2>1 DEF InitialState, AgentState
<1>3. RetriesCounted(s)
  BY <1>1 DEF RetriesCounted
<1> QED
  BY <1>1, <1>2, <1>3, GraphAssumption DEF Sound

\* The record of a retried attempt is found again from that of the next one.
LEMMA PreviousAttempt ==
    ASSUME NEW p \in CallRecord, p.status = "retrying", NEW how
    PROVE  p = [[[p EXCEPT !.attempt = @ + 1] EXCEPT !.status = how]
                  EXCEPT !.attempt = @ - 1, !.status = "retrying"]
<1>1. p.attempt \in Int /\ (p.attempt + 1) - 1 = p.attempt
  BY GraphAssumption DEF CallRecord
<1>2. p = [tool |-> p.tool, attempt |-> p.attempt, status |-> p.status]
  BY DEF CallRecord
<1> QED
  BY <1>1, <1>2

\* The record of an attempt goes on top of the stack without breaking the chain.
LEMMA StackGrows ==
    ASSUME NEW s \in AgentState, RetriesCounted(s),
           NEW c, Continues(s, c), NEW how \in {"success", "failed", "retrying"}
    PROVE  LET stack == Append(s.tool_call_stack, Recorded(c, how)) IN
           /\ stack \in Seq(CallRecord)
           /\ stack # <<>> /\ stack[Len(stack)] = Recorded(c, how)
           /\ Chained(stack)
<1> DEFINE old == s.tool_call_stack
           rec == Recorded(c, how)
           stack == Append(old, rec)
           p == s.pending_tool_call
<1>1. old \in Seq(CallRecord) /\ c \in CallRecord /\ rec \in CallRecord
  BY DEF AgentState, Continues, CallRecord, Recorded
<1>2. /\ stack \in Seq(CallRecord) /\ Len(stack) = Len(old) + 1
      /\ stack # <<>> /\ stack[Len(stack)] = rec
  BY <1>1
<1>3. ASSUME NEW i \in DOMAIN stack, stack[i].attempt > 1
      PROVE  i > 1 /\ stack[i - 1] = [stack[i] EXCEPT !.attempt = @ - 1,
                                                      !.status = "retrying"]
  <2>1. CASE i \in DOMAIN old
    <3>1. stack[i] = old[i] /\ i \in 1 .. Len(old)
      BY <2>1, <1>1
    <3>2. i > 1 /\ old[i - 1] = [old[i] EXCEPT !.attempt = @ - 1, !.status = "retrying"]
      BY <2>1, <3>1, <1>3 DEF RetriesCounted, Chained
    <3>3. stack[i - 1] = old[i - 1]
      BY <3>1, <3>2, <1>1
    <3> QED
      BY <3>1, <3>2, <3>3
  <2>2. CASE i \notin DOMAIN old
    <3>1. i = Len(old) + 1 /\ stack[i] = rec
      BY <2>2, <1>1, <1>2
    <3>2. rec.attempt = c.attempt
      BY <1>1 DEF CallRecord, Recorded
    <3>3. p # NoCall /\ c = [p EXCEPT !.attempt = @ + 1]
      BY <3>1, <3>2, <1>3 DEF Continues
    <3>4. old # <<>> /\ p = old[Len(old)] /\ p.status = "retrying" /\ p \in CallRecord
      BY <3>3 DEF RetriesCounted, AgentState
    <3>5. Len(old) \in 1 .. Len(old) /\ stack[Len(old)] = p
      BY <3>4, <1>1
    <3>6. p = [rec EXCEPT !.attempt = @ - 1, !.status = "retrying"]
      BY <3>3, <3>4, PreviousAttempt DEF Recorded
    <3>7. i > 1 /\ i - 1 = Len(old)
      BY <1>1, <3>1, <3>5
    <3> HIDE DEF rec, stack, p
    <3> QED
      BY <3>1, <3>5, <3>6, <3>7
  <2> QED
    BY <2>1, <2>2
<1> HIDE DEF stack
<1>4. Chained(stack)
  BY <1>3 DEF Chained
<1> QED
  BY <1>2, <1>4 DEF stack

\* Each way the executor returns leaves the channels in order for the node that
\* _route_after_executor picks.
LEMMA ExecutorIsSound ==
    ASSUME NEW s \in AgentState, RetriesCounted(s), s.retry_count < MaxAttempts,
           NEW c, Continues(s, c),
           NEW v, \/ v = Succeeded(s, c)
                  \/ c.attempt < MaxAttempts /\ v = Retried(s, c)
                  \/ v = GivenUp(s, c)
    PROVE  Sound(v, RouteAfterExecutor(v))
<1>1. /\ c \in CallRecord /\ c.tool \in Tools /\ c.attempt \in Int /\ c.attempt >= 1
      /\ s.retry_count \in Int /\ s.retry_count >= 0 /\ MaxAttempts \in Int
  BY GraphAssumption DEF Continues, CallRecord, AgentState
<1>2. c.attempt <= s.retry_count + 1
  <2>1. CASE s.pending_tool_call = NoCall
    BY <1>1, <2>1 DEF Continues
  <2>2. CASE s.pending_tool_call # NoCall
    <3>1. /\ s.pending_tool_call \in CallRecord
          /\ s.pending_tool_call.attempt <= s.retry_count
      BY <2>2 DEF RetriesCounted, AgentState
    <3>2. c.attempt = s.pending_tool_call.attempt + 1
      BY <2>2, <3>1 DEF Continues, CallRecord
    <3>3. s.pending_tool_call.attempt \in Int
      BY <3>1, GraphAssumption DEF CallRecord
    <3> QED
      BY <1>1, <3>1, <3>2, <3>3
  <2> QED
    BY <2>1, <2>2
<1>3. ASSUME NEW how \in {"success", "failed", "retrying"}
      PROVE  /\ Append(s.tool_call_stack, Recorded(c, how)) \in Seq(CallRecord)
             /\ Append(s.tool_call_stack, Recorded(c, how)) # <<>>
             /\ Chained(Append(s.tool_call_stack, Recorded(c, how)))
  BY StackGrows
<1>4. Recorded(c, "retrying") \in CallRecord
  BY <1>1 DEF Recorded, CallRecord
<1>5. v \in AgentState
  <2>1. CASE v = Succeeded(s, c)
    <3>1. 0 \in 0 .. MaxAttempts
      BY GraphAssumption
    <3> QED
      BY <1>1, <1>3, <2>1, <3>1 DEF Succeeded, AgentState
  <2>2. CASE v = Retried(s, c)
    <3>1. s.retry_count + 1 \in 0 .. MaxAttempts
      BY <1>1
    <3> QED
      BY <1>3, <1>4, <2>2, <3>1 DEF Retried, AgentState
  <2>3. CASE v = GivenUp(s, c)
    BY <1>3, <2>3 DEF GivenUp, AgentState
  <2> QED
    BY <2>1, <2>2, <2>3
<1>6. RetriesCounted(v)
  <2>1. CASE v = Succeeded(s, c)
    BY <1>3, <2>1 DEF Succeeded, RetriesCounted, AgentState
  <2>2. CASE c.attempt < MaxAttempts /\ v = Retried(s, c)
    <3> DEFINE f == Recorded(c, "retrying")
               stack == Append(s.tool_call_stack, f)
    <3>1. /\ v.tool_call_stack = stack /\ v.pending_tool_call = f
          /\ v.retry_count = s.retry_count + 1
      BY <2>2 DEF Retried, AgentState
    <3>2. f.attempt = c.attempt /\ f.status = "retrying"
      BY <1>1 DEF Recorded, CallRecord
    <3>3. stack # <<>> /\ stack[Len(stack)] = f /\ Chained(stack)
      BY StackGrows
    <3> HIDE DEF stack, f
    <3> QED
      BY <1>2, <2>2, <3>1, <3>2, <3>3 DEF RetriesCounted
  <2>3. CASE v = GivenUp(s, c)
    BY <1>3, <2>3 DEF GivenUp, RetriesCounted, AgentState
  <2> QED
    BY <2>1, <2>2, <2>3
<1> QED
  BY <1>5, <1>6 DEF Sound, RouteAfterExecutor

\* What the log says of a thread or a run stays said.
LEMMA LogGrows ==
    ASSUME NEW log \in CallLog, NEW x,
           x \in [run : Runs, thread : Threads, turn : Turns \cup {NoTurn},
                  tool : Tools, attempt : 1 .. MaxAttempts]
    PROVE  /\ Append(log, x) \in CallLog
           /\ \A t, u, k : CalledFor(log, t, u, k) => CalledFor(Append(log, x), t, u, k)
           /\ CalledFor(Append(log, x), x.thread, x.turn, x.tool)
           /\ \A r : Issued(Append(log, x), r) => Issued(log, r) \/ r = x.run
           /\ \A s, t : Justified(log, s, t) => Justified(Append(log, x), s, t)
<1> DEFINE new == Append(log, x)
<1>1. /\ new \in CallLog
      /\ DOMAIN log = 1 .. Len(log) /\ Len(log) \in Nat
      /\ DOMAIN new = 1 .. (Len(log) + 1)
      /\ new[Len(log) + 1] = x
      /\ \A i \in DOMAIN log : new[i] = log[i]
  BY DEF CallLog
<1>2. /\ DOMAIN new = DOMAIN log \cup {Len(log) + 1}
  BY <1>1
<1> HIDE DEF new
<1>3. \A t, u, k : CalledFor(log, t, u, k) => CalledFor(new, t, u, k)
  BY <1>1, <1>2 DEF CalledFor
<1>4. CalledFor(new, x.thread, x.turn, x.tool)
  BY <1>1, <1>2 DEF CalledFor
<1>5. \A r : Issued(new, r) => Issued(log, r) \/ r = x.run
  BY <1>1, <1>2 DEF Issued
<1>6. \A s, t : Justified(log, s, t) => Justified(new, s, t)
  BY <1>3 DEF Justified
<1> QED
  BY <1>1, <1>3, <1>4, <1>5, <1>6 DEF new

-----------------------------------------------------------------------------
(***************************************************************************)
(* Steps                                                                   *)
(***************************************************************************)
\* A run that is not being executed is in order whatever else happens.
LEMMA StoppedIsHealthy ==
    ASSUME NEW R, R.status # "running", NEW log, NEW r
    PROVE  Healthy(R, log, r)
  BY DEF Healthy

\* The records StartTurn, Resume, Advance and RunDies build.
LEMMA RunningRecord ==
    ASSUME NEW t \in Threads, NEW n \in Nodes, NEW s \in AgentState
    PROVE  [NoRun EXCEPT !.status = "running", !.thread = t, !.node = n, !.state = s]
             \in RunRecord
  BY EmptyIsSound DEF NoRun, RunRecord, Sound

LEMMA StoppedRecord ==
    ASSUME NEW t \in Threads, NEW how \in {"paused", "done", "failed"},
           NEW out \in {"none", "no_action", "done"}
    PROVE  /\ [NoRun EXCEPT !.status = how, !.thread = t, !.output = out] \in RunRecord
           /\ [NoRun EXCEPT !.status = how, !.thread = t] \in RunRecord
  BY EmptyIsSound DEF NoRun, RunRecord, Sound

\* Applying a node's writes keeps the invariant if the writes are in order for
\* the next node; this is where the interrupt before the executor is needed.
LEMMA AdvanceKeeps ==
    ASSUME IInv, NEW r \in Runs, Running(r),
           NEW s, NEW n \in Nodes \cup {"END"}, Sound(s, n),
           Justified(calls, s, run[r].thread),
           Advance(r, s, n), UNCHANGED calls
    PROVE  IInv'
<1> DEFINE t == run[r].thread
<1>1. t \in Threads /\ s \in AgentState /\ s.final_response \in {"none", "no_action", "done"}
  BY DEF IInv, RunInv, Healthy, Running, Sound, AgentState
<1>2. run[r] \in RunRecord /\ run[r].status = "running"
  BY DEF IInv, TypeOK, Running
<1>3. /\ ckpt' = [ckpt EXCEPT ![t] = [state |-> s, next |-> n]]
      /\ ckpt' \in [Threads -> [state : AgentState, next : Nodes \cup {"END", "absent"}]]
  BY <1>1 DEF IInv, TypeOK, Advance
<1>4. CkptInv'
  <2>1. ASSUME NEW u \in Threads
        PROVE  Sound(ckpt'[u].state, ckpt'[u].next) /\ Justified(calls, ckpt'[u].state, u)
    <3>1. CASE u = t
      BY <1>1, <1>3, <3>1 DEF IInv, TypeOK
    <3>2. CASE u # t
      BY <1>1, <1>3, <3>2 DEF IInv, TypeOK, CkptInv
    <3> QED
      BY <3>1, <3>2
  <2> QED
    BY <2>1 DEF CkptInv
<1>5. /\ run' = [run EXCEPT ![r] = run'[r]]
      /\ \/ run'[r] \in RunRecord /\ run'[r].status \in {"paused", "done"}
         \/ /\ n \notin {"END", "action_executor"}
            /\ run'[r] = [run[r] EXCEPT !.node = n, !.state = s, !.call = NoCall]
  <2>1. CASE n = "END" \/ n \in InterruptBefore
    <3>1. PICK how \in {"paused", "done"} :
             run' = [run EXCEPT ![r] = Ended(r, how, s.final_response)]
      BY <2>1 DEF Advance
    <3>2. Ended(r, how, s.final_response) \in RunRecord
      BY <1>1, StoppedRecord DEF Ended
    <3>3. Ended(r, how, s.final_response).status = how
      BY DEF Ended, NoRun
    <3> QED
      BY <3>1, <3>2, <3>3 DEF IInv, TypeOK
  <2>2. CASE n # "END" /\ n \notin InterruptBefore
    BY <2>2 DEF Advance, IInv, TypeOK, InterruptBefore
  <2> QED
    BY <2>1, <2>2
<1>6. /\ run'[r] \in RunRecord /\ Healthy(run'[r], calls, r)
      /\ run'[r].status # "idle"
      /\ run'[r].status = "running" => run'[r].thread \in Threads /\ run'[r].node \in Nodes
  <2>1. CASE run'[r] \in RunRecord /\ run'[r].status \in {"paused", "done"}
    BY <2>1, StoppedIsHealthy
  <2>2. CASE /\ n \notin {"END", "action_executor"}
             /\ run'[r] = [run[r] EXCEPT !.node = n, !.state = s, !.call = NoCall]
    <3>1. /\ run'[r].status = "running" /\ run'[r].thread = t /\ run'[r].node = n
          /\ run'[r].state = s /\ run'[r].call = NoCall /\ run'[r] \in RunRecord
      BY <1>1, <1>2, <2>2 DEF RunRecord
    <3> QED
      BY <1>1, <2>2, <3>1 DEF Healthy
  <2> QED
    BY <1>5, <2>1, <2>2
<1>7. run' \in [Runs -> RunRecord] /\ \A q \in Runs : q # r => run'[q] = run[q]
  BY <1>5, <1>6 DEF IInv, TypeOK
<1>8. TypeOK'
  BY <1>3, <1>6, <1>7 DEF IInv, TypeOK, Running
<1>9. RunInv' /\ IdleInv'
  BY <1>6, <1>7 DEF IInv, RunInv, IdleInv
<1>10. OneCallPerResume'
  BY DEF IInv, OneCallPerResume
<1> QED
  BY <1>4, <1>8, <1>9, <1>10 DEF IInv

\* A step of a run that touches neither the checkpoints nor the log.
LEMMA RunStepKeeps ==
    ASSUME IInv, NEW r \in Runs, NEW R \in RunRecord,
           run' = [run EXCEPT ![r] = R], UNCHANGED <<ckpt, calls>>,
           Healthy(R, calls, r), R.status # "idle",
           R.status = "running" => R.thread \in Threads /\ R.node \in Nodes
    PROVE  IInv'
<1>1. /\ run' \in [Runs -> RunRecord] /\ run'[r] = R
      /\ \A q \in Runs : q # r => run'[q] = run[q]
  BY DEF IInv, TypeOK
<1>2. TypeOK'
  BY <1>1 DEF IInv, TypeOK, Running
<1>3. CkptInv' /\ OneCallPerResume'
  BY DEF IInv, CkptInv, OneCallPerResume
<1>4. RunInv' /\ IdleInv'
  BY <1>1 DEF IInv, RunInv, IdleInv
<1> QED
  BY <1>2, <1>3, <1>4 DEF IInv

\* The invariant holds initially.
LEMMA InitKeeps == Init => IInv
<1> SUFFICES ASSUME Init PROVE IInv
  OBVIOUS
<1>1. NoRun \in RunRecord /\ NoRun.status = "idle"
  BY EmptyIsSound DEF NoRun, RunRecord, Sound
<1>2. TypeOK
  BY <1>1, EmptyIsSound DEF Init, TypeOK, Running, Sound
<1>3. CkptInv
  BY EmptyIsSound DEF Init, CkptInv
<1>4. RunInv
  BY <1>1, StoppedIsHealthy DEF Init, RunInv
<1>5. IdleInv /\ OneCallPerResume
  BY DEF Init, IdleInv, Issued, OneCallPerResume
<1> QED
  BY <1>2, <1>3, <1>4, <1>5 DEF IInv

\* astream(initial_state).
LEMMA StartTurnKeeps ==
    ASSUME IInv, NEW r \in Turns, NEW t \in Threads, NEW image \in BOOLEAN,
           StartTurn(r, t, image)
    PROVE  IInv'
<1> DEFINE s == InitialState(r, image, ckpt[t].state)
           R == [NoRun EXCEPT !.status = "running", !.thread = t,
                              !.node = "router_supervisor", !.state = s]
<1>1. Sound(s, "router_supervisor") /\ s.last_tool_result = NoTool
  BY InitialIsSound DEF IInv, CkptInv, Sound
<1>2. s \in AgentState /\ (\A log, u : Justified(log, s, u))
  BY <1>1 DEF Sound, Justified
<1>3. /\ ckpt' = [ckpt EXCEPT ![t] = [state |-> s, next |-> "router_supervisor"]]
      /\ run' = [run EXCEPT ![r] = R] /\ calls' = calls
  BY DEF StartTurn
<1> HIDE DEF s
<1>4. R \in RunRecord
  BY <1>2, RunningRecord DEF Nodes
<1>5. /\ R.status = "running" /\ R.thread = t /\ R.node = "router_supervisor"
      /\ R.state = s /\ R.call = NoCall
  BY DEF NoRun
<1>6. Healthy(R, calls, r)
  BY <1>1, <1>2, <1>5 DEF Healthy, Nodes
<1> HIDE DEF R
<1>7. /\ run' \in [Runs -> RunRecord] /\ run'[r] = R
      /\ \A q \in Runs : q # r => run'[q] = run[q]
  BY <1>3, <1>4 DEF IInv, TypeOK, Runs
<1>8. /\ ckpt' \in [Threads -> [state : AgentState, next : Nodes \cup {"END", "absent"}]]
      /\ ckpt'[t].state = s /\ ckpt'[t].next = "router_supervisor"
      /\ \A u \in Threads : u # t => ckpt'[u] = ckpt[u]
  BY <1>2, <1>3 DEF IInv, TypeOK, Nodes
<1>9. TypeOK'
  BY <1>3, <1>5, <1>7, <1>8 DEF IInv, TypeOK, Running, Nodes
<1>10. CkptInv'
  BY <1>1, <1>2, <1>3, <1>8 DEF IInv, CkptInv
<1>11. RunInv' /\ IdleInv' /\ OneCallPerResume'
  BY <1>3, <1>5, <1>6, <1>7 DEF IInv, RunInv, IdleInv, OneCallPerResume
<1> QED
  BY <1>9, <1>10, <1>11 DEF IInv

\* astream(None).
LEMMA ResumeKeeps ==
    ASSUME IInv, NEW r \in Resumes, NEW t \in Threads, Resume(r, t)
    PROVE  IInv'
<1> DEFINE c == ckpt[t]
<1>1. /\ c.state \in AgentState /\ c.next \in Nodes \cup {"END", "absent"}
      /\ Sound(c.state, c.next) /\ Justified(calls, c.state, t)
      /\ c.state.final_response \in {"none", "no_action", "done"}
      /\ r \in Runs /\ run[r].status = "idle" /\ ~Issued(calls, r)
      /\ UNCHANGED <<ckpt, calls>>
  BY DEF IInv, TypeOK, CkptInv, IdleInv, Resume, Runs, AgentState
<1>2. CASE c.next = "absent"
  <2> DEFINE R == [NoRun EXCEPT !.status = "failed", !.thread = t]
  <2>1. run' = [run EXCEPT ![r] = R] /\ R.status = "failed"
    BY <1>2 DEF Resume, NoRun
  <2>2. R \in RunRecord
    BY <1>1, StoppedRecord
  <2> QED
    BY <1>1, <2>1, <2>2, StoppedIsHealthy, RunStepKeeps
<1>3. CASE c.next = "END"
  <2> DEFINE R == [NoRun EXCEPT !.status = "done", !.thread = t,
                                !.output = c.state.final_response]
  <2>1. run' = [run EXCEPT ![r] = R] /\ R.status = "done"
    BY <1>3 DEF Resume, NoRun
  <2>2. R \in RunRecord
    BY <1>1, StoppedRecord
  <2> QED
    BY <1>1, <2>1, <2>2, StoppedIsHealthy, RunStepKeeps
<1>4. CASE c.next \notin {"absent", "END"}
  <2> DEFINE R == [NoRun EXCEPT !.status = "running", !.thread = t,
                                !.node = c.next, !.state = c.state]
  <2>1. run' = [run EXCEPT ![r] = R]
    BY <1>4 DEF Resume
  <2>2. R \in RunRecord /\ c.next \in Nodes
    BY <1>1, <1>4, RunningRecord
  <2>3. /\ R.status = "running" /\ R.thread = t /\ R.node = c.next
        /\ R.state = c.state /\ R.call = NoCall
    BY DEF NoRun
  <2>4. Healthy(R, calls, r)
    BY <1>1, <2>2, <2>3 DEF Healthy
  <2> HIDE DEF R
  <2> QED
    BY <1>1, <2>1, <2>2, <2>3, <2>4, RunStepKeeps
<1> QED
  BY <1>2, <1>3, <1>4

\* A run is lost.
LEMMA RunDiesKeeps ==
    ASSUME IInv, NEW r \in Runs, RunDies(r)
    PROVE  IInv'
<1>1. run[r].thread \in Threads /\ Running(r)
  BY DEF IInv, TypeOK, RunDies
<1>2. Ended(r, "failed", "none") \in RunRecord /\ Ended(r, "failed", "none").status = "failed"
  <2>1. Ended(r, "failed", "none") \in RunRecord
    BY <1>1, StoppedRecord DEF Ended
  <2> QED
    BY <2>1 DEF Ended, NoRun
<1> QED
  BY <1>2, StoppedIsHealthy, RunStepKeeps DEF RunDies

\* router_supervisor, visual_inspection and policy_rag change no channel that
\* the invariant speaks of; verification_critic leaves the retry counts alone.
LEMMA QuietNodeKeeps ==
    ASSUME IInv, NEW r \in Runs,
           RouterSupervisor(r) \/ VisualInspection(r) \/ PolicyRAG(r)
    PROVE  IInv'
<1> DEFINE s == run[r].state
<1>1. PICK n \in Nodes : Advance(r, s, n) /\ UNCHANGED calls
  BY DEF RouterSupervisor, VisualInspection, PolicyRAG, RouteAfterRouter, Nodes
<1>2. /\ Running(r) /\ Sound(s, run[r].node) /\ Justified(calls, s, run[r].thread)
      /\ run[r].node \notin {"verification_critic", "END"}
  BY DEF RouterSupervisor, VisualInspection, PolicyRAG, At, Running, IInv, RunInv, Healthy
<1>3. Sound(s, n)
  BY <1>2 DEF Sound
<1> QED
  BY <1>1, <1>2, <1>3, AdvanceKeeps

LEMMA CriticKeeps ==
    ASSUME IInv, NEW r \in Runs, VerificationCritic(r)
    PROVE  IInv'
<1> DEFINE s == run[r].state
<1>1. /\ Running(r) /\ s \in AgentState /\ RetriesCounted(s)
      /\ Justified(calls, s, run[r].thread) /\ UNCHANGED calls
  BY DEF VerificationCritic, At, Running, IInv, RunInv, Healthy, Sound
<1>2. PICK verdict \in {"pass", "fail"}, final \in {"none", "no_action", "done"} :
         LET v == [s EXCEPT !.verification_passed = verdict, !.final_response = final]
             n == RouteAfterVerification(v) IN
         Advance(r, IF n = "END" THEN v ELSE [v EXCEPT !.replans = @ + 1], n)
  BY DEF VerificationCritic, FinalResponse
<1> DEFINE v == [s EXCEPT !.verification_passed = verdict, !.final_response = final]
           n == RouteAfterVerification(v)
           w == IF n = "END" THEN v ELSE [v EXCEPT !.replans = @ + 1]
<1>3. v \in AgentState /\ w \in AgentState
  <2>1. v \in AgentState
    BY <1>1, <1>2 DEF AgentState
  <2>2. [v EXCEPT !.replans = @ + 1] \in AgentState
    <3> HIDE DEF v
    <3> QED
      BY <2>1 DEF AgentState
  <2> QED
    BY <2>1, <2>2
<1>4. /\ w.tool_call_stack = s.tool_call_stack
      /\ w.pending_tool_call = s.pending_tool_call
      /\ w.retry_count = s.retry_count /\ v.retry_count = s.retry_count
      /\ w.last_tool_result = s.last_tool_result
      /\ w.last_human = s.last_human
  BY <1>1 DEF AgentState
<1>5. n \in Nodes \cup {"END"} /\ (n # "END" => s.retry_count < MaxAttempts)
  BY <1>4 DEF RouteAfterVerification, Nodes
<1> HIDE DEF w, n
<1>6. Sound(w, n)
  BY <1>1, <1>3, <1>4, <1>5 DEF Sound, RetriesCounted
<1>7. Justified(calls, w, run[r].thread)
  BY <1>1, <1>4 DEF Justified
<1>8. Advance(r, w, n)
  BY <1>2 DEF w, n
<1> QED
  BY <1>1, <1>5, <1>6, <1>7, <1>8, AdvanceKeeps

\* The executor issues a call: this run may, and has issued none.
LEMMA ExecutorCallsKeeps ==
    ASSUME IInv, NEW r \in Runs, ExecutorCalls(r)
    PROVE  IInv'
<1> DEFINE s == run[r].state
           t == run[r].thread
<1>1. /\ Running(r) /\ t \in Threads /\ run[r].node = "action_executor" /\ run[r].call = NoCall
      /\ s \in AgentState /\ RetriesCounted(s)
      /\ Sound(s, "action_executor") /\ Justified(calls, s, t)
      /\ r \in Resumes /\ ~Issued(calls, r)
      /\ UNCHANGED ckpt
  BY DEF ExecutorCalls, At, Running, IInv, RunInv, Healthy, Sound
<1>2. PICK p \in PlannedCalls(s) :
         LET c == [p EXCEPT !.attempt = @ + 1] IN
         /\ run' = [run EXCEPT ![r].call = c]
         /\ calls' = Append(calls, [run |-> r, thread |-> t, turn |-> s.last_human,
                                    tool |-> c.tool, attempt |-> c.attempt])
  BY DEF ExecutorCalls
<1> DEFINE c == [p EXCEPT !.attempt = @ + 1]
           x == [run |-> r, thread |-> t, turn |-> s.last_human,
                 tool |-> c.tool, attempt |-> c.attempt]
           R == [run[r] EXCEPT !.call = c]
<1>3. Continues(s, c)
  <2>1. CASE s.pending_tool_call # NoCall
    <3>1. /\ p = s.pending_tool_call /\ p \in CallRecord /\ p.attempt < MaxAttempts
      BY <1>1, <2>1 DEF PlannedCalls, RetriesCounted, AgentState
    <3>2. c \in CallRecord
      BY <3>1, GraphAssumption DEF CallRecord
    <3> QED
      BY <2>1, <3>1, <3>2 DEF Continues
  <2>2. CASE s.pending_tool_call = NoCall
    <3>1. p \in [tool : Tools, attempt : {0}, status : {"pending"}]
      BY <2>2 DEF PlannedCalls
    <3>2. c \in CallRecord /\ c.attempt = 1
      BY <3>1, GraphAssumption DEF CallRecord
    <3> QED
      BY <2>2, <3>2 DEF Continues
  <2> QED
    BY <2>1, <2>2
<1>4. c \in CallRecord /\ c # NoCall
  BY <1>3, NoCallIsNoCall DEF Continues
<1> HIDE DEF c
<1>5. x \in [run : Runs, thread : Threads, turn : Turns \cup {NoTurn},
             tool : Tools, attempt : 1 .. MaxAttempts]
  BY <1>1, <1>4 DEF CallRecord, AgentState
<1>6. calls \in CallLog /\ calls' = Append(calls, x)
  BY <1>2 DEF IInv, TypeOK, CallLog, c
<1>7. /\ calls' \in CallLog
      /\ \A u, v, k : CalledFor(calls, u, v, k) => CalledFor(calls', u, v, k)
      /\ CalledFor(calls', t, s.last_human, c.tool)
      /\ \A q : Issued(calls', q) => Issued(calls, q) \/ q = r
      /\ \A y, u : Justified(calls, y, u) => Justified(calls', y, u)
  BY <1>5, <1>6, LogGrows
<1>8. /\ run[r] \in RunRecord /\ R \in RunRecord
      /\ R.status = "running" /\ R.thread = t /\ R.node = "action_executor"
      /\ R.state = s /\ R.call = c
  BY <1>1, <1>4 DEF IInv, TypeOK, RunRecord, Running
<1>9. run' = [run EXCEPT ![r] = R]
  BY <1>2 DEF c
<1>10. Healthy(R, calls', r)
  BY <1>1, <1>3, <1>4, <1>7, <1>8 DEF Healthy, Nodes
<1> HIDE DEF R, x
<1>11. /\ run' \in [Runs -> RunRecord] /\ run'[r] = R
       /\ \A q \in Runs : q # r => run'[q] = run[q]
  BY <1>8, <1>9 DEF IInv, TypeOK
<1>12. TypeOK'
  BY <1>1, <1>7, <1>8, <1>11 DEF IInv, TypeOK, CallLog, Running, Nodes
<1>13. CkptInv'
  BY <1>1, <1>7 DEF IInv, CkptInv
<1>14. RunInv'
  <2>1. ASSUME NEW q \in Runs, q # r PROVE Healthy(run'[q], calls', q)
    BY <1>7, <1>11, <2>1 DEF IInv, RunInv, Healthy
  <2> QED
    BY <1>10, <1>11, <2>1 DEF RunInv
<1>15. IdleInv'
  BY <1>7, <1>8, <1>11 DEF IInv, IdleInv
<1>16. OneCallPerResume'
  <2>1. /\ DOMAIN calls = 1 .. Len(calls) /\ Len(calls) \in Nat
        /\ DOMAIN calls' = 1 .. (Len(calls) + 1)
        /\ calls'[Len(calls) + 1] = x /\ \A i \in DOMAIN calls : calls'[i] = calls[i]
    BY <1>5, <1>6 DEF CallLog
  <2>2. DOMAIN calls' = DOMAIN calls \cup {Len(calls) + 1}
    BY <2>1
  <2>3. x.run = r /\ \A i \in DOMAIN calls : calls[i].run # r
    BY <1>1 DEF x, Issued
  <2> QED
    BY <1>1, <2>1, <2>2, <2>3 DEF IInv, OneCallPerResume
<1> QED
  BY <1>12, <1>13, <1>14, <1>15, <1>16 DEF IInv

\* The executor returns.
LEMMA ExecutorReturnKeeps ==
    ASSUME IInv, NEW r \in Runs,
           ExecutorSucceeds(r) \/ ExecutorRetries(r) \/ ExecutorGivesUp(r)
    PROVE  IInv'
<1> DEFINE s == run[r].state
           c == run[r].call
           t == run[r].thread
<1>1. /\ Running(r) /\ s \in AgentState /\ RetriesCounted(s) /\ s.retry_count < MaxAttempts
      /\ Continues(s, c) /\ c \in CallRecord
      /\ Justified(calls, s, t) /\ CalledFor(calls, t, s.last_human, c.tool)
      /\ UNCHANGED calls
  BY DEF ExecutorSucceeds, ExecutorRetries, ExecutorGivesUp, InCall, Running,
         IInv, RunInv, Healthy, Sound, Continues
<1>2. PICK v : /\ \/ v = Succeeded(s, c)
                  \/ c.attempt < MaxAttempts /\ v = Retried(s, c)
                  \/ v = GivenUp(s, c)
               /\ Advance(r, v, RouteAfterExecutor(v))
  BY DEF ExecutorSucceeds, ExecutorRetries, ExecutorGivesUp
<1>3. Sound(v, RouteAfterExecutor(v))
  BY <1>1, <1>2, ExecutorIsSound
<1>4. Justified(calls, v, t)
  <2>1. CASE v = Succeeded(s, c)
    <3>1. v.last_tool_result = c.tool /\ v.last_human = s.last_human
      BY <1>1, <2>1 DEF Succeeded, AgentState
    <3> QED
      BY <1>1, <3>1 DEF Justified
  <2>2. CASE v = Retried(s, c) \/ v = GivenUp(s, c)
    <3>1. v.last_tool_result = s.last_tool_result /\ v.last_human = s.last_human
      BY <1>1, <2>2 DEF Retried, GivenUp, AgentState
    <3> QED
      BY <1>1, <3>1 DEF Justified
  <2> QED
    BY <1>2, <2>1, <2>2
<1>5. RouteAfterExecutor(v) \in Nodes \cup {"END"}
  BY DEF RouteAfterExecutor, Nodes
<1> QED
  BY <1>1, <1>2, <1>3, <1>4, <1>5, AdvanceKeeps

-----------------------------------------------------------------------------
(***************************************************************************)
(* Theorems                                                                *)
(***************************************************************************)
\* Every step keeps the invariant.
LEMMA NextKeeps == IInv /\ [Next]_vars => IInv'
<1> SUFFICES ASSUME IInv, [Next]_vars PROVE IInv'
  OBVIOUS
<1>1. CASE \E r \in Turns, t \in Threads, image \in BOOLEAN : StartTurn(r, t, image)
  BY <1>1, StartTurnKeeps
<1>2. CASE \E r \in Resumes, t \in Threads : Resume(r, t)
  BY <1>2, ResumeKeeps
<1>3. ASSUME NEW r \in Runs, NodeStep(r) PROVE IInv'
  <2>1. CASE RouterSupervisor(r) \/ VisualInspection(r) \/ PolicyRAG(r)
    BY <2>1, QuietNodeKeeps
  <2>2. CASE ExecutorCalls(r)
    BY <2>2, ExecutorCallsKeeps
  <2>3. CASE ExecutorSucceeds(r) \/ ExecutorRetries(r) \/ ExecutorGivesUp(r)
    BY <2>3, ExecutorReturnKeeps
  <2>4. CASE VerificationCritic(r)
    BY <2>4, CriticKeeps
  <2> QED
    BY <1>3, <2>1, <2>2, <2>3, <2>4 DEF NodeStep
<1>4. ASSUME NEW r \in Runs, RunDies(r) PROVE IInv'
  BY <1>4, RunDiesKeeps
<1>5. CASE UNCHANGED vars
  BY <1>5 DEF vars, IInv, TypeOK, CkptInv, RunInv, IdleInv, OneCallPerResume, Running
<1> QED
  BY <1>1, <1>2, <1>3, <1>4, <1>5 DEF Next

THEOREM Invariance == Spec => []IInv
  BY InitKeeps, NextKeeps, PTL DEF Spec

\* Types: in particular retry_count and every attempt stay within the
\* configured max_tool_retry_attempts, on any interleaving of runs.
THEOREM TypeCorrectness == Spec => []TypeOK
<1>1. IInv => TypeOK
  BY DEF IInv
<1> QED
  BY <1>1, Invariance, PTL

\* interrupt_before=["action_executor"]: no chat turn calls a tool, and each
\* resumption calls at most one.
THEOREM InterruptTheorem == Spec => []OneCallPerResume
<1>1. IInv => OneCallPerResume
  BY DEF IInv
<1> QED
  BY <1>1, Invariance, PTL

\* The self-correction counters of action_executor_node are never lost.
THEOREM RetryTheorem == Spec => []RetryDiscipline
<1>1. IInv => RetryDiscipline
  BY DEF IInv, CkptInv, RunInv, Healthy, RetryDiscipline, LiveStates, Sound, Running
<1> QED
  BY <1>1, Invariance, PTL

\* A reported tool result belongs to the turn that is answered.
THEOREM ResultTheorem == Spec => []ResultBelongsToTurn
<1>1. IInv => ResultBelongsToTurn
  BY DEF IInv, CkptInv, Justified, CalledFor, ResultBelongsToTurn
<1> QED
  BY <1>1, Invariance, PTL

-----------------------------------------------------------------------------
(***************************************************************************)
(* The cycle through the critic.  Whoever enters the critic, or waits for  *)
(* a call, has a call that no loop-back has used up.                       *)
(***************************************************************************)
Paced(log, s, t, owed) ==
    /\ owed => s.replans < Cardinality(CallsMade(log, t, s.last_human))
    /\ s.replans <= Cardinality(CallsMade(log, t, s.last_human))

\* A run that looks like R.
PacedRun(log, R) ==
    R.status = "running" =>
        Paced(log, R.state, R.thread, R.node = "verification_critic" \/ R.call # NoCall)

LoopInv ==
    /\ \A t \in Threads :
          Paced(calls, ckpt[t].state, t, ckpt[t].next = "verification_critic")
    /\ \A r \in Runs : PacedRun(calls, run[r])

\* The calls made are finitely many; one more is counted for its turn.
LEMMA MadeCount ==
    ASSUME NEW log \in CallLog, NEW t, NEW u
    PROVE  /\ IsFiniteSet(CallsMade(log, t, u))
           /\ Cardinality(CallsMade(log, t, u)) \in Nat
<1>1. DOMAIN log = 1 .. Len(log) /\ Len(log) \in Nat
  BY DEF CallLog
<1>2. IsFiniteSet(1 .. Len(log))
  BY <1>1, FS_Interval
<1>3. CallsMade(log, t, u) \subseteq 1 .. Len(log)
  BY <1>1 DEF CallsMade
<1> QED
  BY <1>2, <1>3, FS_Subset, FS_CardinalityType

LEMMA MadeGrows ==
    ASSUME NEW log \in CallLog, NEW x,
           x \in [run : Runs, thread : Threads, turn : Turns \cup {NoTurn},
                  tool : Tools, attempt : 1 .. MaxAttempts],
           NEW t, NEW u
    PROVE  /\ Cardinality(CallsMade(Append(log, x), t, u)) >= Cardinality(CallsMade(log, t, u))
           /\ x.thread = t /\ x.turn = u =>
                 Cardinality(CallsMade(Append(log, x), t, u))
                     = Cardinality(CallsMade(log, t, u)) + 1
<1> DEFINE new == Append(log, x)
           old == CallsMade(log, t, u)
           last == Len(log) + 1
<1>1. /\ DOMAIN log = 1 .. Len(log) /\ Len(log) \in Nat
      /\ DOMAIN new = 1 .. last
      /\ new[last] = x
      /\ \A i \in DOMAIN log : new[i] = log[i]
  BY DEF CallLog
<1>2. DOMAIN new = DOMAIN log \cup {last} /\ last \notin DOMAIN log
  BY <1>1
<1>3. IsFiniteSet(old) /\ Cardinality(old) \in Nat
  BY MadeCount
<1> HIDE DEF new
<1>4. CASE x.thread = t /\ x.turn = u
  <2>1. CallsMade(new, t, u) = old \cup {last} /\ last \notin old
    BY <1>1, <1>2, <1>4 DEF CallsMade
  <2> HIDE DEF old, last
  <2>2. Cardinality(CallsMade(new, t, u)) = Cardinality(old) + 1
    BY <1>3, <2>1, FS_AddElement
  <2> QED
    BY <1>3, <2>2 DEF new, old
<1>5. CASE ~(x.thread = t /\ x.turn = u)
  <2>1. CallsMade(new, t, u) = old
    BY <1>1, <1>2, <1>5 DEF CallsMade
  <2> HIDE DEF old
  <2> QED
    BY <1>3, <1>5, <2>1 DEF new, old
<1> QED
  BY <1>4, <1>5

\* A longer log paces what a shorter one did.
LEMMA PacedGrows ==
    ASSUME NEW log \in CallLog, NEW x,
           x \in [run : Runs, thread : Threads, turn : Turns \cup {NoTurn},
                  tool : Tools, attempt : 1 .. MaxAttempts],
           NEW s, s.replans \in Nat, NEW t
    PROVE  \A owed \in BOOLEAN : Paced(log, s, t, owed) => Paced(Append(log, x), s, t, owed)
<1>1. /\ Cardinality(CallsMade(log, t, s.last_human)) \in Nat
      /\ Cardinality(CallsMade(Append(log, x), t, s.last_human)) \in Nat
  BY MadeCount, LogGrows
<1>2. Cardinality(CallsMade(Append(log, x), t, s.last_human))
         >= Cardinality(CallsMade(log, t, s.last_human))
  BY MadeGrows
<1> QED
  BY <1>1, <1>2 DEF Paced

\* A turn that has not looped back owes nothing before its critic.
LEMMA FreshIsPaced ==
    ASSUME NEW log \in CallLog, NEW s, s.replans = 0, NEW t
    PROVE  Paced(log, s, t, FALSE)
  BY MadeCount DEF Paced

LEMMA AdvancePaced ==
    ASSUME IInv, LoopInv, NEW r \in Runs, Running(r), NEW s \in AgentState,
           NEW n \in Nodes \cup {"END"},
           Paced(calls, s, run[r].thread, n = "verification_critic"),
           Advance(r, s, n), UNCHANGED calls
    PROVE  LoopInv'
<1>1. PICK t \in Threads : t = run[r].thread
  BY DEF IInv, TypeOK
<1>2. /\ ckpt'[t].state = s /\ ckpt'[t].next = n
      /\ \A u \in Threads \ {t} : ckpt'[u] = ckpt[u]
  BY <1>1 DEF Advance, IInv, TypeOK
<1>3. \A u \in Threads : Paced(calls, ckpt'[u].state, u, ckpt'[u].next = "verification_critic")
  BY <1>1, <1>2 DEF LoopInv
<1>4. \A q \in Runs \ {r} : run'[q] = run[q]
  BY DEF Advance, IInv, TypeOK
<1>5. PacedRun(calls, run'[r])
  <2>1. CASE n = "END" \/ n \in InterruptBefore
    <3>1. PICK how \in {"paused", "done"} : run'[r] = Ended(r, how, s.final_response)
      BY <2>1 DEF Advance, IInv, TypeOK
    <3> QED
      BY <3>1 DEF PacedRun, Ended, NoRun
  <2>2. CASE n # "END" /\ n \notin InterruptBefore
    <3> DEFINE R == [run[r] EXCEPT !.node = n, !.state = s, !.call = NoCall]
    <3>1. run'[r] = R
      BY <2>2 DEF Advance, IInv, TypeOK
    <3>2. R.state = s /\ R.thread = t /\ R.node = n /\ R.call = NoCall
      BY <1>1 DEF IInv, TypeOK, RunRecord
    <3> HIDE DEF R
    <3> QED
      BY <1>1, <3>1, <3>2 DEF PacedRun, Paced
  <2> QED
    BY <2>1, <2>2
<1>6. \A q \in Runs : PacedRun(calls, run'[q])
  BY <1>4, <1>5 DEF LoopInv
<1> QED
  BY <1>3, <1>6 DEF LoopInv

LEMMA LoopInit == Init => LoopInv
<1> SUFFICES ASSUME Init PROVE LoopInv
  OBVIOUS
<1>1. calls \in CallLog /\ EmptyState.replans = 0 /\ NoRun.status = "idle"
  BY DEF Init, CallLog, EmptyState, NoRun
<1>2. \A t \in Threads : Paced(calls, EmptyState, t, FALSE)
  BY <1>1, FreshIsPaced
<1>3. \A t \in Threads : ckpt[t].state = EmptyState /\ ckpt[t].next = "absent"
  BY DEF Init
<1>4. \A t \in Threads : Paced(calls, ckpt[t].state, t, ckpt[t].next = "verification_critic")
  BY <1>2, <1>3 DEF Paced
<1>5. \A r \in Runs : PacedRun(calls, run[r])
  BY <1>1 DEF Init, PacedRun
<1> QED
  BY <1>4, <1>5 DEF LoopInv

LEMMA LoopStart ==
    ASSUME IInv, LoopInv, NEW r \in Turns, NEW t \in Threads, NEW image \in BOOLEAN,
           StartTurn(r, t, image)
    PROVE  LoopInv'
<1> DEFINE s == InitialState(r, image, ckpt[t].state)
           R == [NoRun EXCEPT !.status = "running", !.thread = t,
                              !.node = "router_supervisor", !.state = s]
<1>1. s.replans = 0
  BY DEF InitialState, EmptyState
<1>2. /\ ckpt' = [ckpt EXCEPT ![t] = [state |-> s, next |-> "router_supervisor"]]
      /\ run' = [run EXCEPT ![r] = R] /\ calls' = calls
  BY DEF StartTurn
<1>3. Paced(calls, s, t, FALSE)
  BY <1>1, FreshIsPaced DEF IInv, TypeOK, CallLog
<1> HIDE DEF s
<1>4. R.thread = t /\ R.node = "router_supervisor" /\ R.state = s /\ R.call = NoCall
  BY DEF NoRun
<1> HIDE DEF R
<1>5. /\ ckpt'[t].state = s /\ ckpt'[t].next = "router_supervisor"
      /\ \A u \in Threads \ {t} : ckpt'[u] = ckpt[u]
      /\ run'[r] = R /\ \A q \in Runs \ {r} : run'[q] = run[q]
  BY <1>2 DEF IInv, TypeOK, Runs
<1>6. PacedRun(calls, R)
  BY <1>3, <1>4 DEF PacedRun, Paced
<1>7. \A u \in Threads : Paced(calls, ckpt'[u].state, u, ckpt'[u].next = "verification_critic")
  <2>1. Paced(calls, ckpt'[t].state, t, ckpt'[t].next = "verification_critic")
    BY <1>3, <1>5 DEF Paced
  <2> QED
    BY <1>5, <2>1 DEF LoopInv
<1>8. \A q \in Runs : PacedRun(calls, run'[q])
  BY <1>5, <1>6 DEF LoopInv
<1> QED
  BY <1>2, <1>7, <1>8 DEF LoopInv

\* A run that ends, or starts where its checkpoint is.
LEMMA LoopResume ==
    ASSUME IInv, LoopInv, NEW r \in Runs, NEW t \in Threads, Resume(r, t) \/ RunDies(r)
    PROVE  LoopInv'
<1>1. UNCHANGED <<ckpt, calls>> /\ \A q \in Runs \ {r} : run'[q] = run[q]
  BY DEF Resume, RunDies, IInv, TypeOK
<1>2. PacedRun(calls, run'[r])
  <2> DEFINE R == [NoRun EXCEPT !.status = "running", !.thread = t,
                                !.node = ckpt[t].next, !.state = ckpt[t].state]
  <2>1. r \in DOMAIN run
    BY DEF IInv, TypeOK
  <2>2. run'[r].status # "running" \/ run'[r] = R
    <3>1. CASE RunDies(r)
      <4>1. run'[r] = Ended(r, "failed", "none")
        BY <2>1, <3>1 DEF RunDies
      <4>2. Ended(r, "failed", "none").status = "failed"
        BY DEF Ended, NoRun
      <4> QED
        BY <4>1, <4>2
    <3>2. CASE Resume(r, t) /\ ckpt[t].next = "absent"
      <4>1. run'[r] = [NoRun EXCEPT !.status = "failed", !.thread = t]
        BY <2>1, <3>2 DEF Resume
      <4> QED
        BY <4>1 DEF NoRun
    <3>3. CASE Resume(r, t) /\ ckpt[t].next = "END"
      <4>1. run'[r] = [NoRun EXCEPT !.status = "done", !.thread = t,
                                    !.output = ckpt[t].state.final_response]
        BY <2>1, <3>3 DEF Resume
      <4> QED
        BY <4>1 DEF NoRun
    <3>4. CASE Resume(r, t) /\ ckpt[t].next \notin {"absent", "END"}
      BY <2>1, <3>4 DEF Resume
    <3> QED
      BY <3>1, <3>2, <3>3, <3>4
  <2>3. CASE run'[r].status # "running"
    BY <2>3 DEF PacedRun
  <2>4. CASE run'[r] = R
    <3>1. R.thread = t /\ R.node = ckpt[t].next /\ R.state = ckpt[t].state /\ R.call = NoCall
      BY DEF NoRun
    <3> HIDE DEF R
    <3>2. Paced(calls, ckpt[t].state, t, ckpt[t].next = "verification_critic")
      BY DEF LoopInv
    <3> QED
      BY <2>4, <3>1, <3>2 DEF PacedRun, Paced
  <2> QED
    BY <2>2, <2>3, <2>4
<1>3. \A q \in Runs : PacedRun(calls, run'[q])
  BY <1>1, <1>2 DEF LoopInv
<1> QED
  BY <1>1, <1>3 DEF LoopInv

LEMMA LoopQuiet ==
    ASSUME IInv, LoopInv, NEW r \in Runs,
           RouterSupervisor(r) \/ VisualInspection(r) \/ PolicyRAG(r)
    PROVE  LoopInv'
<1> DEFINE s == run[r].state
<1>1. PICK n \in Nodes : /\ Advance(r, s, n) /\ UNCHANGED calls
                         /\ n # "verification_critic"
  BY DEF RouterSupervisor, VisualInspection, PolicyRAG, RouteAfterRouter, Nodes
<1>2. Running(r) /\ s \in AgentState
  BY DEF RouterSupervisor, VisualInspection, PolicyRAG, At, IInv, TypeOK, RunRecord
<1>3. Paced(calls, s, run[r].thread, n = "verification_critic")
  BY <1>1, <1>2 DEF LoopInv, PacedRun, Paced, Running
<1> QED
  BY <1>1, <1>2, <1>3, AdvancePaced

\* The executor leaves the turn and its loop-backs alone; its call pays for the critic.
LEMMA LoopReturn ==
    ASSUME IInv, LoopInv, NEW r \in Runs,
           ExecutorSucceeds(r) \/ ExecutorRetries(r) \/ ExecutorGivesUp(r)
    PROVE  LoopInv'
<1> DEFINE s == run[r].state
           c == run[r].call
<1>1. /\ Running(r) /\ s \in AgentState /\ RetriesCounted(s) /\ s.retry_count < MaxAttempts
      /\ Continues(s, c) /\ c # NoCall /\ UNCHANGED calls
  BY DEF ExecutorSucceeds, ExecutorRetries, ExecutorGivesUp, InCall, Running,
         IInv, RunInv, Healthy, Sound, Continues
<1>2. PICK v : /\ \/ v = Succeeded(s, c)
                  \/ c.attempt < MaxAttempts /\ v = Retried(s, c)
                  \/ v = GivenUp(s, c)
               /\ Advance(r, v, RouteAfterExecutor(v))
  BY DEF ExecutorSucceeds, ExecutorRetries, ExecutorGivesUp
<1>3. v \in AgentState
  BY <1>1, <1>2, ExecutorIsSound DEF Sound
<1>4. v.replans = s.replans /\ v.last_human = s.last_human
  BY <1>1, <1>2 DEF Succeeded, Retried, GivenUp, AgentState
<1>5. Paced(calls, s, run[r].thread, TRUE)
  BY <1>1 DEF LoopInv, PacedRun, Paced, Running
<1>6. PICK n \in Nodes : n = RouteAfterExecutor(v)
  BY DEF RouteAfterExecutor, Nodes
<1>7. Paced(calls, v, run[r].thread, n = "verification_critic")
  BY <1>4, <1>5 DEF Paced
<1> QED
  BY <1>1, <1>2, <1>3, <1>6, <1>7, AdvancePaced

LEMMA LoopCritic ==
    ASSUME IInv, LoopInv, NEW r \in Runs, VerificationCritic(r)
    PROVE  LoopInv'
<1> DEFINE s == run[r].state
<1>1. Running(r) /\ s \in AgentState /\ UNCHANGED calls
  BY DEF VerificationCritic, At, IInv, TypeOK, RunRecord
<1>2. PICK verdict \in {"pass", "fail"}, final \in {"none", "no_action", "done"} :
         LET v == [s EXCEPT !.verification_passed = verdict, !.final_response = final]
             n == RouteAfterVerification(v) IN
         Advance(r, IF n = "END" THEN v ELSE [v EXCEPT !.replans = @ + 1], n)
  BY DEF VerificationCritic, FinalResponse
<1> DEFINE v == [s EXCEPT !.verification_passed = verdict, !.final_response = final]
           n == RouteAfterVerification(v)
           w == IF n = "END" THEN v ELSE [v EXCEPT !.replans = @ + 1]
<1>3. v \in AgentState
  BY <1>1 DEF AgentState
<1>4. v.replans = s.replans /\ v.last_human = s.last_human /\ s.replans \in Nat
  BY <1>1 DEF AgentState
<1>5. n \in {"action_executor", "END"}
  BY DEF RouteAfterVerification
<1> HIDE DEF v
<1>6. /\ w \in AgentState /\ w.last_human = s.last_human
      /\ w.replans = s.replans \/ w.replans = s.replans + 1
  BY <1>3, <1>4 DEF AgentState
<1>7. Paced(calls, s, run[r].thread, TRUE)
  BY <1>1 DEF LoopInv, PacedRun, Paced, Running, VerificationCritic, At
<1>8. Cardinality(CallsMade(calls, run[r].thread, s.last_human)) \in Nat
  BY MadeCount DEF IInv, TypeOK, CallLog
<1> HIDE DEF w, n
<1>9. Paced(calls, w, run[r].thread, n = "verification_critic")
  BY <1>4, <1>5, <1>6, <1>7, <1>8 DEF Paced
<1>10. Advance(r, w, n)
  BY <1>2 DEF v, w, n
<1>11. n \in Nodes \cup {"END"}
  BY <1>5 DEF Nodes
<1> QED
  BY <1>1, <1>6, <1>9, <1>10, <1>11, AdvancePaced

LEMMA LoopCalls ==
    ASSUME IInv, LoopInv, NEW r \in Runs, ExecutorCalls(r)
    PROVE  LoopInv'
<1> DEFINE s == run[r].state
           t == run[r].thread
<1>1. PICK p \in PlannedCalls(s) :
         LET c == [p EXCEPT !.attempt = @ + 1] IN
         /\ run' = [run EXCEPT ![r].call = c]
         /\ calls' = Append(calls, [run |-> r, thread |-> t, turn |-> s.last_human,
                                    tool |-> c.tool, attempt |-> c.attempt])
  BY DEF ExecutorCalls
<1> DEFINE c == [p EXCEPT !.attempt = @ + 1]
           x == [run |-> r, thread |-> t, turn |-> s.last_human,
                 tool |-> c.tool, attempt |-> c.attempt]
<1>2. /\ run' = [run EXCEPT ![r].call = c]
      /\ calls' = Append(calls, x)
      /\ x.thread = t /\ x.turn = s.last_human
  BY <1>1
<1> HIDE DEF c, x
<1>3. calls \in CallLog /\ calls' \in CallLog
  BY ExecutorCallsKeeps DEF IInv, TypeOK, CallLog
<1>4. x \in [run : Runs, thread : Threads, turn : Turns \cup {NoTurn},
             tool : Tools, attempt : 1 .. MaxAttempts]
  <2>1. calls'[Len(calls) + 1] = x /\ Len(calls) + 1 \in 1 .. Len(calls')
    BY <1>2, <1>3 DEF CallLog
  <2>2. \A i \in 1 .. Len(calls') :
           calls'[i] \in [run : Runs, thread : Threads, turn : Turns \cup {NoTurn},
                          tool : Tools, attempt : 1 .. MaxAttempts]
    BY <1>3, ElementOfSeq, Zenon DEF CallLog
  <2> QED
    BY <2>1, <2>2
<1>5. ASSUME NEW y \in AgentState, NEW u, NEW owed \in BOOLEAN, Paced(calls, y, u, owed)
      PROVE  Paced(calls', y, u, owed)
  <2>1. y.replans \in Nat
    BY DEF AgentState
  <2> QED
    BY <1>2, <1>3, <1>4, <1>5, <2>1, PacedGrows
<1>6. \A u \in Threads : Paced(calls', ckpt'[u].state, u, ckpt'[u].next = "verification_critic")
  <2>1. ckpt' = ckpt /\ \A u \in Threads : ckpt[u].state \in AgentState
    BY DEF ExecutorCalls, IInv, TypeOK
  <2> QED
    BY <1>5, <2>1 DEF LoopInv
<1>7. ASSUME NEW q \in Runs \ {r} PROVE PacedRun(calls', run'[q])
  <2>1. run'[q] = run[q] /\ run[q].state \in AgentState /\ PacedRun(calls, run[q])
    BY <1>2 DEF IInv, TypeOK, RunRecord, LoopInv
  <2> QED
    BY <1>5, <2>1 DEF PacedRun
<1>8. PacedRun(calls', run'[r])
  <2>1. /\ run'[r].state = s /\ run'[r].thread = t /\ s \in AgentState
        /\ Running(r) /\ PacedRun(calls, run[r])
    BY <1>2 DEF IInv, TypeOK, RunRecord, LoopInv, ExecutorCalls, At
  <2>2. /\ s.replans \in Nat
        /\ Cardinality(CallsMade(calls, t, s.last_human)) \in Nat
        /\ s.replans <= Cardinality(CallsMade(calls, t, s.last_human))
    BY <1>3, <2>1, MadeCount DEF PacedRun, Paced, Running, AgentState
  <2>3. Cardinality(CallsMade(calls', t, s.last_human))
           = Cardinality(CallsMade(calls, t, s.last_human)) + 1
    BY <1>2, <1>3, <1>4, MadeGrows
  <2> QED
    BY <2>1, <2>2, <2>3 DEF PacedRun, Paced
<1> QED
  BY <1>6, <1>7, <1>8 DEF LoopInv

LEMMA LoopNext == IInv /\ LoopInv /\ [Next]_vars => LoopInv'
<1> SUFFICES ASSUME IInv, LoopInv, [Next]_vars PROVE LoopInv'
  OBVIOUS
<1>1. ASSUME NEW r \in Turns, NEW t \in Threads, NEW image \in BOOLEAN, StartTurn(r, t, image)
      PROVE  LoopInv'
  BY <1>1, LoopStart
<1>2. ASSUME NEW r \in Resumes, NEW t \in Threads, Resume(r, t) PROVE LoopInv'
  BY <1>2, LoopResume DEF Runs
<1>3. ASSUME NEW r \in Runs, NodeStep(r) PROVE LoopInv'
  BY <1>3, LoopQuiet, LoopCalls, LoopReturn, LoopCritic DEF NodeStep
<1>4. ASSUME NEW r \in Runs, RunDies(r) PROVE LoopInv'
  <2>1. run[r].thread \in Threads
    BY <1>4 DEF IInv, TypeOK, RunDies
  <2> QED
    BY <1>4, <2>1, LoopResume
<1>5. CASE UNCHANGED vars
  BY <1>5 DEF vars, LoopInv
<1> QED
  BY <1>1, <1>2, <1>3, <1>4, <1>5 DEF Next

\* _route_after_verification: the cycle turns at most once per call that was made for
\* the turn, and so at most once per resumption.
THEOREM LoopTheorem == Spec => []LoopBacksNeedCalls
<1>1. LoopInv => LoopBacksNeedCalls
  BY DEF LoopInv, Paced, LoopBacksNeedCalls
<1>2. Spec => []LoopInv
  <2>1. Init => LoopInv
    BY LoopInit
  <2>2. IInv /\ LoopInv /\ [Next]_vars => LoopInv'
    BY LoopNext
  <2> QED
    BY <2>1, <2>2, Invariance, PTL DEF Spec
<1> QED
  BY <1>1, <1>2, PTL
=============================================================================
