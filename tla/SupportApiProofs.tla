--------------------------- MODULE SupportApiProofs ---------------------------
(***************************************************************************)
(* The API for any number of threads, requests, approvals and messages: it *)
(* drives the graph only as AgentGraph allows, every tool call is backed   *)
(* by a committed approval of its thread, and together with the graph it   *)
(* implements ApprovalGate.                                                *)
(*                                                                         *)
(* The inductive invariant takes over that of AgentGraphProofs and adds    *)
(* what ties the graph's runs to the requests that drive them: a run of a  *)
(* decide request has started only after that request committed, on the    *)
(* thread of its row, and a row keeps its thread; a run of a chat request  *)
(* never comes to the executor.                                            *)
(***************************************************************************)
EXTENDS SupportApi, SequenceTheorems, TLAPS

GP == INSTANCE AgentGraphProofs

Decided == {"resuming", "running", "answered", "broken"}

\* A row that exists belongs to a thread.
RowInv == \A a \in Approvals : rows[a].status # "absent" => rows[a].thread \in Threads

\* A chat request's run goes as far as the executor and stops there without a reply.
TurnInOrder(R) ==
    /\ R.status # "done" /\ R.output = "none"
    /\ R.status = "running" =>
          /\ R.node \in {"router_supervisor", "visual_inspection", "policy_rag"}
          /\ R.call = G!NoCall
          /\ R.state.final_response = "none"

\* A run knows its thread, also when it is over.
RunInv ==
    /\ \A r \in G!Runs : run[r].status # "idle" => run[r].thread \in Threads
    /\ \A c \in Turns : TurnInOrder(run[c])

\* A call was made on the thread of its run.
CallInv == \A i \in DOMAIN calls : calls[i].thread = run[calls[i].run].thread

\* A decide request past its checks has a row; its run is started after the commit.
DecideInv ==
    \A d \in Resumes :
        /\ decide[d].pc \in Decided \cup {"loaded"} =>
              /\ decide[d].approval \in Approvals
              /\ rows[decide[d].approval].status # "absent"
              /\ decide[d].decision \in {"approved", "rejected"}
        /\ decide[d].pc \in {"resuming", "running"} => decide[d].decision = "approved"
        /\ run[d].status # "idle" =>
              Granted(d) /\ run[d].thread = rows[decide[d].approval].thread

\* A chat request that stores has been audited; the branch of an event that requires
\* approval is never taken.
ChatInv ==
    \A c \in Turns :
        /\ chat[c].pc \notin {"holding", "held"}
        /\ chat[c].pc \in {"streaming", "storing"} =>
              chat[c].message \in Messages /\ run[c].status # "idle"
        /\ chat[c].pc = "storing" =>
              /\ run[c].status = "paused"
              /\ \E x \in audit : x.thread = run[c].thread /\ x.reply = run[c].output

AuditInv == \A x \in audit : x.reply = "none" /\ run[x.turn].status = "paused"

ApiTypes ==
    /\ rows \in [Approvals -> [status : {"absent", "pending", "approved", "rejected"},
                               thread : Threads \cup {NoThread},
                               tool : Tools \cup {NoTool}]]
    /\ chat \in [Turns -> [pc : {"idle", "cache_hit", "streaming", "holding", "held",
                                 "storing", "replied", "broken"},
                           message : Messages \cup {NoMessage}]]
    /\ decide \in [Resumes -> [pc : {"idle", "not_found", "conflict", "loaded", "aborted",
                                     "resuming", "running", "answered", "broken"},
                               approval : Approvals \cup {NoApproval},
                               decision : {"none", "approved", "rejected"}]]
    /\ audit \subseteq [turn : Turns, thread : Threads, reply : Replies]
    /\ cache \subseteq [message : Messages, thread : Threads, reply : Replies]

IInv ==
    /\ GP!IInv
    /\ ApiTypes /\ RowInv /\ RunInv /\ CallInv /\ DecideInv /\ ChatInv /\ AuditInv
    /\ CachedReplyWasAudited

-----------------------------------------------------------------------------
(***************************************************************************)
(* The graph's steps                                                       *)
(***************************************************************************)
LEMMA GraphAssumed == GP!GraphAssumption
BY ApiAssumption DEF G!GraphAssumption, GP!GraphAssumption

\* AgentGraphProofs speaks of the same nodes and runs.
LEMMA SameNodeStep == ASSUME NEW r, G!NodeStep(r) PROVE GP!NodeStep(r)
<1>1. G!RouterSupervisor(r) => GP!RouterSupervisor(r)
  BY DEF G!RouterSupervisor, GP!RouterSupervisor, G!RouteAfterRouter, GP!RouteAfterRouter,
      G!Advance, GP!Advance, G!Ended, GP!Ended, G!NoRun, GP!NoRun, G!EmptyState,
      GP!EmptyState, G!NoCall, GP!NoCall, G!InterruptBefore, GP!InterruptBefore, G!At,
      GP!At, G!Running, GP!Running
<1>2. G!VisualInspection(r) => GP!VisualInspection(r)
  BY DEF G!VisualInspection, GP!VisualInspection, G!Advance, GP!Advance, G!Ended, GP!Ended,
      G!NoRun, GP!NoRun, G!EmptyState, GP!EmptyState, G!NoCall, GP!NoCall,
      G!InterruptBefore, GP!InterruptBefore, G!At, GP!At, G!Running, GP!Running
<1>3. G!PolicyRAG(r) => GP!PolicyRAG(r)
  BY DEF G!PolicyRAG, GP!PolicyRAG, G!Advance, GP!Advance, G!Ended, GP!Ended, G!NoRun,
      GP!NoRun, G!EmptyState, GP!EmptyState, G!NoCall, GP!NoCall, G!InterruptBefore,
      GP!InterruptBefore, G!At, GP!At, G!Running, GP!Running
<1>4. G!ExecutorCalls(r) => GP!ExecutorCalls(r)
  BY DEF G!ExecutorCalls, GP!ExecutorCalls, G!PlannedCalls, GP!PlannedCalls, G!NoCall,
      GP!NoCall, G!At, GP!At, G!Running, GP!Running
<1>5. G!ExecutorSucceeds(r) => GP!ExecutorSucceeds(r)
  BY DEF G!ExecutorSucceeds, GP!ExecutorSucceeds, G!InCall, GP!InCall, G!Succeeded,
      GP!Succeeded, G!Recorded, GP!Recorded, G!RouteAfterExecutor, GP!RouteAfterExecutor,
      G!Advance, GP!Advance, G!Ended, GP!Ended, G!NoRun, GP!NoRun, G!EmptyState,
      GP!EmptyState, G!NoCall, GP!NoCall, G!InterruptBefore, GP!InterruptBefore,
      G!Running, GP!Running
<1>6. G!ExecutorRetries(r) => GP!ExecutorRetries(r)
  BY DEF G!ExecutorRetries, GP!ExecutorRetries, G!InCall, GP!InCall, G!Retried, GP!Retried,
      G!Recorded, GP!Recorded, G!RouteAfterExecutor, GP!RouteAfterExecutor, G!Advance,
      GP!Advance, G!Ended, GP!Ended, G!NoRun, GP!NoRun, G!EmptyState, GP!EmptyState,
      G!NoCall, GP!NoCall, G!InterruptBefore, GP!InterruptBefore, G!Running, GP!Running
<1>7. G!ExecutorGivesUp(r) => GP!ExecutorGivesUp(r)
  BY DEF G!ExecutorGivesUp, GP!ExecutorGivesUp, G!InCall, GP!InCall, G!GivenUp, GP!GivenUp,
      G!Recorded, GP!Recorded, G!RouteAfterExecutor, GP!RouteAfterExecutor, G!Advance,
      GP!Advance, G!Ended, GP!Ended, G!NoRun, GP!NoRun, G!EmptyState, GP!EmptyState,
      G!NoCall, GP!NoCall, G!InterruptBefore, GP!InterruptBefore, G!Running, GP!Running
<1>8. G!VerificationCritic(r) => GP!VerificationCritic(r)
  BY DEF G!VerificationCritic, GP!VerificationCritic, G!FinalResponse, GP!FinalResponse,
      G!RouteAfterVerification, GP!RouteAfterVerification, G!Advance, GP!Advance, G!Ended,
      GP!Ended, G!NoRun, GP!NoRun, G!EmptyState, GP!EmptyState, G!NoCall, GP!NoCall,
      G!InterruptBefore, GP!InterruptBefore, G!At, GP!At, G!Running, GP!Running
<1> QED
  BY <1>1, <1>2, <1>3, <1>4, <1>5, <1>6, <1>7, <1>8 DEF G!NodeStep, GP!NodeStep

LEMMA SameOthers ==
    /\ G!Init => GP!Init
    /\ \A r : G!RunDies(r) => GP!RunDies(r)
    /\ \A r, t, image : G!StartTurn(r, t, image) => GP!StartTurn(r, t, image)
    /\ \A r, t : G!Resume(r, t) => GP!Resume(r, t)
<1>1. G!Init => GP!Init
  BY DEF G!Init, GP!Init, G!Runs, GP!Runs, G!NoRun, GP!NoRun, G!EmptyState, GP!EmptyState,
         G!NoCall, GP!NoCall
<1>2. ASSUME NEW r, G!RunDies(r) PROVE GP!RunDies(r)
  BY <1>2 DEF G!RunDies, GP!RunDies, G!Ended, GP!Ended, G!NoRun, GP!NoRun, G!EmptyState,
              GP!EmptyState, G!NoCall, GP!NoCall, G!Running, GP!Running
<1>3. ASSUME NEW r, NEW t, NEW image, G!StartTurn(r, t, image) PROVE GP!StartTurn(r, t, image)
  BY <1>3 DEF G!StartTurn, GP!StartTurn, G!InitialState, GP!InitialState, G!NoRun,
              GP!NoRun, G!EmptyState, GP!EmptyState, G!NoCall, GP!NoCall
<1>4. ASSUME NEW r, NEW t, G!Resume(r, t) PROVE GP!Resume(r, t)
  BY <1>4 DEF G!Resume, GP!Resume, G!NoRun, GP!NoRun, G!EmptyState, GP!EmptyState,
              G!NoCall, GP!NoCall
<1> QED
  BY <1>1, <1>2, <1>3, <1>4

\* The graph's invariant survives every step of the API, for each is a step of the
\* graph or leaves it alone.
LEMMA GraphSteps ==
    ASSUME GP!IInv,
           \/ \E r \in G!Runs : G!NodeStep(r) \/ G!RunDies(r)
           \/ \E r \in Turns, t \in Threads, image \in BOOLEAN : G!StartTurn(r, t, image)
           \/ \E r \in Resumes, t \in Threads : G!Resume(r, t)
           \/ UNCHANGED graphVars
    PROVE  GP!IInv'
<1>1. CASE UNCHANGED graphVars
  <2>1. UNCHANGED GP!vars
    BY <1>1 DEF graphVars, GP!vars
  <2> QED
    BY <2>1, GP!NextKeeps, GraphAssumed
<1>2. CASE \E r \in G!Runs : G!NodeStep(r) \/ G!RunDies(r)
  <2>1. \E r \in GP!Runs : GP!NodeStep(r) \/ GP!RunDies(r)
    BY <1>2, SameNodeStep, SameOthers DEF G!Runs, GP!Runs
  <2> QED
    BY <2>1, GP!NextKeeps, GraphAssumed DEF GP!Next
<1>3. CASE \E r \in Turns, t \in Threads, image \in BOOLEAN : G!StartTurn(r, t, image)
  <2>1. \E r \in Turns, t \in Threads, image \in BOOLEAN : GP!StartTurn(r, t, image)
    BY <1>3, SameOthers
  <2> QED
    BY <2>1, GP!NextKeeps, GraphAssumed DEF GP!Next
<1>4. CASE \E r \in Resumes, t \in Threads : G!Resume(r, t)
  <2>1. \E r \in Resumes, t \in Threads : GP!Resume(r, t)
    BY <1>4, SameOthers
  <2> QED
    BY <2>1, GP!NextKeeps, GraphAssumed DEF GP!Next
<1> QED
  BY <1>1, <1>2, <1>3, <1>4

\* What the proofs below use of the graph's invariant.
LEMMA GraphFacts ==
    ASSUME GP!IInv
    PROVE  /\ G!TypeOK
           /\ \A i \in DOMAIN calls : calls[i].run \in Resumes /\ run[calls[i].run].status # "idle"
           /\ \A r \in Resumes :
                 G!At(r, "action_executor") => \A i \in DOMAIN calls : calls[i].run # r
           /\ \A t \in Threads : ~G!RequiresHumanApproval(ckpt[t].state)
<1>1. G!TypeOK
  BY DEF GP!IInv, G!TypeOK, GP!TypeOK, G!RunRecord, GP!RunRecord, G!AgentState, GP!AgentState,
         G!CallRecord, GP!CallRecord, G!NoCall, GP!NoCall, G!Nodes, GP!Nodes, G!Runs, GP!Runs,
         G!Running, GP!Running
<1>2. \A i \in DOMAIN calls : calls[i].run \in Resumes /\ run[calls[i].run].status # "idle"
  BY DEF GP!IInv, GP!OneCallPerResume, GP!IdleInv, GP!Issued, GP!Runs
<1>3. ASSUME NEW r \in Resumes, G!At(r, "action_executor"), NEW i \in DOMAIN calls
      PROVE  calls[i].run # r
  BY <1>3 DEF GP!IInv, GP!RunInv, GP!Healthy, GP!Issued, GP!Runs, G!At, G!Running,
              G!NoCall, GP!NoCall
<1>4. ASSUME NEW t \in Threads
      PROVE  ~G!RequiresHumanApproval(ckpt[t].state)
  <2>1. GP!RetriesCounted(ckpt[t].state)
    BY DEF GP!IInv, GP!CkptInv, GP!Sound
  <2>2. ckpt[t].state.pending_tool_call.status # "pending"
    BY <2>1 DEF GP!RetriesCounted, GP!NoCall
  <2> QED
    BY <2>2 DEF G!RequiresHumanApproval
<1> QED
  BY <1>1, <1>2, <1>3, <1>4

\* A node step moves one running run, which keeps its thread; it makes a call only in
\* the executor and in its own name.
Moves(r) ==
    /\ run[r].status = "running"
    /\ run'[r].status \in {"running", "paused", "done"} /\ run'[r].thread = run[r].thread
    /\ \A q \in G!Runs \ {r} : run'[q] = run[q]
    /\ \/ calls' = calls
       \/ /\ G!At(r, "action_executor")
          /\ \E x : /\ calls' = Append(calls, x)
                    /\ x.run = r /\ x.thread = run[r].thread

LEMMA AdvanceMoves ==
    ASSUME G!TypeOK, NEW r \in G!Runs, G!Running(r), NEW s, NEW n, G!Advance(r, s, n)
    PROVE  /\ run'[r].status = IF n = "END" THEN "done"
                               ELSE IF n = "action_executor" THEN "paused" ELSE "running"
           /\ run'[r].thread = run[r].thread
           /\ n \in {"END", "action_executor"} => run'[r].output = s.final_response
           /\ n \notin {"END", "action_executor"} =>
                 /\ run'[r].node = n /\ run'[r].state = s /\ run'[r].call = G!NoCall
                 /\ run'[r].output = run[r].output
           /\ \A q \in G!Runs \ {r} : run'[q] = run[q]
<1>1. run \in [G!Runs -> G!RunRecord] /\ run[r] \in G!RunRecord
  BY DEF G!TypeOK
<1>2. G!InterruptBefore = {"action_executor"}
  BY DEF G!InterruptBefore
<1>3. \A q \in G!Runs \ {r} : run'[q] = run[q]
  BY <1>1 DEF G!Advance
<1>4. CASE n = "END"
  <2>1. run'[r] = G!Ended(r, "done", s.final_response)
    BY <1>1, <1>4 DEF G!Advance
  <2> QED
    BY <1>3, <1>4, <2>1 DEF G!Ended, G!NoRun
<1>5. CASE n = "action_executor"
  <2>1. run'[r] = G!Ended(r, "paused", s.final_response)
    BY <1>1, <1>2, <1>5 DEF G!Advance
  <2> QED
    BY <1>3, <1>5, <2>1 DEF G!Ended, G!NoRun
<1>6. CASE n \notin {"END", "action_executor"}
  <2>1. run'[r] = [run[r] EXCEPT !.node = n, !.state = s, !.call = G!NoCall]
    BY <1>1, <1>2, <1>6 DEF G!Advance
  <2>2. /\ run'[r].node = n /\ run'[r].state = s /\ run'[r].call = G!NoCall
        /\ run'[r].output = run[r].output /\ run'[r].thread = run[r].thread
        /\ run'[r].status = run[r].status
    BY <1>1, <2>1 DEF G!RunRecord
  <2> QED
    BY <1>3, <1>6, <2>2 DEF G!Running
<1> QED
  BY <1>4, <1>5, <1>6

LEMMA NodeStepMoves ==
    ASSUME G!TypeOK, NEW r \in G!Runs, G!NodeStep(r)
    PROVE  Moves(r)
<1>1. G!Running(r) /\ run[r].status = "running"
  BY DEF G!NodeStep, G!RouterSupervisor, G!VisualInspection, G!PolicyRAG, G!ExecutorCalls,
         G!ExecutorSucceeds, G!ExecutorRetries, G!ExecutorGivesUp, G!VerificationCritic,
         G!At, G!InCall, G!Running
<1>2. CASE G!ExecutorCalls(r)
  <2>1. PICK p \in G!PlannedCalls(run[r].state) :
           LET c == [p EXCEPT !.attempt = @ + 1] IN
           /\ run' = [run EXCEPT ![r].call = c]
           /\ calls' = Append(calls, [run |-> r, thread |-> run[r].thread,
                                      turn |-> run[r].state.last_human,
                                      tool |-> c.tool, attempt |-> c.attempt])
    BY <1>2 DEF G!ExecutorCalls
  <2>2. run \in [G!Runs -> G!RunRecord] /\ run[r] \in G!RunRecord
    BY DEF G!TypeOK
  <2>3. /\ run'[r].status = run[r].status /\ run'[r].thread = run[r].thread
        /\ \A q \in G!Runs \ {r} : run'[q] = run[q]
    BY <2>1, <2>2 DEF G!RunRecord
  <2>4. \E x : /\ calls' = Append(calls, x)
               /\ x.run = r /\ x.thread = run[r].thread
    BY <2>1
  <2> QED
    BY <1>1, <1>2, <2>3, <2>4 DEF Moves, G!ExecutorCalls
<1>3. CASE (\E s, n : G!Advance(r, s, n)) /\ calls' = calls
  BY <1>1, <1>3, AdvanceMoves DEF Moves
<1> QED
  BY <1>2, <1>3
     DEF G!NodeStep, G!RouterSupervisor, G!VisualInspection, G!PolicyRAG,
         G!ExecutorSucceeds, G!ExecutorRetries, G!ExecutorGivesUp, G!VerificationCritic

LEMMA TurnStops ==
    ASSUME G!TypeOK, NEW c \in Turns, TurnInOrder(run[c]), G!NodeStep(c)
    PROVE  TurnInOrder(run'[c]) /\ calls' = calls
<1>1. c \in G!Runs
  BY DEF G!Runs
<1>2. PICK n \in {"visual_inspection", "policy_rag", "action_executor"} :
         G!Running(c) /\ G!Advance(c, run[c].state, n) /\ calls' = calls
  BY DEF TurnInOrder, G!NodeStep, G!RouterSupervisor, G!VisualInspection, G!PolicyRAG,
         G!ExecutorCalls, G!ExecutorSucceeds, G!ExecutorRetries, G!ExecutorGivesUp,
         G!VerificationCritic, G!At, G!InCall, G!Running, G!RouteAfterRouter
<1> QED
  BY <1>1, <1>2, AdvanceMoves DEF TurnInOrder, G!Running

-----------------------------------------------------------------------------
(***************************************************************************)
(* What steps that start, move or lose one run leave in order              *)
(***************************************************************************)
Disjoint == Turns \cap Resumes = {}

LEMMA TurnsAreNotResumes == Disjoint
BY ApiAssumption DEF G!GraphAssumption, Disjoint

\* Run r is now started, and it has the thread it had if it had one; only r may have
\* made a call.
OneRunMoves(r) ==
    /\ run'[r].status # "idle" /\ run'[r].thread \in Threads
    /\ run[r].status # "idle" => run'[r].thread = run[r].thread
    /\ \A q \in G!Runs \ {r} : run'[q] = run[q]
    /\ \/ calls' = calls
       \/ run[r].status # "idle" /\ \E x : /\ calls' = Append(calls, x)
                                           /\ x.run = r /\ x.thread = run[r].thread

LEMMA CallInvKeeps ==
    ASSUME IInv, NEW r \in G!Runs, OneRunMoves(r)
    PROVE  CallInv'
<1>1. \A i \in DOMAIN calls :
         calls[i].run \in G!Runs /\ run[calls[i].run].status # "idle"
  BY GraphFacts DEF IInv, G!Runs
<1>2. \A i \in DOMAIN calls : calls[i].thread = run'[calls[i].run].thread
  BY <1>1 DEF IInv, CallInv, OneRunMoves
<1>3. CASE calls' = calls
  BY <1>2, <1>3 DEF CallInv
<1>4. ASSUME NEW x, calls' = Append(calls, x), x.run = r, x.thread = run[r].thread,
             run[r].status # "idle"
      PROVE  CallInv'
  <2>1. \E S : calls \in Seq(S)
    BY GraphFacts DEF IInv, G!TypeOK
  <2>2. PICK S : calls \in Seq(S) /\ x \in S
    <3>1. PICK S : calls \in Seq(S)
      BY <2>1
    <3>2. calls \in Seq(S \cup {x})
      BY <3>1
    <3> QED
      BY <3>2
  <2>3. \A i \in DOMAIN calls' : (i \in DOMAIN calls /\ calls'[i] = calls[i]) \/ calls'[i] = x
    BY <1>4, <2>2
  <2>4. x.thread = run'[x.run].thread
    BY <1>4 DEF OneRunMoves
  <2> QED
    BY <1>2, <2>3, <2>4 DEF CallInv
<1> QED
  BY <1>3, <1>4 DEF OneRunMoves

LEMMA RunInvKeeps ==
    ASSUME IInv, NEW r \in G!Runs, OneRunMoves(r), r \in Turns => TurnInOrder(run'[r])
    PROVE  RunInv'
BY DEF IInv, RunInv, OneRunMoves, TurnInOrder, G!Runs

\* Running, dying and not started runs of a request.
LEMMA StepMovesRun ==
    ASSUME IInv, NEW r \in G!Runs, G!NodeStep(r)
    PROVE  OneRunMoves(r) /\ run[r].status = "running"
<1>1. Moves(r)
  BY NodeStepMoves, GraphFacts DEF IInv
<1>2. run[r].thread \in Threads
  BY <1>1 DEF Moves, IInv, RunInv
<1> QED
  BY <1>1, <1>2 DEF Moves, OneRunMoves

LEMMA DyingMovesRun ==
    ASSUME IInv, NEW r \in G!Runs, G!RunDies(r)
    PROVE  /\ OneRunMoves(r) /\ run[r].status = "running"
           /\ TurnInOrder(run'[r]) /\ run'[r].status = "failed" /\ calls' = calls
<1>1. run \in [G!Runs -> G!RunRecord]
  BY GraphFacts DEF IInv, G!TypeOK
<1>2. /\ run[r].status = "running" /\ calls' = calls
      /\ run' = [run EXCEPT ![r] = G!Ended(r, "failed", "none")]
  BY DEF G!RunDies, G!Running
<1>3. /\ run'[r] = G!Ended(r, "failed", "none")
      /\ \A q \in G!Runs \ {r} : run'[q] = run[q]
  BY <1>1, <1>2
<1>4. run'[r].status = "failed" /\ run'[r].thread = run[r].thread /\ run'[r].output = "none"
  BY <1>3 DEF G!Ended, G!NoRun
<1>5. run[r].thread \in Threads
  BY <1>2 DEF IInv, RunInv
<1> QED
  BY <1>2, <1>3, <1>4, <1>5 DEF OneRunMoves, TurnInOrder

LEMMA StartMovesRun ==
    ASSUME IInv, NEW c \in Turns, NEW t \in Threads, NEW image \in BOOLEAN,
           G!StartTurn(c, t, image)
    PROVE  /\ OneRunMoves(c) /\ run[c].status = "idle"
           /\ TurnInOrder(run'[c]) /\ calls' = calls
<1> DEFINE s == G!InitialState(c, image, ckpt[t].state)
           R == [G!NoRun EXCEPT !.status = "running", !.thread = t,
                                !.node = "router_supervisor", !.state = s]
<1>1. run \in [G!Runs -> G!RunRecord] /\ c \in G!Runs
  BY GraphFacts DEF IInv, G!TypeOK, G!Runs
<1>2. run[c].status = "idle" /\ calls' = calls /\ run' = [run EXCEPT ![c] = R]
  BY DEF G!StartTurn
<1>3. run'[c] = R /\ \A q \in G!Runs \ {c} : run'[q] = run[q]
  BY <1>1, <1>2
<1>4. s.final_response = "none"
  BY DEF G!InitialState, G!EmptyState
<1> HIDE DEF s
<1>5. /\ R.status = "running" /\ R.thread = t /\ R.node = "router_supervisor" /\ R.state = s
      /\ R.call = G!NoCall /\ R.output = "none"
  BY DEF G!NoRun
<1> HIDE DEF R
<1> QED
  BY <1>2, <1>3, <1>4, <1>5 DEF OneRunMoves, TurnInOrder

LEMMA ResumeMovesRun ==
    ASSUME IInv, NEW d \in Resumes, NEW t \in Threads, G!Resume(d, t)
    PROVE  /\ OneRunMoves(d) /\ run[d].status = "idle"
           /\ run'[d].thread = t /\ calls' = calls
<1>1. run \in [G!Runs -> G!RunRecord] /\ d \in G!Runs
  BY GraphFacts DEF IInv, G!TypeOK, G!Runs
<1>2. run[d].status = "idle" /\ calls' = calls
  BY DEF G!Resume
<1>3. PICK R : /\ run' = [run EXCEPT ![d] = R]
               /\ R.status # "idle" /\ R.thread = t
  <2> DEFINE k == ckpt[t]
             failed == [G!NoRun EXCEPT !.status = "failed", !.thread = t]
             over == [G!NoRun EXCEPT !.status = "done", !.thread = t,
                                     !.output = k.state.final_response]
             going == [G!NoRun EXCEPT !.status = "running", !.thread = t,
                                      !.node = k.next, !.state = k.state]
  <2>1. /\ failed.status # "idle" /\ failed.thread = t
        /\ over.status # "idle" /\ over.thread = t
        /\ going.status # "idle" /\ going.thread = t
    BY DEF G!NoRun
  <2>2. run' = [run EXCEPT ![d] = IF k.next = "absent" THEN failed
                                  ELSE IF k.next = "END" THEN over ELSE going]
    BY DEF G!Resume
  <2> HIDE DEF failed, over, going
  <2> QED
    BY <2>1, <2>2
<1>4. run'[d] = R /\ \A q \in G!Runs \ {d} : run'[q] = run[q]
  BY <1>1, <1>3
<1> QED
  BY <1>2, <1>3, <1>4 DEF OneRunMoves

-----------------------------------------------------------------------------
(***************************************************************************)
(* The chat requests                                                       *)
(***************************************************************************)
\* The approval queue is not touched by chat requests and their runs.
LEMMA DecideInvKeeps ==
    ASSUME IInv, rows' = rows, decide' = decide, \A d \in Resumes : run'[d] = run[d]
    PROVE  DecideInv' /\ RowInv'
BY DEF IInv, DecideInv, RowInv, Granted

LEMMA ChatHitsCacheKeeps ==
    ASSUME IInv, NEW c \in Turns, NEW m \in Messages, ChatHitsCache(c, m)
    PROVE  IInv'
<1>1. GP!IInv'
  BY GraphSteps DEF IInv, ChatHitsCache
<1>2. /\ UNCHANGED <<ckpt, run, calls, rows, decide, audit, cache>>
      /\ chat' = [chat EXCEPT ![c] = [pc |-> "cache_hit", message |-> m]]
  BY DEF ChatHitsCache, graphVars
<1>3. ApiTypes'
  BY <1>2 DEF IInv, ApiTypes
<1>4. ChatInv'
  BY <1>2 DEF IInv, ChatInv, ApiTypes
<1>5. RunInv' /\ CallInv' /\ AuditInv' /\ CachedReplyWasAudited'
  BY <1>2 DEF IInv, RunInv, CallInv, AuditInv, CachedReplyWasAudited
<1> QED
  BY <1>1, <1>2, <1>3, <1>4, <1>5, DecideInvKeeps DEF IInv

LEMMA ChatStartsKeeps ==
    ASSUME IInv, NEW c \in Turns, NEW t \in Threads, NEW m \in Messages,
           NEW image \in BOOLEAN, ChatStarts(c, t, m, image)
    PROVE  IInv'
<1>1. GP!IInv'
  BY GraphSteps DEF IInv, ChatStarts
<1>2. /\ UNCHANGED <<rows, decide, audit, cache>>
      /\ chat' = [chat EXCEPT ![c] = [pc |-> "streaming", message |-> m]]
      /\ c \in G!Runs
  BY DEF ChatStarts, G!Runs
<1>3. /\ OneRunMoves(c) /\ run[c].status = "idle"
      /\ TurnInOrder(run'[c]) /\ calls' = calls
  BY StartMovesRun DEF ChatStarts
<1>4. ApiTypes'
  BY <1>2 DEF IInv, ApiTypes
<1>5. RunInv' /\ CallInv'
  BY <1>2, <1>3, RunInvKeeps, CallInvKeeps
<1>6. ChatInv'
  <2>1. /\ c \in DOMAIN chat /\ m \in Messages /\ run'[c].status # "idle"
        /\ \A d \in Turns \ {c} : run'[d] = run[d]
    BY <1>2, <1>3 DEF IInv, ApiTypes, OneRunMoves, G!Runs, ChatStarts
  <2>2. /\ chat'[c].pc = "streaming" /\ chat'[c].message = m
        /\ \A d \in Turns \ {c} : chat'[d] = chat[d]
    BY <1>2, <2>1
  <2> QED
    BY <1>2, <2>1, <2>2 DEF IInv, ChatInv
<1>7. AuditInv' /\ CachedReplyWasAudited'
  BY <1>2, <1>3 DEF IInv, AuditInv, CachedReplyWasAudited, OneRunMoves, ApiTypes, G!Runs
<1>8. DecideInv' /\ RowInv'
  BY <1>2, <1>3, DecideInvKeeps, TurnsAreNotResumes DEF OneRunMoves, G!Runs, Disjoint
<1> QED
  BY <1>1, <1>4, <1>5, <1>6, <1>7, <1>8 DEF IInv

\* After a step of the graph no event requires approval.
LEMMA NothingRequiresApproval ==
    ASSUME GP!IInv', NEW t \in Threads
    PROVE  ~G!RequiresHumanApproval(ckpt'[t].state)
<1>1. GP!RetriesCounted(ckpt'[t].state)
  BY DEF GP!IInv, GP!CkptInv, GP!Sound
<1>2. ckpt'[t].state.pending_tool_call.status # "pending"
  BY <1>1 DEF GP!RetriesCounted, GP!NoCall
<1> QED
  BY <1>2 DEF G!RequiresHumanApproval

LEMMA ChatStepKeeps ==
    ASSUME IInv, NEW c \in Turns, ChatStep(c)
    PROVE  IInv'
<1>0. c \in G!Runs /\ G!NodeStep(c)
  BY DEF G!Runs, ChatStep
<1>1. GP!IInv'
  BY <1>0, GraphSteps DEF IInv
<1>2. /\ OneRunMoves(c) /\ run[c].status = "running"
      /\ TurnInOrder(run'[c]) /\ calls' = calls
  BY <1>0, StepMovesRun, TurnStops, GraphFacts DEF IInv, RunInv
<1>3. /\ UNCHANGED <<rows, decide, audit, cache>>
      /\ chat' = chat
  <2>1. run[c].thread \in Threads
    BY <1>0, <1>2 DEF IInv, RunInv
  <2> QED
    BY <1>1, <2>1, NothingRequiresApproval DEF ChatStep
<1>4. ApiTypes'
  BY <1>3 DEF IInv, ApiTypes
<1>5. RunInv' /\ CallInv'
  BY <1>0, <1>2, RunInvKeeps, CallInvKeeps
<1>6. ChatInv'
  BY <1>2, <1>3 DEF IInv, ChatInv, OneRunMoves, G!Runs
<1>7. AuditInv' /\ CachedReplyWasAudited'
  BY <1>2, <1>3 DEF IInv, AuditInv, CachedReplyWasAudited, OneRunMoves, ApiTypes, G!Runs
<1>8. DecideInv' /\ RowInv'
  BY <1>2, <1>3, DecideInvKeeps, TurnsAreNotResumes DEF OneRunMoves, G!Runs, Disjoint
<1> QED
  BY <1>1, <1>4, <1>5, <1>6, <1>7, <1>8 DEF IInv

LEMMA ChatLeavesStreamKeeps ==
    ASSUME IInv, NEW c \in Turns, ChatLeavesStream(c)
    PROVE  IInv'
<1> DEFINE x == [turn |-> c, thread |-> run[c].thread, reply |-> run[c].output]
<1>1. chat[c].pc = "streaming" /\ run[c].status = "paused" /\ run[c].output = "none"
  BY DEF IInv, ChatInv, RunInv, TurnInOrder, ChatLeavesStream, Streamed
<1>2. /\ UNCHANGED <<ckpt, run, calls, rows, decide, cache>>
      /\ chat' = [chat EXCEPT ![c].pc = "storing"]
      /\ audit' = audit \cup {x}
  BY <1>1 DEF ChatLeavesStream, G!Running, graphVars
<1>3. GP!IInv'
  BY <1>2, GraphSteps DEF IInv, graphVars
<1>4. x \in [turn : Turns, thread : Threads, reply : Replies]
  BY <1>1 DEF IInv, RunInv, Replies, G!Runs
<1>5. x.turn = c /\ x.thread = run[c].thread /\ x.reply = run[c].output
  OBVIOUS
<1> HIDE DEF x
<1>6. ApiTypes'
  BY <1>2, <1>4 DEF IInv, ApiTypes
<1>7. RunInv' /\ CallInv' /\ CachedReplyWasAudited'
  BY <1>2 DEF IInv, RunInv, CallInv, CachedReplyWasAudited
<1>8. AuditInv'
  BY <1>1, <1>2, <1>5 DEF IInv, AuditInv
<1>9. ChatInv'
  BY <1>1, <1>2, <1>5 DEF IInv, ChatInv, ApiTypes
<1> QED
  BY <1>2, <1>3, <1>6, <1>7, <1>8, <1>9, DecideInvKeeps DEF IInv

LEMMA ChatStoresKeeps ==
    ASSUME IInv, NEW c \in Turns, ChatStores(c)
    PROVE  IInv'
<1> DEFINE e == [message |-> chat[c].message, thread |-> run[c].thread,
                 reply |-> run[c].output]
<1>1. /\ UNCHANGED <<ckpt, run, calls, rows, decide, audit>>
      /\ chat[c].pc = "storing"
      /\ chat' = [chat EXCEPT ![c].pc = "replied"]
      /\ cache' = cache \cup {e}
  BY DEF ChatStores, graphVars
<1>2. GP!IInv'
  BY <1>1, GraphSteps DEF IInv, graphVars
<1>3. PICK x \in audit : x.thread = e.thread /\ x.reply = e.reply
  BY <1>1 DEF IInv, ChatInv
<1>4. e \in [message : Messages, thread : Threads, reply : Replies]
  <2>1. chat[c].message \in Messages
    BY <1>1 DEF IInv, ChatInv, ApiTypes
  <2> QED
    BY <1>3, <2>1 DEF IInv, ApiTypes
<1> HIDE DEF e
<1>5. ApiTypes'
  BY <1>1, <1>4 DEF IInv, ApiTypes
<1>6. RunInv' /\ CallInv' /\ AuditInv'
  BY <1>1 DEF IInv, RunInv, CallInv, AuditInv
<1>7. CachedReplyWasAudited'
  BY <1>1, <1>3 DEF IInv, CachedReplyWasAudited
<1>8. ChatInv'
  BY <1>1 DEF IInv, ChatInv, ApiTypes
<1> QED
  BY <1>1, <1>2, <1>5, <1>6, <1>7, <1>8, DecideInvKeeps DEF IInv

LEMMA ChatBreaksKeeps ==
    ASSUME IInv, NEW c \in Turns, ChatBreaks(c)
    PROVE  IInv'
<1>1. /\ UNCHANGED <<rows, decide, audit, cache>>
      /\ chat' = [chat EXCEPT ![c].pc = "broken"]
      /\ c \in G!Runs
      /\ G!RunDies(c) \/ UNCHANGED graphVars
  BY DEF ChatBreaks, G!Runs
<1>2. GP!IInv'
  BY <1>1, GraphSteps DEF IInv
<1>3. ApiTypes'
  BY <1>1 DEF IInv, ApiTypes
<1>4. CASE UNCHANGED graphVars
  <2>1. UNCHANGED <<run, calls>>
    BY <1>4 DEF graphVars
  <2>2. RunInv' /\ CallInv' /\ AuditInv' /\ CachedReplyWasAudited'
    BY <1>1, <2>1 DEF IInv, RunInv, CallInv, AuditInv, CachedReplyWasAudited
  <2>3. ChatInv'
    BY <1>1, <2>1 DEF IInv, ChatInv, ApiTypes
  <2> QED
    BY <1>1, <1>2, <1>3, <2>1, <2>2, <2>3, DecideInvKeeps DEF IInv
<1>5. CASE G!RunDies(c)
  <2>1. OneRunMoves(c) /\ run[c].status = "running" /\ TurnInOrder(run'[c]) /\ calls' = calls
    BY <1>1, <1>5, DyingMovesRun
  <2>2. RunInv' /\ CallInv'
    BY <1>1, <2>1, RunInvKeeps, CallInvKeeps
  <2>3. AuditInv' /\ CachedReplyWasAudited'
    BY <1>1, <2>1 DEF IInv, AuditInv, CachedReplyWasAudited, OneRunMoves, ApiTypes, G!Runs
  <2>4. ChatInv'
    BY <1>1, <2>1 DEF IInv, ChatInv, ApiTypes, OneRunMoves, G!Runs
  <2>5. DecideInv' /\ RowInv'
    BY <1>1, <2>1, DecideInvKeeps, TurnsAreNotResumes DEF OneRunMoves, G!Runs, Disjoint
  <2> QED
    BY <1>2, <1>3, <2>2, <2>3, <2>4, <2>5 DEF IInv
<1> QED
  BY <1>1, <1>4, <1>5

LEMMA CacheExpiresKeeps ==
    ASSUME IInv, NEW e \in cache, CacheExpires(e)
    PROVE  IInv'
<1>1. /\ UNCHANGED <<ckpt, run, calls, rows, chat, decide, audit>>
      /\ cache' = cache \ {e}
  BY DEF CacheExpires, graphVars
<1>2. GP!IInv'
  BY <1>1, GraphSteps DEF IInv, graphVars
<1>3. ApiTypes' /\ RunInv' /\ CallInv' /\ ChatInv' /\ AuditInv' /\ CachedReplyWasAudited'
  BY <1>1 DEF IInv, ApiTypes, RunInv, CallInv, ChatInv, AuditInv, CachedReplyWasAudited
<1> QED
  BY <1>1, <1>2, <1>3, DecideInvKeeps DEF IInv

-----------------------------------------------------------------------------
(***************************************************************************)
(* The approval queue and the decide requests                              *)
(***************************************************************************)
\* Steps of the approval endpoint that leave the graph and the chats alone.
LEMMA ChatPartKeeps ==
    ASSUME IInv, UNCHANGED <<ckpt, run, calls, chat, audit, cache>>
    PROVE  /\ GP!IInv' /\ RunInv' /\ CallInv' /\ ChatInv' /\ AuditInv'
           /\ CachedReplyWasAudited'
<1>1. GP!IInv'
  BY GraphSteps DEF IInv, graphVars
<1> QED
  BY <1>1 DEF IInv, RunInv, CallInv, ChatInv, AuditInv, CachedReplyWasAudited

LEMMA RefundSuspendedKeeps ==
    ASSUME IInv, NEW a \in Approvals, NEW t \in Threads, NEW tool \in Tools,
           RefundSuspended(a, t, tool)
    PROVE  IInv'
<1>1. /\ UNCHANGED <<ckpt, run, calls, chat, decide, audit, cache>>
      /\ rows[a].status = "absent"
      /\ rows' = [rows EXCEPT ![a] = [status |-> "pending", thread |-> t, tool |-> tool]]
  BY DEF RefundSuspended, graphVars, NoRow
<1>2. ApiTypes'
  BY <1>1 DEF IInv, ApiTypes
<1>3. RowInv'
  BY <1>1 DEF IInv, RowInv, ApiTypes
<1>4. \A b \in Approvals : rows[b].status # "absent" => rows'[b] = rows[b]
  BY <1>1 DEF IInv, ApiTypes
<1>5. \A d \in Resumes : Granted(d)' <=> Granted(d)
  BY <1>1 DEF Granted
<1>6. DecideInv'
  BY <1>1, <1>4, <1>5 DEF IInv, DecideInv, Granted, Decided
<1> QED
  BY <1>1, <1>2, <1>3, <1>6, ChatPartKeeps DEF IInv

LEMMA DecideReadsKeeps ==
    ASSUME IInv, NEW d \in Resumes, NEW a \in Approvals, NEW v \in {"approved", "rejected"},
           DecideReads(d, a, v)
    PROVE  IInv'
<1> DEFINE pc == IF rows[a] = NoRow THEN "not_found"
                 ELSE IF rows[a].status # "pending" THEN "conflict" ELSE "loaded"
           R == [pc |-> pc, approval |-> a, decision |-> v]
<1>1. /\ UNCHANGED <<ckpt, run, calls, rows, chat, audit, cache>>
      /\ decide[d].pc = "idle"
      /\ decide' = [decide EXCEPT ![d] = R]
  BY DEF DecideReads, graphVars
<1>2. /\ pc \in {"not_found", "conflict", "loaded"}
      /\ pc = "loaded" => rows[a].status # "absent"
  OBVIOUS
<1>3. R.pc = pc /\ R.approval = a /\ R.decision = v
  OBVIOUS
<1> HIDE DEF pc
<1>4. R \in [pc : {"idle", "not_found", "conflict", "loaded", "aborted",
                   "resuming", "running", "answered", "broken"},
             approval : Approvals \cup {NoApproval},
             decision : {"none", "approved", "rejected"}]
  BY <1>2
<1> HIDE DEF R
<1>5. ApiTypes'
  BY <1>1, <1>4 DEF IInv, ApiTypes
<1>6. decide'[d] = R /\ \A e \in Resumes \ {d} : decide'[e] = decide[e]
  BY <1>1 DEF IInv, ApiTypes
<1>7. run[d].status = "idle"
  BY <1>1 DEF IInv, DecideInv, Granted
<1>8. DecideInv' /\ RowInv'
  BY <1>1, <1>2, <1>3, <1>6, <1>7 DEF IInv, DecideInv, RowInv, Granted, Decided
<1> QED
  BY <1>1, <1>5, <1>8, ChatPartKeeps DEF IInv

LEMMA DecideCommitsKeeps ==
    ASSUME IInv, NEW d \in Resumes, DecideCommits(d)
    PROVE  IInv'
<1> DEFINE a == decide[d].approval
           pc == IF decide[d].decision = "approved" THEN "resuming" ELSE "answered"
<1>1. /\ UNCHANGED <<ckpt, run, calls, chat, audit, cache>>
      /\ decide[d].pc = "loaded"
      /\ rows' = [rows EXCEPT ![a].status = decide[d].decision]
      /\ decide' = [decide EXCEPT ![d].pc = pc]
  BY DEF DecideCommits, graphVars
<1>2. /\ a \in Approvals /\ rows[a].status # "absent"
      /\ decide[d].decision \in {"approved", "rejected"}
      /\ run[d].status = "idle"
  BY <1>1 DEF IInv, DecideInv, Granted
<1>3. /\ \A b \in Approvals :
            /\ rows'[b].thread = rows[b].thread
            /\ rows[b].status # "absent" => rows'[b].status # "absent"
            /\ rows'[b].status # "absent" => rows[b].status # "absent"
  BY <1>1, <1>2 DEF IInv, ApiTypes
<1>4. /\ decide'[d].pc = pc /\ decide'[d].approval = a
      /\ decide'[d].decision = decide[d].decision
      /\ \A e \in Resumes \ {d} : decide'[e] = decide[e]
  BY <1>1 DEF IInv, ApiTypes
<1>5. /\ pc \in {"resuming", "answered"}
      /\ pc = "resuming" => decide[d].decision = "approved"
  OBVIOUS
<1> HIDE DEF pc
<1>6. ApiTypes'
  <2> DEFINE RowSet == [status : {"absent", "pending", "approved", "rejected"},
                        thread : Threads \cup {NoThread}, tool : Tools \cup {NoTool}]
             DecideSet == [pc : {"idle", "not_found", "conflict", "loaded", "aborted",
                                 "resuming", "running", "answered", "broken"},
                           approval : Approvals \cup {NoApproval},
                           decision : {"none", "approved", "rejected"}]
  <2>1. rows \in [Approvals -> RowSet] /\ decide \in [Resumes -> DecideSet]
    BY DEF IInv, ApiTypes
  <2>2. [rows[a] EXCEPT !.status = decide[d].decision] \in RowSet
    BY <1>2, <2>1
  <2>3. [decide[d] EXCEPT !.pc = pc] \in DecideSet
    BY <1>5, <2>1
  <2> HIDE DEF RowSet, DecideSet
  <2>4. rows' \in [Approvals -> RowSet] /\ decide' \in [Resumes -> DecideSet]
    BY <1>1, <2>1, <2>2, <2>3
  <2> QED
    BY <1>1, <2>4 DEF IInv, ApiTypes, RowSet, DecideSet
<1>7. RowInv'
  BY <1>3 DEF IInv, RowInv
<1>8. ASSUME NEW e \in Resumes
      PROVE  /\ decide'[e].pc \in Decided \cup {"loaded"} =>
                   /\ decide'[e].approval \in Approvals
                   /\ rows'[decide'[e].approval].status # "absent"
                   /\ decide'[e].decision \in {"approved", "rejected"}
             /\ decide'[e].pc \in {"resuming", "running"} => decide'[e].decision = "approved"
             /\ run'[e].status # "idle" =>
                   Granted(e)' /\ run'[e].thread = rows'[decide'[e].approval].thread
  <2>1. CASE e = d
    BY <1>1, <1>2, <1>3, <1>4, <1>5, <2>1
  <2>2. CASE e # d
    <3>1. decide'[e] = decide[e] /\ run'[e] = run[e] /\ (Granted(e)' <=> Granted(e))
      BY <1>1, <1>4, <2>2 DEF Granted
    <3>2. Granted(e) => decide[e].approval \in Approvals
      BY DEF IInv, DecideInv, Granted, Decided
    <3> QED
      BY <1>3, <3>1, <3>2 DEF IInv, DecideInv
  <2> QED
    BY <2>1, <2>2
<1>9. DecideInv'
  BY <1>8 DEF DecideInv
<1> QED
  BY <1>1, <1>6, <1>7, <1>9, ChatPartKeeps DEF IInv

\* The chats do not notice a run of a decide request.
LEMMA DecideRunKeeps ==
    ASSUME IInv, NEW d \in Resumes, OneRunMoves(d), UNCHANGED <<rows, chat, audit, cache>>
    PROVE  /\ RunInv' /\ CallInv' /\ ChatInv' /\ AuditInv' /\ CachedReplyWasAudited'
           /\ RowInv'
<1>1. d \in G!Runs /\ d \notin Turns
  BY TurnsAreNotResumes DEF G!Runs, Disjoint
<1>2. \A c \in Turns : run'[c] = run[c]
  BY <1>1 DEF OneRunMoves, G!Runs
<1>3. RunInv' /\ CallInv'
  BY <1>1, RunInvKeeps, CallInvKeeps
<1>4. ChatInv'
  BY <1>2 DEF IInv, ChatInv
<1>5. AuditInv' /\ CachedReplyWasAudited' /\ RowInv'
  BY <1>2 DEF IInv, AuditInv, ApiTypes, CachedReplyWasAudited, RowInv
<1> QED
  BY <1>3, <1>4, <1>5

\* Request d goes on from a state with a committed approval to another one.
LEMMA GrantedGoesOn ==
    ASSUME IInv, NEW d \in Resumes,
           decide[d].pc \in {"resuming", "running"},
           NEW pc \in {"running", "answered", "broken"},
           decide' = [decide EXCEPT ![d].pc = pc],
           UNCHANGED <<rows, chat, audit, cache>>,
           run'[d].status # "idle" => run'[d].thread = rows[decide[d].approval].thread,
           \A e \in Resumes \ {d} : run'[e] = run[e]
    PROVE  DecideInv' /\ ApiTypes'
<1>1. ApiTypes'
  BY DEF IInv, ApiTypes
<1>2. /\ decide'[d].pc = pc /\ decide'[d].approval = decide[d].approval
      /\ decide'[d].decision = decide[d].decision
      /\ \A e \in Resumes \ {d} : decide'[e] = decide[e]
  BY DEF IInv, ApiTypes
<1>3. decide[d].decision = "approved" /\ decide[d].approval \in Approvals
      /\ rows[decide[d].approval].status # "absent"
  BY DEF IInv, DecideInv, Decided
<1>4. Granted(d)' /\ \A e \in Resumes \ {d} : Granted(e)' <=> Granted(e)
  BY <1>2, <1>3 DEF Granted
<1>5. DecideInv'
  BY <1>2, <1>3, <1>4 DEF IInv, DecideInv
<1> QED
  BY <1>1, <1>5

LEMMA DecideResumesKeeps ==
    ASSUME IInv, NEW d \in Resumes, DecideResumes(d)
    PROVE  IInv'
<1> DEFINE t == rows[decide[d].approval].thread
<1>1. /\ UNCHANGED <<rows, chat, audit, cache>>
      /\ decide[d].pc = "resuming" /\ decide' = [decide EXCEPT ![d].pc = "running"]
      /\ G!Resume(d, t) /\ d \in G!Runs
  BY DEF DecideResumes, G!Runs
<1>2. t \in Threads
  BY <1>1 DEF IInv, DecideInv, RowInv, Decided
<1>3. OneRunMoves(d) /\ run'[d].thread = t
  BY <1>1, <1>2, ResumeMovesRun
<1>4. GP!IInv'
  BY <1>1, <1>2, GraphSteps DEF IInv
<1>5. \A e \in Resumes \ {d} : run'[e] = run[e]
  BY <1>3 DEF OneRunMoves, G!Runs
<1>6. DecideInv' /\ ApiTypes'
  BY <1>1, <1>3, <1>5, GrantedGoesOn
<1> QED
  BY <1>1, <1>3, <1>4, <1>6, DecideRunKeeps DEF IInv

LEMMA DecideStepKeeps ==
    ASSUME IInv, NEW d \in Resumes, DecideStep(d)
    PROVE  IInv'
<1>1. /\ UNCHANGED <<rows, chat, decide, audit, cache>>
      /\ decide[d].pc = "running"
      /\ G!NodeStep(d) /\ d \in G!Runs
  BY DEF DecideStep, G!Runs
<1>2. OneRunMoves(d) /\ run[d].status = "running"
  BY <1>1, StepMovesRun
<1>3. GP!IInv'
  BY <1>1, GraphSteps DEF IInv
<1>4. run'[d].thread = run[d].thread /\ \A e \in Resumes \ {d} : run'[e] = run[e]
  BY <1>2 DEF OneRunMoves, G!Runs
<1>5. decide' = [decide EXCEPT ![d].pc = "running"]
  BY <1>1 DEF IInv, ApiTypes
<1>6. run'[d].thread = rows[decide[d].approval].thread
  BY <1>2, <1>4 DEF IInv, DecideInv
<1>7. DecideInv' /\ ApiTypes'
  BY <1>1, <1>4, <1>5, <1>6, GrantedGoesOn
<1> QED
  BY <1>1, <1>2, <1>3, <1>7, DecideRunKeeps DEF IInv

LEMMA DecideReturnsKeeps ==
    ASSUME IInv, NEW d \in Resumes, DecideReturns(d)
    PROVE  IInv'
<1> DEFINE pc == IF run[d].status = "failed" THEN "broken" ELSE "answered"
<1>1. /\ UNCHANGED <<ckpt, run, calls, rows, chat, audit, cache>>
      /\ decide[d].pc = "running" /\ decide' = [decide EXCEPT ![d].pc = pc]
      /\ pc \in {"running", "answered", "broken"}
  BY DEF DecideReturns, graphVars
<1>2. run[d].status # "idle" => run[d].thread = rows[decide[d].approval].thread
  BY DEF IInv, DecideInv
<1>3. DecideInv' /\ ApiTypes'
  BY <1>1, <1>2, GrantedGoesOn
<1>4. RowInv'
  BY <1>1 DEF IInv, RowInv
<1> QED
  BY <1>1, <1>3, <1>4, ChatPartKeeps DEF IInv

LEMMA DecideAbortsKeeps ==
    ASSUME IInv, NEW d \in Resumes, DecideAborts(d)
    PROVE  IInv'
<1>1. /\ UNCHANGED <<ckpt, run, calls, rows, chat, audit, cache>>
      /\ decide[d].pc = "loaded" /\ decide' = [decide EXCEPT ![d].pc = "aborted"]
  BY DEF DecideAborts, graphVars
<1>2. ApiTypes'
  <2>1. /\ decide[d].approval \in Approvals \cup {NoApproval}
        /\ decide[d].decision \in {"none", "approved", "rejected"}
    BY DEF IInv, ApiTypes
  <2>2. [decide[d] EXCEPT !.pc = "aborted"] \in
            [pc : {"idle", "not_found", "conflict", "loaded", "aborted",
                   "resuming", "running", "answered", "broken"},
             approval : Approvals \cup {NoApproval},
             decision : {"none", "approved", "rejected"}]
    BY <2>1 DEF IInv, ApiTypes
  <2> QED
    BY <1>1, <2>2 DEF IInv, ApiTypes
<1>3. /\ decide'[d].pc = "aborted" /\ run[d].status = "idle"
      /\ \A e \in Resumes \ {d} : decide'[e] = decide[e]
  BY <1>1 DEF IInv, ApiTypes, DecideInv, Granted
<1>4. DecideInv' /\ RowInv'
  BY <1>1, <1>3 DEF IInv, DecideInv, RowInv, Granted, Decided
<1> QED
  BY <1>1, <1>2, <1>4, ChatPartKeeps DEF IInv

LEMMA DecideBreaksKeeps ==
    ASSUME IInv, NEW d \in Resumes, DecideBreaks(d)
    PROVE  IInv'
<1>1. /\ UNCHANGED <<rows, chat, audit, cache>>
      /\ decide[d].pc \in {"resuming", "running"}
      /\ decide' = [decide EXCEPT ![d].pc = "broken"]
      /\ d \in G!Runs
      /\ G!RunDies(d) \/ UNCHANGED graphVars
  BY DEF DecideBreaks, G!Runs
<1>2. run[d].status # "idle" => run[d].thread = rows[decide[d].approval].thread
  BY DEF IInv, DecideInv
<1>3. GP!IInv'
  BY <1>1, GraphSteps DEF IInv
<1>4. CASE UNCHANGED graphVars
  <2>1. UNCHANGED <<ckpt, run, calls>>
    BY <1>4 DEF graphVars
  <2>2. DecideInv' /\ ApiTypes'
    BY <1>1, <1>2, <2>1, GrantedGoesOn
  <2>3. RowInv'
    BY <1>1 DEF IInv, RowInv
  <2> QED
    BY <1>1, <2>1, <2>2, <2>3, ChatPartKeeps DEF IInv
<1>5. CASE G!RunDies(d)
  <2>1. OneRunMoves(d) /\ run[d].status = "running"
    BY <1>1, <1>5, DyingMovesRun
  <2>2. run'[d].thread = run[d].thread /\ \A e \in Resumes \ {d} : run'[e] = run[e]
    BY <2>1 DEF OneRunMoves, G!Runs
  <2>3. DecideInv' /\ ApiTypes'
    BY <1>1, <1>2, <2>1, <2>2, GrantedGoesOn
  <2> QED
    BY <1>1, <1>3, <2>1, <2>3, DecideRunKeeps DEF IInv
<1> QED
  BY <1>1, <1>4, <1>5

-----------------------------------------------------------------------------
(***************************************************************************)
(* Theorems                                                                *)
(***************************************************************************)
LEMMA InitEstablishes == Init => IInv
<1> SUFFICES ASSUME Init PROVE IInv
  OBVIOUS
<1>1. GP!IInv
  BY SameOthers, GP!InitKeeps, GraphAssumed DEF Init
<1>2. \A r \in G!Runs : run[r] = G!NoRun
  BY DEF Init, G!Init
<1>3. G!NoRun.status = "idle" /\ G!NoRun.output = "none"
  BY DEF G!NoRun
<1>4. RunInv /\ CallInv
  BY <1>2, <1>3 DEF RunInv, TurnInOrder, CallInv, G!Runs, Init, G!Init
<1>5. DecideInv /\ RowInv
  BY <1>2, <1>3 DEF Init, DecideInv, RowInv, NoRow, Decided, G!Runs
<1>6. ApiTypes
  BY DEF Init, ApiTypes, NoRow
<1>7. ChatInv /\ AuditInv /\ CachedReplyWasAudited
  BY DEF Init, ChatInv, AuditInv, CachedReplyWasAudited
<1> QED
  BY <1>1, <1>4, <1>5, <1>6, <1>7 DEF IInv

LEMMA StepKeeps == IInv /\ [Next]_vars => IInv'
<1> SUFFICES ASSUME IInv, [Next]_vars PROVE IInv'
  OBVIOUS
<1>1. CASE UNCHANGED vars
  <2>1. UNCHANGED <<ckpt, run, calls, rows, chat, decide, audit, cache>>
    BY <1>1 DEF vars
  <2>2. rows' = rows /\ chat' = chat /\ decide' = decide /\ audit' = audit /\ cache' = cache
    BY <2>1
  <2>3. ApiTypes'
    BY <2>2 DEF IInv, ApiTypes
  <2> QED
    BY <2>1, <2>3, ChatPartKeeps, DecideInvKeeps DEF IInv
<1>2. CASE \E c \in Turns, m \in Messages : ChatHitsCache(c, m)
  BY <1>2, ChatHitsCacheKeeps
<1>3. CASE \E c \in Turns, t \in Threads, m \in Messages, image \in BOOLEAN :
              ChatStarts(c, t, m, image)
  BY <1>3, ChatStartsKeeps
<1>4. CASE \E c \in Turns : ChatProgress(c) \/ ChatBreaks(c)
  BY <1>4, ChatStepKeeps, ChatLeavesStreamKeeps, ChatStoresKeeps, ChatBreaksKeeps
     DEF ChatProgress
<1>5. CASE \E e \in cache : CacheExpires(e)
  BY <1>5, CacheExpiresKeeps
<1>6. CASE \E a \in Approvals, t \in Threads, tool \in Tools : RefundSuspended(a, t, tool)
  BY <1>6, RefundSuspendedKeeps
<1>7. CASE \E d \in Resumes, a \in Approvals, v \in {"approved", "rejected"} :
              DecideReads(d, a, v)
  BY <1>7, DecideReadsKeeps
<1>8. CASE \E d \in Resumes : DecideProgress(d) \/ DecideAborts(d) \/ DecideBreaks(d)
  BY <1>8, DecideCommitsKeeps, DecideResumesKeeps, DecideStepKeeps, DecideReturnsKeeps,
     DecideAbortsKeeps, DecideBreaksKeeps DEF DecideProgress
<1> QED
  BY <1>1, <1>2, <1>3, <1>4, <1>5, <1>6, <1>7, <1>8 DEF Next

\* The inductive invariant holds in every reachable state of the API and its graph.
THEOREM Invariance == Spec => []IInv
BY InitEstablishes, StepKeeps, PTL DEF Spec

\* The tables, the requests' locals and the graph are well typed.
THEOREM TypeCorrectness == Spec => []TypeOK
<1>1. IInv => TypeOK
  BY GraphFacts DEF IInv, ApiTypes, TypeOK
<1> QED
  BY <1>1, Invariance, PTL

\* decide_approval and the interrupt: every tool call, on any interleaving of chat
\* turns, reviewers, crashes and retries, is backed by an approval that was committed
\* for its thread.
THEOREM BackedTheorem == Spec => []CallsBackedByApprovals
<1>1. IInv => CallsBackedByApprovals
  <2> SUFFICES ASSUME IInv, NEW i \in DOMAIN calls
               PROVE  /\ calls[i].run \in Resumes
                      /\ Granted(calls[i].run)
                      /\ rows[decide[calls[i].run].approval].thread = calls[i].thread
    BY DEF CallsBackedByApprovals
  <2>1. calls[i].run \in Resumes /\ run[calls[i].run].status # "idle"
    BY GraphFacts DEF IInv
  <2> QED
    BY <2>1 DEF IInv, CallInv, DecideInv
<1> QED
  BY <1>1, Invariance, PTL

\* _run_turn: what the cache serves was audited.
THEOREM AuditTheorem == Spec => []CachedReplyWasAudited
<1>1. IInv => CachedReplyWasAudited
  BY DEF IInv
<1> QED
  BY <1>1, Invariance, PTL

\* _run_turn: every turn that is reported complete stands at the interrupt and has no
\* reply.
THEOREM SilenceTheorem == Spec => []SilentTurnIsPaused
<1>1. IInv => SilentTurnIsPaused
  BY DEF IInv, AuditInv, SilentTurnIsPaused
<1> QED
  BY <1>1, Invariance, PTL

-----------------------------------------------------------------------------
(***************************************************************************)
(* Refinements                                                             *)
(***************************************************************************)
\* Each step of the API is a step of the graph or leaves the graph alone.
LEMMA ApiStepIsGraphStep ==
    ASSUME IInv, [Next]_vars
    PROVE  [G!Next]_(G!vars)
<1>1. CASE UNCHANGED vars
  BY <1>1 DEF vars, G!vars
<1>2. CASE UNCHANGED graphVars
  BY <1>2 DEF graphVars, G!vars
<1>3. CASE \E c \in Turns, t \in Threads, m \in Messages, image \in BOOLEAN :
              ChatStarts(c, t, m, image)
  BY <1>3 DEF ChatStarts, G!Next
<1>4. ASSUME NEW c \in Turns, ChatProgress(c) \/ ChatBreaks(c)
      PROVE  [G!Next]_(G!vars)
  <2>1. c \in G!Runs
    BY DEF G!Runs
  <2>2. G!NodeStep(c) \/ G!RunDies(c) \/ UNCHANGED graphVars
    BY <1>4 DEF ChatProgress, ChatStep, ChatLeavesStream, ChatStores, ChatBreaks
  <2> QED
    BY <1>2, <2>1, <2>2 DEF G!Next
<1>5. ASSUME NEW d \in Resumes, DecideProgress(d) \/ DecideAborts(d) \/ DecideBreaks(d)
      PROVE  [G!Next]_(G!vars)
  <2>1. d \in G!Runs
    BY DEF G!Runs
  <2>2. CASE DecideResumes(d)
    <3>1. rows[decide[d].approval].thread \in Threads
      BY <2>2 DEF DecideResumes, IInv, DecideInv, RowInv, Decided
    <3> QED
      BY <2>2, <3>1 DEF DecideResumes, G!Next
  <2>3. CASE ~DecideResumes(d)
    <3>1. G!NodeStep(d) \/ G!RunDies(d) \/ UNCHANGED graphVars
      BY <1>5, <2>3 DEF DecideProgress, DecideCommits, DecideStep, DecideReturns,
                        DecideAborts, DecideBreaks
    <3> QED
      BY <1>2, <2>1, <3>1 DEF G!Next
  <2> QED
    BY <2>2, <2>3
<1>6. CASE \/ \E c \in Turns, m \in Messages : ChatHitsCache(c, m)
           \/ \E e \in cache : CacheExpires(e)
           \/ \E a \in Approvals, t \in Threads, tool \in Tools : RefundSuspended(a, t, tool)
           \/ \E d \in Resumes, a \in Approvals, v \in {"approved", "rejected"} :
                 DecideReads(d, a, v)
  BY <1>2, <1>6 DEF ChatHitsCache, CacheExpires, RefundSuspended, DecideReads
<1> QED
  BY <1>1, <1>3, <1>4, <1>5, <1>6 DEF Next

\* main.py drives the graph only through astream: what the API does to the graph is a
\* behaviour of AgentGraph, so its theorems hold under the API too.
THEOREM GraphRefinement == Spec => GraphSpec
<1>1. Init => G!Init
  BY DEF Init
<1> QED
  BY <1>1, ApiStepIsGraphStep, Invariance, PTL DEF Spec, GraphSpec, G!Spec

Grants == {<<d, rows[decide[d].approval].thread>> : d \in {e \in Resumes : Granted(e)}}
Log == [i \in DOMAIN calls |-> <<calls[i].run, calls[i].thread>>]

\* Grants and calls stay what they are when rows keep their threads.
LEMMA GrantsStay ==
    ASSUME IInv,
           \A d \in Resumes : Granted(d)' <=> Granted(d),
           \A d \in Resumes : Granted(d) => decide'[d].approval = decide[d].approval,
           \A a \in Approvals : rows[a].status # "absent" => rows'[a].thread = rows[a].thread
    PROVE  Grants' = Grants
<1>1. \A d \in Resumes : Granted(d) =>
         rows'[decide'[d].approval].thread = rows[decide[d].approval].thread
  BY DEF IInv, DecideInv, Granted, Decided
<1> QED
  BY <1>1 DEF Grants

\* Only a commit grants.
LEMMA OnlyCommitsGrant ==
    ASSUME IInv, [Next]_vars, \A d \in Resumes : ~DecideCommits(d)
    PROVE  Grants' = Grants
<1>1. CASE rows' = rows /\ decide' = decide
  BY <1>1 DEF Grants, Granted
<1>2. CASE \E a \in Approvals, t \in Threads, tool \in Tools : RefundSuspended(a, t, tool)
  <2>1. PICK a \in Approvals, t \in Threads, tool \in Tools : RefundSuspended(a, t, tool)
    BY <1>2
  <2>2. /\ decide' = decide /\ rows[a].status = "absent"
        /\ rows' = [rows EXCEPT ![a] = [status |-> "pending", thread |-> t, tool |-> tool]]
    BY <2>1 DEF RefundSuspended, NoRow
  <2>3. \A b \in Approvals : rows[b].status # "absent" => rows'[b] = rows[b]
    BY <2>2 DEF IInv, ApiTypes
  <2> QED
    BY <2>2, <2>3, GrantsStay DEF Granted
<1>3. ASSUME NEW d \in Resumes, rows' = rows, NEW pc,
             decide' = [decide EXCEPT ![d].pc = pc],
             decide[d].pc \in Decided <=> pc \in Decided
      PROVE  Grants' = Grants
  <2>1. /\ \A e \in Resumes : /\ decide'[e].approval = decide[e].approval
                              /\ decide'[e].decision = decide[e].decision
        /\ decide'[d].pc = pc
        /\ \A e \in Resumes \ {d} : decide'[e].pc = decide[e].pc
    BY <1>3 DEF IInv, ApiTypes
  <2>2. \A e \in Resumes : Granted(e)' <=> Granted(e)
    BY <1>3, <2>1 DEF Granted, Decided
  <2> QED
    BY <1>3, <2>1, <2>2, GrantsStay
<1>4. ASSUME NEW d \in Resumes, DecideProgress(d) \/ DecideAborts(d) \/ DecideBreaks(d)
      PROVE  Grants' = Grants
  <2>1. CASE DecideResumes(d)
    BY <1>3, <2>1 DEF DecideResumes, Decided
  <2>2. CASE DecideStep(d)
    BY <1>1, <2>2 DEF DecideStep
  <2>3. CASE DecideReturns(d)
    <3>1. PICK pc \in {"broken", "answered"} :
             decide' = [decide EXCEPT ![d].pc = pc] /\ rows' = rows /\ decide[d].pc = "running"
      BY <2>3 DEF DecideReturns
    <3> QED
      BY <1>3, <3>1 DEF Decided
  <2>4. CASE DecideAborts(d)
    BY <1>3, <2>4 DEF DecideAborts, Decided
  <2>5. CASE DecideBreaks(d)
    BY <1>3, <2>5 DEF DecideBreaks, Decided
  <2> QED
    BY <1>4, <2>1, <2>2, <2>3, <2>4, <2>5 DEF DecideProgress
<1>5. ASSUME NEW d \in Resumes, NEW a \in Approvals, NEW v \in {"approved", "rejected"},
             DecideReads(d, a, v)
      PROVE  Grants' = Grants
  <2>1. /\ rows' = rows /\ decide[d].pc = "idle"
        /\ decide'[d].pc \in {"not_found", "conflict", "loaded"}
        /\ \A e \in Resumes \ {d} : decide'[e] = decide[e]
    BY <1>5 DEF DecideReads, IInv, ApiTypes
  <2>2. ~Granted(d) /\ ~Granted(d)'
    BY <2>1 DEF Granted
  <2>3. \A e \in Resumes : Granted(e)' <=> Granted(e)
    BY <2>1, <2>2 DEF Granted
  <2> QED
    BY <2>1, <2>2, <2>3, GrantsStay
<1>6. CASE \/ UNCHANGED vars
           \/ \E c \in Turns, m \in Messages : ChatHitsCache(c, m)
           \/ \E c \in Turns, t \in Threads, m \in Messages, image \in BOOLEAN :
                 ChatStarts(c, t, m, image)
           \/ \E e \in cache : CacheExpires(e)
  BY <1>1, <1>6 DEF vars, ChatHitsCache, ChatStarts, CacheExpires
<1>7. ASSUME NEW c \in Turns, ChatProgress(c) \/ ChatBreaks(c)
      PROVE  rows' = rows /\ decide' = decide
  <2>1. chat[c].pc # "holding"
    BY DEF IInv, ChatInv
  <2> QED
    BY <1>7, <2>1 DEF ChatProgress, ChatStep, ChatLeavesStream, ChatStores, ChatBreaks
<1> QED
  BY <1>1, <1>2, <1>4, <1>5, <1>6, <1>7 DEF Next

\* A commit of an approval is a Grant, one of a rejection changes nothing.
LEMMA CommitIsGrant ==
    ASSUME IInv, NEW d \in Resumes, DecideCommits(d)
    PROVE  Gate!Next \/ UNCHANGED <<Grants, Log>>
<1> DEFINE a == decide[d].approval
<1>1. /\ a \in Approvals /\ rows[a].thread \in Threads
      /\ decide[d].pc = "loaded" /\ ~Granted(d)
      /\ calls' = calls
  BY DEF DecideCommits, graphVars, IInv, DecideInv, RowInv, Granted, Decided
<1>0. PICK t \in Threads : t = rows[a].thread
  BY <1>1
<1>2. /\ decide'[d].decision = decide[d].decision /\ decide'[d].approval = a
      /\ decide'[d].pc = IF decide[d].decision = "approved" THEN "resuming" ELSE "answered"
      /\ \A e \in Resumes \ {d} : decide'[e] = decide[e]
      /\ \A b \in Approvals : rows'[b].thread = rows[b].thread
  BY <1>1 DEF DecideCommits, IInv, ApiTypes
<1>3. \A e \in Resumes \ {d} : Granted(e)' <=> Granted(e)
  BY <1>2 DEF Granted
<1>4. \A e \in Resumes : Granted(e) => decide[e].approval \in Approvals
  BY DEF IInv, DecideInv, Granted, Decided
<1>5. Log' = Log
  BY <1>1 DEF Log
<1>6. CASE decide[d].decision = "approved"
  <2>1. Granted(d)'
    BY <1>2, <1>6 DEF Granted
  <2>2. Grants' = Grants \cup {<<d, t>>}
    <3>1. \A x : x \in Grants' => x \in Grants \cup {<<d, t>>}
      BY <1>0, <1>1, <1>2, <1>3, <1>4 DEF Grants
    <3>2. \A x : x \in Grants \cup {<<d, t>>} => x \in Grants'
      BY <1>0, <1>1, <1>2, <1>3, <1>4, <2>1 DEF Grants
    <3> QED
      BY <3>1, <3>2
  <2>3. \A u \in Threads : <<d, u>> \notin Grants
    BY <1>1 DEF Grants
  <2>4. Gate!Grant(d, t)
    BY <1>5, <2>2, <2>3 DEF Gate!Grant, Grants, Log
  <2> QED
    BY <2>4 DEF Gate!Next
<1>7. CASE decide[d].decision # "approved"
  <2>1. ~Granted(d)'
    BY <1>2, <1>7 DEF Granted
  <2>2. Grants' = Grants
    BY <1>1, <1>2, <1>3, <1>4, <2>1 DEF Grants
  <2> QED
    BY <1>5, <2>2
<1> QED
  BY <1>6, <1>7

\* A call is an Invoke under a grant that is not used up.
LEMMA CallIsInvoke ==
    ASSUME IInv, NEW d \in Resumes, DecideStep(d)
    PROVE  Gate!Next \/ UNCHANGED <<Grants, Log>>
<1>1. /\ rows' = rows /\ decide' = decide /\ d \in G!Runs /\ Moves(d)
  BY NodeStepMoves, GraphFacts DEF DecideStep, IInv, G!Runs
<1>2. Grants' = Grants
  BY <1>1 DEF Grants, Granted
<1>3. CASE calls' = calls
  BY <1>2, <1>3 DEF Log
<1>4. CASE calls' # calls
  <2>1. PICK x : /\ calls' = Append(calls, x) /\ x.run = d /\ x.thread = run[d].thread
                 /\ G!At(d, "action_executor")
    BY <1>1, <1>4 DEF Moves
  <2>2. PICK t \in Threads :
           t = run[d].thread /\ t = rows[decide[d].approval].thread /\ Granted(d)
    BY <1>1 DEF Moves, IInv, RunInv, DecideInv
  <2>3. <<d, t>> \in Grants
    BY <2>2 DEF Grants
  <2>4. \A i \in DOMAIN calls : calls[i].run # d
    BY <2>1, GraphFacts DEF IInv
  <2>5. PICK S : calls \in Seq(S) /\ x \in S
    <3>1. PICK S : calls \in Seq(S)
      BY GraphFacts DEF IInv, G!TypeOK
    <3>2. calls \in Seq(S \cup {x})
      BY <3>1
    <3> QED
      BY <3>2
  <2>6. Log' = Append(Log, <<d, t>>)
    <3> DEFINE n == Len(calls)
               Pair(y) == <<y.run, y.thread>>
    <3>1. /\ n \in Nat /\ DOMAIN calls = 1 .. n /\ DOMAIN calls' = 1 .. (n + 1)
          /\ calls'[n + 1] = x /\ \A i \in 1 .. n : calls'[i] = calls[i]
      BY <2>1, <2>5
    <3>2. Log = [i \in 1 .. n |-> Pair(calls[i])] /\ Log' = [i \in 1 .. (n + 1) |-> Pair(calls'[i])]
      BY <3>1 DEF Log
    <3>3. PICK T : Log \in Seq(T) /\ <<d, t>> \in T
      <4> DEFINE T == {Pair(calls[i]) : i \in 1 .. n} \cup {<<d, t>>}
      <4>1. \A i \in 1 .. n : Pair(calls[i]) \in T
        OBVIOUS
      <4> HIDE DEF T, Pair
      <4>2. Log \in Seq(T)
        BY <3>1, <3>2, <4>1
      <4>3. <<d, t>> \in T
        BY DEF T
      <4> QED
        BY <4>2, <4>3
    <3>4. Len(Log) = n
      BY <3>1, <3>2, <3>3
    <3>5. /\ DOMAIN Append(Log, <<d, t>>) = 1 .. (n + 1)
          /\ Append(Log, <<d, t>>)[n + 1] = <<d, t>>
          /\ \A i \in 1 .. n : Append(Log, <<d, t>>)[i] = Log[i]
          /\ Append(Log, <<d, t>>) \in Seq(T)
      BY <3>1, <3>2, <3>3, <3>4
    <3>6. Pair(x) = <<d, t>>
      BY <2>1, <2>2
    <3> HIDE DEF Pair, n
    <3>7. \A i \in 1 .. (n + 1) : Pair(calls'[i]) = Append(Log, <<d, t>>)[i]
      BY <3>1, <3>2, <3>5, <3>6
    <3>8. Append(Log, <<d, t>>) = [i \in 1 .. (n + 1) |-> Append(Log, <<d, t>>)[i]]
      BY <3>5, LenProperties
    <3> QED
      BY <3>2, <3>7, <3>8
  <2>7. \A i \in DOMAIN Log : Log[i][1] # d
    BY <2>4 DEF Log
  <2>8. Gate!Invoke(d, t)
    BY <1>2, <2>3, <2>6, <2>7 DEF Gate!Invoke, Grants, Log
  <2> QED
    BY <2>8 DEF Gate!Next
<1> QED
  BY <1>3, <1>4

LEMMA ApiStepIsGateStep ==
    ASSUME IInv, [Next]_vars
    PROVE  [Gate!Next]_(Gate!gateVars)
<1>1. CASE \E d \in Resumes : DecideCommits(d)
  BY <1>1, CommitIsGrant DEF Gate!gateVars, Grants, Log
<1>2. CASE \E d \in Resumes : DecideStep(d)
  BY <1>2, CallIsInvoke DEF Gate!gateVars, Grants, Log
<1>3. CASE \A d \in Resumes : ~DecideCommits(d) /\ ~DecideStep(d)
  <2>1. Grants' = Grants
    BY <1>3, OnlyCommitsGrant
  <2>2. ASSUME NEW c \in Turns, ChatProgress(c) \/ ChatBreaks(c)
        PROVE  calls' = calls
    BY <2>2, TurnStops, GraphFacts
       DEF ChatProgress, ChatBreaks, ChatStep, ChatLeavesStream, ChatStores, graphVars,
           G!RunDies, IInv, RunInv
  <2>3. ASSUME NEW d \in Resumes, DecideProgress(d) \/ DecideAborts(d) \/ DecideBreaks(d)
        PROVE  calls' = calls
    BY <1>3, <2>3
       DEF DecideProgress, DecideResumes, DecideReturns, DecideAborts, DecideBreaks,
           graphVars, G!Resume, G!RunDies
  <2>4. calls' = calls
    BY <2>2, <2>3
       DEF Next, vars, ChatHitsCache, ChatStarts, CacheExpires, RefundSuspended, DecideReads,
           graphVars, G!StartTurn
  <2>5. Log' = Log
    BY <2>4 DEF Log
  <2> QED
    BY <2>1, <2>5 DEF Gate!gateVars, Grants, Log
<1> QED
  BY <1>1, <1>2, <1>3

\* The approval queue, decide_approval and the graph's interrupt implement ApprovalGate:
\* a reviewer request that approved a thread is good for one call on that thread.
THEOREM GateRefinement == Spec => GateSpec
<1>1. Init => Gate!Init
  <2> SUFFICES ASSUME Init PROVE Grants = {} /\ Log = <<>>
    BY DEF Gate!Init, Grants, Log
  <2>1. \A d \in Resumes : ~Granted(d)
    BY DEF Init, Granted
  <2>2. calls = <<>>
    BY DEF Init, G!Init
  <2> QED
    BY <2>1, <2>2 DEF Grants, Log
<1> QED
  BY <1>1, ApiStepIsGateStep, Invariance, PTL DEF Spec, GateSpec, Gate!Spec
=============================================================================
