------------------------------ MODULE SupportApi ------------------------------
(***************************************************************************)
(* app/api/main.py around the graph: the chat handler (_run_turn), the     *)
(* approval endpoint (decide_approval), and the tables they share: the     *)
(* approval queue, the audit trail and the semantic cache.                 *)
(*                                                                         *)
(* Every request is a coroutine of its own, in any of the uvicorn workers; *)
(* an action is the code between two awaits that other requests can        *)
(* overtake.  A chat request's id is the id of the Turn run it starts, a   *)
(* decide request's id is the id of the Resume run it starts.              *)
(***************************************************************************)
EXTENDS Integers, Sequences

CONSTANTS
    Threads, Turns, Resumes, Tools, GatedTools,
    NoTool, NoTurn, NoThread, MaxAttempts, VisionEnabled,
    Approvals,      \* primary keys of approval_queue
    NoApproval,
    Messages,       \* chat messages, up to semantic similarity
    NoMessage

VARIABLES
    ckpt, run, calls,   \* AgentGraph
    rows,               \* rows[a]: the approval_queue row a
    chat,               \* chat[c]: chat request c inside _run_turn
    decide,             \* decide[d]: request d inside decide_approval
    audit,              \* audit_trail
    cache               \* live entries of the semantic cache

graphVars == <<ckpt, run, calls>>
vars == <<ckpt, run, calls, rows, chat, decide, audit, cache>>

G == INSTANCE AgentGraph

ASSUME ApiAssumption ==
    /\ G!GraphAssumption
    /\ NoApproval \notin Approvals
    /\ NoMessage \notin Messages

Replies == {"none", "no_action", "done"}

NoRow == [status |-> "absent", thread |-> NoThread, tool |-> NoTool]

Init ==
    /\ G!Init
    /\ rows = [a \in Approvals |-> NoRow]
    /\ chat = [c \in Turns |-> [pc |-> "idle", message |-> NoMessage]]
    /\ decide = [d \in Resumes |-> [pc |-> "idle", approval |-> NoApproval,
                                    decision |-> "none"]]
    /\ audit = {}
    /\ cache = {}

-----------------------------------------------------------------------------
(***************************************************************************)
(* POST /chat/stream and the WebSocket: _run_turn                          *)
(***************************************************************************)
Hits(m) == {e \in cache : e.message = m}

\* The semantic cache answers, at the moment its lookup reads e; the graph is not
\* entered.
ChatHitsCache(c, m) ==
    /\ chat[c].pc = "idle"
    /\ Hits(m) # {}
    /\ chat' = [chat EXCEPT ![c] = [pc |-> "cache_hit", message |-> m]]
    /\ UNCHANGED <<graphVars, rows, decide, audit, cache>>

\* The semantic cache misses, which it may do also when a similar entry is live:
\* the entry came too late for the scan or is another worker's (SemanticCache).
ChatStarts(c, t, m, image) ==
    /\ chat[c].pc = "idle"
    /\ G!StartTurn(c, t, image)
    /\ chat' = [chat EXCEPT ![c] = [pc |-> "streaming", message |-> m]]
    /\ UNCHANGED <<rows, decide, audit, cache>>

\* One event of graph.astream: a node ran, and requires_human_approval is asked
\* of the values it left.
ChatStep(c) ==
    /\ chat[c].pc = "streaming"
    /\ G!NodeStep(c)
    /\ chat' = IF G!RequiresHumanApproval(ckpt'[run[c].thread].state)
               THEN [chat EXCEPT ![c].pc = "holding"] ELSE chat
    /\ UNCHANGED <<rows, decide, audit, cache>>

\* Mutant: the turn ends with the first event.
StreamedOnce(c) == chat[c].pc = "streaming" /\ run[c].status # "idle"

Streamed(c) == chat[c].pc = "streaming" /\ run[c].status \in {"paused", "done"}

\* What leaves with the turn: an event that required approval inserts a row, and
\* the generator returns, closing the stream; otherwise complete_turn is audited.
\* Nothing here asks whether the graph reached END.
ChatLeavesStream(c) ==
    LET t == run[c].thread
        held == chat[c].pc = "holding" IN
    /\ held \/ Streamed(c)
    /\ chat' = [chat EXCEPT ![c].pc = IF held THEN "held" ELSE "storing"]
    /\ audit' = IF held THEN audit
                ELSE audit \cup {[turn |-> c, thread |-> t, reply |-> run[c].output]}
    /\ IF held
       THEN \E a \in {b \in Approvals : rows[b] = NoRow} :
               rows' = [rows EXCEPT ![a] =
                           [status |-> "pending", thread |-> t,
                            tool |-> ckpt[t].state.pending_tool_call.tool]]
       ELSE rows' = rows
    /\ IF G!Running(c) THEN G!RunDies(c) ELSE UNCHANGED graphVars
    /\ UNCHANGED <<decide, cache>>

\* Mutant: the reply is cached as soon as the stream ends, before the audit.
ChatStoresEarly(c) ==
    /\ Streamed(c)
    /\ cache' = cache \cup {[message |-> chat[c].message, thread |-> run[c].thread,
                             reply |-> run[c].output]}
    /\ chat' = [chat EXCEPT ![c].pc = "replied"]
    /\ UNCHANGED <<graphVars, rows, decide, audit>>

\* semantic_cache.store and the final_output event.
ChatStores(c) ==
    /\ chat[c].pc = "storing"
    /\ cache' = cache \cup {[message |-> chat[c].message, thread |-> run[c].thread,
                             reply |-> run[c].output]}
    /\ chat' = [chat EXCEPT ![c].pc = "replied"]
    /\ UNCHANGED <<graphVars, rows, decide, audit>>

\* Mutant: a broken request wipes its thread's checkpoint.
ChatBreaksForgets(c) ==
    /\ chat[c].pc \in {"streaming", "holding", "storing"}
    /\ chat' = [chat EXCEPT ![c].pc = "broken"]
    /\ ckpt' = [ckpt EXCEPT ![run[c].thread].next = "absent"]
    /\ UNCHANGED <<run, calls, rows, decide, audit, cache>>

\* The client disconnects, or a node, Postgres or Redis raises.
ChatBreaks(c) ==
    /\ chat[c].pc \in {"streaming", "holding", "storing"}
    /\ chat' = [chat EXCEPT ![c].pc = "broken"]
    /\ IF G!Running(c) THEN G!RunDies(c) ELSE UNCHANGED graphVars
    /\ UNCHANGED <<rows, decide, audit, cache>>

\* Redis drops an entry when its TTL is over.
CacheExpires(e) ==
    /\ e \in cache
    /\ cache' = cache \ {e}
    /\ UNCHANGED <<graphVars, rows, chat, decide, audit>>

-----------------------------------------------------------------------------
(***************************************************************************)
(* POST /approvals/{id}/decide                                             *)
(***************************************************************************)
\* process_high_value_refund in a tool server suspends a refund of thread t: its
\* enqueue_approval callback inserts the row.
RefundSuspended(a, t, tool) ==
    /\ tool \in GatedTools
    /\ rows[a] = NoRow
    /\ rows' = [rows EXCEPT ![a] = [status |-> "pending", thread |-> t, tool |-> tool]]
    /\ UNCHANGED <<graphVars, chat, decide, audit, cache>>

\* session.get and the two checks, which need no further await.
DecideReads(d, a, verdict) ==
    /\ decide[d].pc = "idle"
    /\ decide' = [decide EXCEPT ![d] =
                     [pc |-> IF rows[a] = NoRow THEN "not_found"
                             ELSE IF rows[a].status # "pending" THEN "conflict"
                             ELSE "loaded",
                      approval |-> a, decision |-> verdict]]
    /\ UNCHANGED <<graphVars, rows, chat, audit, cache>>

\* Mutant: `if decision.decision == "approved"` is missing.
DecideCommitsAndResumes(d) ==
    /\ decide[d].pc = "loaded"
    /\ rows' = [rows EXCEPT ![decide[d].approval].status = decide[d].decision]
    /\ decide' = [decide EXCEPT ![d].pc = "resuming"]
    /\ UNCHANGED <<graphVars, chat, audit, cache>>

\* session.commit: an UPDATE by primary key, whatever the row holds by now.
DecideCommits(d) ==
    /\ decide[d].pc = "loaded"
    /\ rows' = [rows EXCEPT ![decide[d].approval].status = decide[d].decision]
    /\ decide' = [decide EXCEPT ![d].pc = IF decide[d].decision = "approved"
                                          THEN "resuming" ELSE "answered"]
    /\ UNCHANGED <<graphVars, chat, audit, cache>>

DecideResumes(d) ==
    /\ decide[d].pc = "resuming"
    /\ G!Resume(d, rows[decide[d].approval].thread)
    /\ decide' = [decide EXCEPT ![d].pc = "running"]
    /\ UNCHANGED <<rows, chat, audit, cache>>

\* `async for _ in graph.astream(None, ...)`: the events are discarded.
DecideStep(d) ==
    /\ decide[d].pc = "running"
    /\ G!NodeStep(d)
    /\ UNCHANGED <<rows, chat, decide, audit, cache>>

\* Mutant: the endpoint waits for the graph to reach END.
DecideReturnsAtEnd(d) ==
    /\ decide[d].pc = "running"
    /\ run[d].status \in {"done", "failed"}
    /\ decide' = [decide EXCEPT ![d].pc = IF run[d].status = "failed"
                                          THEN "broken" ELSE "answered"]
    /\ UNCHANGED <<graphVars, rows, chat, audit, cache>>

DecideReturns(d) ==
    /\ decide[d].pc = "running"
    /\ ~G!Running(d)
    /\ decide' = [decide EXCEPT ![d].pc = IF run[d].status = "failed"
                                          THEN "broken" ELSE "answered"]
    /\ UNCHANGED <<graphVars, rows, chat, audit, cache>>

\* The commit fails or the request dies before it: nothing was written.
DecideAborts(d) ==
    /\ decide[d].pc = "loaded"
    /\ decide' = [decide EXCEPT ![d].pc = "aborted"]
    /\ UNCHANGED <<graphVars, rows, chat, audit, cache>>

\* The request dies, or a node raises, after the decision was committed.
DecideBreaks(d) ==
    /\ decide[d].pc \in {"resuming", "running"}
    /\ decide' = [decide EXCEPT ![d].pc = "broken"]
    /\ IF G!Running(d) THEN G!RunDies(d) ELSE UNCHANGED graphVars
    /\ UNCHANGED <<rows, chat, audit, cache>>

-----------------------------------------------------------------------------
ChatProgress(c) == ChatStep(c) \/ ChatLeavesStream(c) \/ ChatStores(c)

DecideProgress(d) ==
    DecideCommits(d) \/ DecideResumes(d) \/ DecideStep(d) \/ DecideReturns(d)

Next ==
    \/ \E c \in Turns, m \in Messages : ChatHitsCache(c, m)
    \/ \E c \in Turns, t \in Threads, m \in Messages, image \in BOOLEAN :
          ChatStarts(c, t, m, image)
    \/ \E c \in Turns : ChatProgress(c) \/ ChatBreaks(c)
    \/ \E e \in cache : CacheExpires(e)
    \/ \E a \in Approvals, t \in Threads, tool \in Tools : RefundSuspended(a, t, tool)
    \/ \E d \in Resumes, a \in Approvals, v \in {"approved", "rejected"} :
          DecideReads(d, a, v)
    \/ \E d \in Resumes : DecideProgress(d) \/ DecideAborts(d) \/ DecideBreaks(d)

Spec == Init /\ [][Next]_vars

\* A request's coroutine is rescheduled whenever its await completes, and the
\* database, Redis and LLM clients bound every await.  Users, reviewers, tool
\* servers and failures owe nothing.
FairSpec ==
    /\ Spec
    /\ \A c \in Turns : WF_vars(ChatProgress(c))
    /\ \A d \in Resumes : WF_vars(DecideProgress(d))

-----------------------------------------------------------------------------
(***************************************************************************)
(* Properties                                                              *)
(***************************************************************************)
TypeOK ==
    /\ G!TypeOK
    /\ rows \in [Approvals -> [status : {"absent", "pending", "approved", "rejected"},
                               thread : Threads \cup {NoThread},
                               tool : Tools \cup {NoTool}]]
    /\ chat \in [Turns -> [pc : {"idle", "cache_hit", "streaming", "holding", "held",
                                 "storing", "replied", "broken"},
                           message : Messages \cup {NoMessage}]]
    /\ decide \in [Resumes -> [pc : {"idle", "not_found", "conflict", "loaded", "aborted",
                                     "resuming", "running", "answered", "broken"},
                               approval : Approvals \cup {NoApproval},
                               decision : {"none", "approved", "rejected"}]]
    /\ audit \subseteq [turn : Turns, thread : Threads, reply : Replies]
    /\ cache \subseteq [message : Messages, thread : Threads, reply : Replies]

\* Request d committed an approval.
Granted(d) ==
    /\ decide[d].decision = "approved"
    /\ decide[d].pc \in {"resuming", "running", "answered", "broken"}

\* decide_approval: no tool is invoked on a thread except under a reviewer request
\* that committed an approval of a row of that very thread, whatever chat turns,
\* racing decisions, crashes and retries do.
CallsBackedByApprovals ==
    \A i \in DOMAIN calls :
        LET d == calls[i].run IN
        /\ d \in Resumes
        /\ Granted(d)
        /\ rows[decide[d].approval].thread = calls[i].thread

\* _run_turn: the cache never serves a reply that the audit trail does not know: a turn
\* that breaks between the two writes leaves the audit row, not the cache entry.
CachedReplyWasAudited ==
    \A e \in cache : \E x \in audit : x.thread = e.thread /\ x.reply = e.reply

\* _run_turn: a turn is reported complete without a reply in exactly one case, when its
\* graph stopped before the executor; it then waits for a reviewer who was not asked.
SilentTurnIsPaused ==
    \A x \in audit : x.reply = "none" <=> run[x.turn].status = "paused"

\* main.py drives the graph only through astream: the API implements AgentGraph.
GraphSpec == G!Spec

Gate == INSTANCE ApprovalGate WITH
            Reviewers <- Resumes,
            granted <- {<<d, rows[decide[d].approval].thread>> : d \in {e \in Resumes : Granted(e)}},
            log <- [i \in DOMAIN calls |-> <<calls[i].run, calls[i].thread>>]

\* The approval queue, decide_approval and the graph's interrupt together implement
\* ApprovalGate.
GateSpec == Gate!Spec

\* Every chat turn and decision is answered or ends in an error.
RequestsTerminate ==
    /\ \A c \in Turns : chat[c].pc = "streaming" ~>
                            chat[c].pc \in {"held", "replied", "broken"}
    /\ \A d \in Resumes : decide[d].pc = "loaded" ~>
                              decide[d].pc \in {"answered", "aborted", "broken"}

\* app/api/main.py:243-244, "approval already {row.status}": a row is decided
\* by at most one request.
OneDecisionPerApproval ==
    \A d, e \in Resumes :
        /\ d # e
        /\ decide[d].pc \in {"resuming", "running", "answered", "broken"}
        /\ decide[e].pc \in {"resuming", "running", "answered", "broken"}
        => decide[d].approval # decide[e].approval
=============================================================================
