------------------------------- MODULE ToolChain -------------------------------
(***************************************************************************)
(* From call_tool to the order store and the payment provider: McpClient,  *)
(* with one HTTP server, composed with OrderTools.  Every POST the server  *)
(* takes up is one execution of a tool, job <<c, n>> for the n-th send of  *)
(* call c; so a call that is sent again after a lost answer is carried out *)
(* again, with the same arguments and beside the execution before it.      *)
(***************************************************************************)
EXTENDS OrderTools, FiniteSets

CONSTANTS Calls, MaxSends, Server, Nobody, NoServer

VARIABLES
    startup, registry, rpc, lock, process, stdin, stdout, wire, executed, abandoned,
    request     \* request[c]: the tool arguments of call c

clientVars == <<startup, registry, rpc, lock, process, stdin, stdout, wire, executed,
                abandoned>>
toolVars == <<order, job, effects, allowed>>
chainVars == <<clientVars, toolVars, request>>

Tools == {"execute_order_action", "process_high_value_refund"}

C == INSTANCE McpClient WITH Servers <- {Server}, StdioServers <- {}

ASSUME ChainAssumption ==
    /\ Jobs = Calls \X (1 .. MaxSends)
    /\ C!McpAssumption

\* The arguments of both tools; an order action has no amount, a refund no action.
Request ==
    [tool : {"execute_order_action"}, action : Actions, order : Orders, amount : {0}] \cup
    [tool : {"process_high_value_refund"}, action : {"refund"}, order : Orders,
     amount : Amounts]

NoRequest == [tool |-> "none", action |-> "none", order |-> NoOrder, amount |-> 0]

\* A worker whose start-up found both tools at the server.
ChainInit ==
    /\ Init
    /\ startup = [pc |-> "serving", todo |-> {}]
    /\ registry = [t \in Tools |-> Server]
    /\ rpc = [c \in C!Rpcs |-> C!NoRpc]
    /\ wire = {}
    /\ executed = [c \in Calls |-> 0]
    /\ lock = <<>> /\ process = <<>> /\ stdin = <<>> /\ stdout = <<>> /\ abandoned = <<>>
    /\ request = [c \in Calls |-> NoRequest]

-----------------------------------------------------------------------------
Calling(c, r) ==
    /\ C!CallTool(c, r.tool)
    /\ request' = [request EXCEPT ![c] = r]
    /\ UNCHANGED toolVars

\* Posts, timeouts and refused connections, and callers that go away.
ClientStep(c) ==
    /\ C!HttpPosts(c) \/ C!HttpFails(c) \/ C!Cancelled(c)
    /\ UNCHANGED <<toolVars, request>>

\* The server takes up a POST and calls the tool it names.
TakenUp(c, n) ==
    LET r == request[c] IN
    /\ C!HttpExecutes(c, n)
    /\ \/ OrderActionCalled(<<c, n>>, r.order, r.action) /\ r.action \in Actions
       \/ RefundCalled(<<c, n>>, r.order, r.amount) /\ r.action = "refund"
    /\ Watch
    /\ UNCHANGED request

\* The server answers a POST when its tool has returned, and with an error when it
\* has raised.
Answered(c) ==
    LET j == <<c, rpc[c].sends>> IN
    /\ C!HttpResponds(c)
    /\ job[j].pc \in {"done", "raised"}
    /\ rpc'[c].pc = "answered" => job[j].pc = "done"
    /\ rpc'[c].pc = "failed" => job[j].pc = "raised"
    /\ UNCHANGED <<toolVars, request>>

ToolStep(j) == JobStep(j) /\ Watch /\ UNCHANGED <<clientVars, request>>

ChainNext ==
    \/ \E c \in Calls, r \in Request : Calling(c, r)
    \/ \E c \in Calls : ClientStep(c) \/ Answered(c)
    \/ \E c \in Calls, n \in 1 .. MaxSends : TakenUp(c, n)
    \/ \E j \in Jobs : ToolStep(j)
    \/ \E o \in Orders : Warehouse(o) /\ Watch /\ UNCHANGED <<clientVars, request>>

ChainSpec == ChainInit /\ [][ChainNext]_chainVars

-----------------------------------------------------------------------------
(***************************************************************************)
(* Properties                                                              *)
(***************************************************************************)
Did(c, effect) == {n \in 1 .. MaxSends : effect \in effects[<<c, n>>]}

MayStill(c) ==
    {n \in 1 .. MaxSends : <<c, n>> \in wire \/ job[<<c, n>>].pc \in Active}

\* What the caller was told.
Told(c) == IF rpc[c].pc = "answered" THEN job[<<c, rpc[c].sends>>].reply ELSE "nothing"

\* _call and process_high_value_refund: without an idempotency key one call may be
\* paid several times, but never more often than it was sent, late executions
\* included; and a caller who is told that it was paid was paid for, once if it was
\* sent once.
PaymentsBounded ==
    \A c \in Calls :
        /\ Cardinality(Did(c, "issue") \cup MayStill(c)) <= rpc[c].sends
        /\ Told(c) = "not_required" => Did(c, "issue") # {}
        /\ Told(c) \in {"pending", "failed"} => Did(c, "issue") = {}

\* _call and execute_order_action: what a caller is told of a cancellation is final:
\* after a FAILED the order is not, and after a SUCCESS never again, on its way to be
\* shipped, also when the answer of an earlier send was lost.
CancelAnswerIsFinal ==
    \A c \in Calls :
        request[c].action = "cancel" =>
            LET status == order[request[c].order].status IN
            /\ Told(c) = "failed" => status # "processing"
            /\ Told(c) = "success" => status = "cancelled"
=============================================================================
