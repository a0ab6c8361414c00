------------------------------ MODULE OrderTools ------------------------------
(***************************************************************************)
(* The two tools that act for a customer: execute_order_action with its    *)
(* rule engine (app/tools/order_actions.py) and process_high_value_refund  *)
(* (app/tools/refunds.py).                                                 *)
(*                                                                         *)
(* A job is one execution of a tool.  The same request may well be two     *)
(* jobs: the MCP client sends a call again whose answer it lost, and the   *)
(* executor node retries.  The order store, the payment provider and the   *)
(* approval queue are behind awaited callbacks; orders move on meanwhile.  *)
(***************************************************************************)
EXTENDS Integers

CONSTANTS
    Orders,
    Jobs,
    NoOrder,
    Amounts,        \* amount_usd; a validated amount may have been rounded to 0
    Threshold       \* settings.high_value_refund_threshold_usd

ASSUME ToolsAssumption ==
    /\ NoOrder \notin Orders
    /\ Amounts \subseteq Nat
    /\ Threshold \in Nat

VARIABLES
    order,      \* order[o]: the record behind lookup_order and mutate_order
    job,        \* job[j]: arguments and locals of execution j
    effects,    \* history: effects[j]: the callbacks of job j that took effect
    allowed     \* history: jobs whose action the rules let pass at some moment so far

vars == <<order, job, effects, allowed>>

Actions == {"cancel", "modify_address", "expedite_shipping", "resend"}

OrderRecord ==
    [status : {"absent", "processing", "shipped", "delivered", "cancelled"},
     in_stock : BOOLEAN]

Missing == [status |-> "absent", in_stock |-> TRUE]

NoJob == [pc |-> "idle", action |-> "none", order |-> NoOrder, record |-> Missing,
          amount |-> 0, reply |-> "none"]

Init ==
    /\ order \in [Orders -> {Missing, [Missing EXCEPT !.status = "processing"]}]
    /\ job = [j \in Jobs |-> NoJob]
    /\ effects = [j \in Jobs |-> {}]
    /\ allowed = {}

-----------------------------------------------------------------------------
(***************************************************************************)
(* The rules of build_default_rule_engine; rec is a looked-up order        *)
(***************************************************************************)
AlreadyCancelled(a, rec) == a = "cancel" /\ rec.status = "cancelled"
ShippedForCancel(a, rec) == a = "cancel" /\ rec.status = "shipped"
PastAddressChangeWindow(a, rec) ==
    a = "modify_address" /\ rec.status \in {"shipped", "delivered"}
ExpediteBackordered(a, rec) == a = "expedite_shipping" /\ ~rec.in_stock

Refused(a, rec) ==
    \/ AlreadyCancelled(a, rec)
    \/ ShippedForCancel(a, rec)
    \/ PastAddressChangeWindow(a, rec)
    \/ ExpediteBackordered(a, rec)

-----------------------------------------------------------------------------
(***************************************************************************)
(* The order store, seen through the callbacks                             *)
(***************************************************************************)
Warehouse(o) ==
    /\ \/ /\ order[o].status = "processing"
          /\ order' = [order EXCEPT ![o].status = "shipped"]
       \/ /\ order[o].status = "shipped"
          /\ order' = [order EXCEPT ![o].status = "delivered"]
       \/ /\ order[o].status = "processing"
          /\ order' = [order EXCEPT ![o].in_stock = ~@]
    /\ UNCHANGED <<job, effects>>

\* What mutate_order leaves of the order's status: only a cancellation shows in
\* what the rules read.
Mutated(a, rec) == IF a = "cancel" THEN [rec EXCEPT !.status = "cancelled"] ELSE rec

-----------------------------------------------------------------------------
(***************************************************************************)
(* execute_order_action                                                    *)
(***************************************************************************)
OrderActionCalled(j, o, a) ==
    /\ job[j].pc = "idle"
    /\ job' = [job EXCEPT ![j].pc = "looking", ![j].action = a, ![j].order = o]
    /\ UNCHANGED <<order, effects>>

\* Mutant: `if order_record is None` is missing.
LookupReturnsAnything(j) ==
    /\ job[j].pc = "looking"
    /\ job' = [job EXCEPT ![j].pc = "validating", ![j].record = order[job[j].order]]
    /\ UNCHANGED <<order, effects>>

\* lookup_order answers with the order as it is now, or with None.
LookupReturns(j) ==
    LET rec == order[job[j].order] IN
    /\ job[j].pc = "looking"
    /\ job' = [job EXCEPT ![j] =
                  IF rec.status = "absent"
                  THEN [@ EXCEPT !.pc = "done", !.reply = "failed"]
                  ELSE [@ EXCEPT !.pc = "validating", !.record = rec]]
    /\ UNCHANGED <<order, effects>>

\* Mutant: `if not valid` is missing.
ValidatesNothing(j) ==
    /\ job[j].pc = "validating"
    /\ job' = [job EXCEPT ![j].pc = "mutating"]
    /\ UNCHANGED <<order, effects>>

\* rule_engine.validate judges the record that was looked up.
Validates(j) ==
    /\ job[j].pc = "validating"
    /\ job' = [job EXCEPT ![j] =
                  IF Refused(@.action, @.record)
                  THEN [@ EXCEPT !.pc = "done", !.reply = "failed"]
                  ELSE [@ EXCEPT !.pc = "mutating"]]
    /\ UNCHANGED <<order, effects>>

\* mutate_order is given the order's id, not the record that was judged.
Mutates(j) ==
    /\ job[j].pc = "mutating"
    /\ order' = [order EXCEPT ![job[j].order] = Mutated(job[j].action, @)]
    /\ effects' = [effects EXCEPT ![j] = @ \cup {"mutate"}]
    /\ job' = [job EXCEPT ![j].pc = "done", ![j].reply = "success"]

-----------------------------------------------------------------------------
(***************************************************************************)
(* process_high_value_refund                                               *)
(***************************************************************************)
RefundCalled(j, o, amount) ==
    /\ job[j].pc = "idle"
    /\ job' = [job EXCEPT ![j].pc = IF amount > Threshold THEN "enqueueing" ELSE "issuing",
                          ![j].action = "refund", ![j].order = o, ![j].amount = amount]
    /\ UNCHANGED <<order, effects>>

Enqueues(j) ==
    /\ job[j].pc = "enqueueing"
    /\ effects' = [effects EXCEPT ![j] = @ \cup {"enqueue"}]
    /\ job' = [job EXCEPT ![j].pc = "done", ![j].reply = "pending"]
    /\ UNCHANGED order

Issues(j) ==
    /\ job[j].pc = "issuing"
    /\ effects' = [effects EXCEPT ![j] = @ \cup {"issue"}]
    /\ job' = [job EXCEPT ![j].pc = "done", ![j].reply = "not_required"]
    /\ UNCHANGED order

-----------------------------------------------------------------------------
Active == {"looking", "validating", "mutating", "enqueueing", "issuing"}

\* Mutant: an exception of mutate_order is caught and reported as FAILED.
CallbackFailureCaught(j) ==
    /\ job[j].pc \in Active
    /\ job' = [job EXCEPT ![j].pc = "done", ![j].reply = "failed"]
    /\ \/ UNCHANGED <<order, effects>>
       \/ /\ job[j].pc = "mutating"
          /\ order' = [order EXCEPT ![job[j].order] = Mutated(job[j].action, @)]
          /\ effects' = [effects EXCEPT ![j] = @ \cup {"mutate"}]

\* Mutant: a refund whose issue_refund raised is handed to a reviewer.
IssueFailureEnqueued(j) ==
    /\ job[j].pc = "issuing"
    /\ \/ effects' = [effects EXCEPT ![j] = @ \cup {"enqueue"}]
       \/ effects' = [effects EXCEPT ![j] = @ \cup {"issue", "enqueue"}]
    /\ job' = [job EXCEPT ![j].pc = "done", ![j].reply = "pending"]
    /\ UNCHANGED order

\* A callback raises or its process dies, before or after it took effect; neither
\* tool catches anything, so there is no reply.
CallbackFails(j) ==
    /\ job[j].pc \in Active
    /\ job' = [job EXCEPT ![j].pc = "raised"]
    /\ \/ UNCHANGED <<order, effects>>
       \/ /\ job[j].pc = "mutating"
          /\ order' = [order EXCEPT ![job[j].order] = Mutated(job[j].action, @)]
          /\ effects' = [effects EXCEPT ![j] = @ \cup {"mutate"}]
       \/ /\ job[j].pc \in {"enqueueing", "issuing"}
          /\ effects' = [effects EXCEPT ![j] =
                            @ \cup {IF job[j].pc = "issuing" THEN "issue" ELSE "enqueue"}]
          /\ UNCHANGED order

\* An active job's action becomes allowed when the rules would let it pass on the
\* store as it then is.
Watch ==
    allowed' = allowed \cup
        {j \in Jobs : /\ job'[j].pc \in Active
                      /\ ~Refused(job'[j].action, order'[job'[j].order])}

JobStep(j) ==
    \/ LookupReturns(j) \/ Validates(j) \/ Mutates(j)
    \/ Enqueues(j) \/ Issues(j)
    \/ CallbackFails(j)

Next ==
    \/ \E o \in Orders : Warehouse(o) /\ Watch
    \/ \E j \in Jobs, o \in Orders, a \in Actions : OrderActionCalled(j, o, a) /\ Watch
    \/ \E j \in Jobs, o \in Orders, amount \in Amounts : RefundCalled(j, o, amount) /\ Watch
    \/ \E j \in Jobs : JobStep(j) /\ Watch

Spec == Init /\ [][Next]_vars

-----------------------------------------------------------------------------
(***************************************************************************)
(* Properties                                                              *)
(***************************************************************************)
TypeOK ==
    /\ order \in [Orders -> OrderRecord]
    /\ job \in [Jobs -> [pc : Active \cup {"idle", "done", "raised"},
                         action : Actions \cup {"none", "refund"},
                         order : Orders \cup {NoOrder},
                         record : OrderRecord,
                         amount : Amounts \cup {0},
                         reply : {"none", "success", "failed", "pending", "not_required"}]]
    /\ \A j \in Jobs :
          job[j].pc \in {"validating", "mutating"} => job[j].record.status # "absent"
    /\ effects \in [Jobs -> SUBSET {"mutate", "enqueue", "issue"}]
    /\ allowed \subseteq Jobs

\* execute_order_action, process_high_value_refund: a reply tells the truth about
\* what was done and it stays true whatever other jobs, the warehouse and failing
\* callbacks do: FAILED changed nothing, a successful cancellation holds, and
\* money leaves unapproved only up to the threshold.
ReplyTellsEffect ==
    \A j \in Jobs :
        /\ job[j].reply = "failed" => effects[j] = {}
        /\ job[j].reply = "success" =>
              /\ effects[j] = {"mutate"}
              /\ job[j].action = "cancel" => order[job[j].order].status = "cancelled"
        /\ job[j].reply = "pending" => effects[j] = {"enqueue"} /\ job[j].amount > Threshold
        /\ "issue" \in effects[j] => job[j].amount <= Threshold

\* OrderRuleEngine: an order is only mutated by a job whose rules all held at one
\* moment while the job ran; not necessarily at the moment of the mutation.
MutatedOnlyIfAllowed ==
    \A j \in Jobs : "mutate" \in effects[j] => j \in allowed
=============================================================================
