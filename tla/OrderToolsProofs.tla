--------------------------- MODULE OrderToolsProofs ---------------------------
(***************************************************************************)
(* The invariants of OrderTools for any number of executions and orders    *)
(* and any amounts and threshold, and those of ToolChain, which puts the   *)
(* tools behind the MCP client, for any number of calls and sends.         *)
(*                                                                         *)
(* The inductive invariant of OrderTools says what an execution under way  *)
(* can rely on: it has done nothing yet, a refund's amount is on the side  *)
(* of the threshold its branch was chosen for, and an action on its way to *)
(* mutate_order was already allowed by the rules - the record they judged  *)
(* was the store's when it was looked up, which is what Watch records.     *)
(* The theorems about ToolChain take it and the invariant of               *)
(* McpClientProofs over, each through the steps of its part, and add what  *)
(* ties an execution to the send that caused it.                           *)
(***************************************************************************)
EXTENDS ToolChain, FiniteSetTheorems, SequenceTheorems, TLAPS

JobRecord ==
    [pc : Active \cup {"idle", "done", "raised"},
     action : Actions \cup {"none", "refund"},
     order : Orders \cup {NoOrder},
     record : OrderRecord,
     amount : Amounts \cup {0},
     reply : {"none", "success", "failed", "pending", "not_required"}]

Callbacks == {"mutate", "enqueue", "issue"}

\* Execution r has had the effects eff, and what it will do suits its amount.
Faithful(r, eff) ==
    /\ r \in JobRecord
    /\ r.pc \in {"validating", "mutating"} => r.record.status # "absent"
    /\ eff \subseteq Callbacks
    /\ r.pc \in Active \cup {"idle"} => eff = {}
    /\ r.pc # "done" => r.reply = "none"
    /\ r.pc \in Active \/ r.reply = "success" => r.order \in Orders
    /\ r.pc = "enqueueing" => r.amount > Threshold
    /\ r.pc = "issuing" => r.amount <= Threshold

\* The part of ReplyTellsEffect that only looks at the execution itself.
Truthful(r, eff) ==
    /\ r.reply = "failed" => eff = {}
    /\ r.reply = "success" => eff = {"mutate"}
    /\ r.reply = "pending" => eff = {"enqueue"} /\ r.amount > Threshold
    /\ "issue" \in eff => r.amount <= Threshold

\* The part that looks at the store.
CancelHolds(r, store) ==
    r.reply = "success" /\ r.action = "cancel" => store[r.order].status = "cancelled"

\* The rules have let execution j pass before it comes to mutate_order.
Passed(j, r, eff, passed) ==
    /\ r.pc = "validating" /\ ~Refused(r.action, r.record) => j \in passed
    /\ r.pc = "mutating" => j \in passed
    /\ "mutate" \in eff => j \in passed

StoreInv ==
    /\ order \in [Orders -> OrderRecord]
    /\ DOMAIN job = Jobs /\ job = [j \in Jobs |-> job[j]]
    /\ DOMAIN effects = Jobs /\ effects = [j \in Jobs |-> effects[j]]
    /\ allowed \subseteq Jobs

JobInv ==
    \A j \in Jobs :
        /\ Faithful(job[j], effects[j])
        /\ Truthful(job[j], effects[j])
        /\ CancelHolds(job[j], order)
        /\ Passed(j, job[j], effects[j], allowed)

IInv == StoreInv /\ JobInv

-----------------------------------------------------------------------------
\* A step keeps the invariant when it leaves all executions alone but one, the
\* store keeps its cancellations, and that one execution is in order afterwards.
LEMMA OneJobMoves ==
    ASSUME IInv,
           NEW j \in Jobs, NEW r, NEW eff,
           job' = [job EXCEPT ![j] = r],
           effects' = [effects EXCEPT ![j] = eff],
           order' \in [Orders -> OrderRecord],
           \A o \in Orders : order[o].status = "cancelled" => order'[o].status = "cancelled",
           allowed \subseteq allowed', allowed' \subseteq Jobs,
           Faithful(r, eff), Truthful(r, eff), CancelHolds(r, order'),
           Passed(j, r, eff, allowed')
    PROVE  IInv'
<1>1. StoreInv'
  BY DEF IInv, StoreInv
<1>2. ASSUME NEW k \in Jobs
      PROVE  /\ Faithful(job'[k], effects'[k])
             /\ Truthful(job'[k], effects'[k])
             /\ CancelHolds(job'[k], order')
             /\ Passed(k, job'[k], effects'[k], allowed')
  <2>1. CASE k = j
    <3>1. job'[k] = r /\ effects'[k] = eff
      BY <2>1 DEF IInv, StoreInv
    <3> QED
      BY <3>1, <2>1
  <2>2. CASE k # j
    <3>1. job'[k] = job[k] /\ effects'[k] = effects[k]
      BY <2>2 DEF IInv, StoreInv
    <3>2. /\ Faithful(job[k], effects[k])
          /\ Truthful(job[k], effects[k])
          /\ CancelHolds(job[k], order)
          /\ Passed(k, job[k], effects[k], allowed)
      BY DEF IInv, JobInv
    <3>3. CancelHolds(job[k], order')
      BY <3>2 DEF CancelHolds, Faithful
    <3>4. Passed(k, job[k], effects[k], allowed')
      BY <3>2 DEF Passed
    <3> QED
      BY <3>1, <3>2, <3>3, <3>4
  <2> QED
    BY <2>1, <2>2
<1> QED
  BY <1>1, <1>2 DEF IInv, JobInv

LEMMA WatchGrows ==
    ASSUME IInv, Watch
    PROVE  allowed \subseteq allowed' /\ allowed' \subseteq Jobs
BY DEF Watch, IInv, StoreInv

\* mutate_order keeps the type of a record and never undoes a cancellation.
LEMMA MutatedKeeps ==
    ASSUME NEW a, NEW rec \in OrderRecord
    PROVE  /\ Mutated(a, rec) \in OrderRecord
           /\ rec.status = "cancelled" => Mutated(a, rec).status = "cancelled"
           /\ a = "cancel" => Mutated(a, rec).status = "cancelled"
BY DEF Mutated, OrderRecord

-----------------------------------------------------------------------------
LEMMA InitEstablishes == ToolsAssumption /\ Init => IInv
<1> SUFFICES ASSUME ToolsAssumption, Init PROVE IInv
  OBVIOUS
<1>1. Missing \in OrderRecord /\ [Missing EXCEPT !.status = "processing"] \in OrderRecord
  BY DEF Missing, OrderRecord
<1>2. StoreInv
  BY <1>1 DEF StoreInv, Init
<1>3. NoJob \in JobRecord /\ NoJob.pc = "idle" /\ NoJob.reply = "none"
  BY <1>1 DEF NoJob, JobRecord
<1>4. ASSUME NEW j \in Jobs
      PROVE  job[j] = NoJob /\ effects[j] = {}
  BY DEF Init
<1>5. ASSUME NEW j \in Jobs
      PROVE  /\ Faithful(NoJob, {}) /\ Truthful(NoJob, {})
             /\ CancelHolds(NoJob, order) /\ Passed(j, NoJob, {}, allowed)
  BY <1>3 DEF Faithful, Truthful, CancelHolds, Passed, Active
<1> QED
  BY <1>2, <1>4, <1>5 DEF IInv, JobInv

LEMMA WarehouseKeeps ==
    ASSUME IInv, NEW o \in Orders, Warehouse(o), Watch
    PROVE  IInv'
<1>1. allowed \subseteq allowed' /\ allowed' \subseteq Jobs
  BY WatchGrows
<1>2. order[o] \in OrderRecord /\ DOMAIN order = Orders
  BY DEF IInv, StoreInv
<1>3. order' \in [Orders -> OrderRecord]
  <2>1. order \in [Orders -> OrderRecord]
    BY DEF IInv, StoreInv
  <2>2. order[o].in_stock \in BOOLEAN
    BY <1>2 DEF OrderRecord
  <2>3. /\ [order[o] EXCEPT !.status = "shipped"] \in OrderRecord
        /\ [order[o] EXCEPT !.status = "delivered"] \in OrderRecord
    BY <1>2 DEF OrderRecord
  <2>4. [order[o] EXCEPT !.in_stock = ~order[o].in_stock] \in OrderRecord
    BY <1>2, <2>2 DEF OrderRecord
  <2>5. \E rec \in OrderRecord : order' = [order EXCEPT ![o] = rec]
    BY <2>1, <2>3, <2>4 DEF Warehouse
  <2> QED
    BY <2>1, <2>5
<1>4. \A p \in Orders : order[p].status = "cancelled" => order'[p].status = "cancelled"
  BY <1>2 DEF Warehouse, IInv, StoreInv, OrderRecord
<1>5. job' = job /\ effects' = effects
  BY DEF Warehouse
<1>6. StoreInv'
  BY <1>1, <1>3, <1>5 DEF IInv, StoreInv
<1>7. ASSUME NEW j \in Jobs
      PROVE  CancelHolds(job[j], order') /\ Passed(j, job[j], effects[j], allowed')
  BY <1>1, <1>4 DEF IInv, JobInv, CancelHolds, Passed, Faithful
<1> QED
  BY <1>5, <1>6, <1>7 DEF IInv, JobInv

\* The store, the callbacks and the bookkeeping of a step of execution j that only
\* moves its program counter.
LEMMA StoreUnchanged ==
    ASSUME IInv, Watch, order' = order, effects' = effects, NEW j \in Jobs
    PROVE  /\ effects' = [effects EXCEPT ![j] = effects[j]]
           /\ order' \in [Orders -> OrderRecord]
           /\ \A o \in Orders :
                 order[o].status = "cancelled" => order'[o].status = "cancelled"
           /\ allowed \subseteq allowed' /\ allowed' \subseteq Jobs
BY WatchGrows DEF IInv, StoreInv

LEMMA OrderActionCalledKeeps ==
    ASSUME IInv, NEW j \in Jobs, NEW o \in Orders, NEW a \in Actions,
           OrderActionCalled(j, o, a), Watch
    PROVE  IInv'
<1> DEFINE r == [job[j] EXCEPT !.pc = "looking", !.action = a, !.order = o]
<1>1. Faithful(job[j], effects[j]) /\ job[j].pc = "idle"
  BY DEF IInv, JobInv, OrderActionCalled
<1>2. job' = [job EXCEPT ![j] = r] /\ order' = order /\ effects' = effects
  BY DEF OrderActionCalled, IInv, StoreInv
<1>3. /\ r \in JobRecord
      /\ r.pc = "looking" /\ r.reply = "none" /\ r.order = o
      /\ effects[j] = {}
  BY <1>1 DEF Faithful, JobRecord, Active
<1> HIDE DEF r
<1>4. Faithful(r, effects[j]) /\ Truthful(r, effects[j])
      /\ CancelHolds(r, order') /\ Passed(j, r, effects[j], allowed')
  BY <1>3 DEF Faithful, Truthful, CancelHolds, Passed, Active
<1> QED
  BY <1>2, <1>4, StoreUnchanged, OneJobMoves

LEMMA RefundCalledKeeps ==
    ASSUME ToolsAssumption, IInv, NEW j \in Jobs, NEW o \in Orders, NEW amount \in Amounts,
           RefundCalled(j, o, amount), Watch
    PROVE  IInv'
<1> DEFINE pc == IF amount > Threshold THEN "enqueueing" ELSE "issuing"
           r == [job[j] EXCEPT !.pc = pc, !.action = "refund", !.order = o, !.amount = amount]
<1>1. Faithful(job[j], effects[j]) /\ job[j].pc = "idle"
  BY DEF IInv, JobInv, RefundCalled
<1>2. job' = [job EXCEPT ![j] = r] /\ order' = order /\ effects' = effects
  BY DEF RefundCalled, IInv, StoreInv
<1>3. /\ r \in JobRecord
      /\ r.pc = pc /\ r.reply = "none" /\ r.order = o /\ r.amount = amount
      /\ effects[j] = {}
  BY <1>1 DEF Faithful, JobRecord, Active
<1>4. /\ pc \in {"enqueueing", "issuing"}
      /\ pc = "enqueueing" => amount > Threshold
      /\ pc = "issuing" => amount <= Threshold
  BY DEF ToolsAssumption
<1> HIDE DEF r, pc
<1>5. Faithful(r, effects[j]) /\ Truthful(r, effects[j])
      /\ CancelHolds(r, order') /\ Passed(j, r, effects[j], allowed')
  BY <1>3, <1>4 DEF Faithful, Truthful, CancelHolds, Passed, Active
<1> QED
  BY <1>2, <1>5, StoreUnchanged, OneJobMoves

LEMMA LookupReturnsKeeps ==
    ASSUME IInv, NEW j \in Jobs, LookupReturns(j), Watch
    PROVE  IInv'
<1> DEFINE rec == order[job[j].order]
           r == IF rec.status = "absent"
                THEN [job[j] EXCEPT !.pc = "done", !.reply = "failed"]
                ELSE [job[j] EXCEPT !.pc = "validating", !.record = rec]
<1>1. Faithful(job[j], effects[j]) /\ job[j].pc = "looking" /\ job[j] \in JobRecord
  BY DEF IInv, JobInv, LookupReturns, Faithful
<1>2. job' = [job EXCEPT ![j] = r] /\ order' = order /\ effects' = effects
  BY DEF LookupReturns, IInv, StoreInv
<1>3. job[j].order \in Orders /\ effects[j] = {} /\ job[j].reply = "none" /\ rec \in OrderRecord
  BY <1>1 DEF Faithful, IInv, StoreInv, Active
<1>4. job'[j] = r
  BY <1>2 DEF IInv, StoreInv
<1>5. CASE rec.status = "absent"
  <2>1. r \in JobRecord /\ r.pc = "done" /\ r.reply = "failed"
    BY <1>1, <1>5 DEF JobRecord
  <2> HIDE DEF r, rec
  <2>2. Faithful(r, effects[j]) /\ Truthful(r, effects[j])
        /\ CancelHolds(r, order') /\ Passed(j, r, effects[j], allowed')
    BY <2>1, <1>3 DEF Faithful, Truthful, CancelHolds, Passed, Active
  <2> QED
    BY <1>2, <2>2, StoreUnchanged, OneJobMoves
<1>6. CASE rec.status # "absent"
  <2>1. /\ r \in JobRecord /\ r.pc = "validating" /\ r.reply = "none"
        /\ r.record = rec /\ r.order = job[j].order
    BY <1>1, <1>3, <1>6 DEF JobRecord, Active
  <2>2. ~Refused(r.action, r.record) => j \in allowed'
    BY <2>1, <1>2, <1>4 DEF Watch, Active
  <2> HIDE DEF r
  <2>3. Faithful(r, effects[j])
    BY <2>1, <1>3, <1>6 DEF Faithful, Active
  <2> HIDE DEF rec
  <2>4. Truthful(r, effects[j])
        /\ CancelHolds(r, order') /\ Passed(j, r, effects[j], allowed')
    BY <2>1, <2>2, <1>3 DEF Truthful, CancelHolds, Passed, Active
  <2> QED
    BY <1>2, <2>3, <2>4, StoreUnchanged, OneJobMoves
<1> QED
  BY <1>5, <1>6

LEMMA ValidatesKeeps ==
    ASSUME IInv, NEW j \in Jobs, Validates(j), Watch
    PROVE  IInv'
<1> DEFINE refused == Refused(job[j].action, job[j].record)
           r == IF refused THEN [job[j] EXCEPT !.pc = "done", !.reply = "failed"]
                ELSE [job[j] EXCEPT !.pc = "mutating"]
<1>1. /\ Faithful(job[j], effects[j]) /\ job[j].pc = "validating" /\ job[j] \in JobRecord
      /\ Passed(j, job[j], effects[j], allowed)
  BY DEF IInv, JobInv, Validates, Faithful
<1>2. job' = [job EXCEPT ![j] = r] /\ order' = order /\ effects' = effects
  BY DEF Validates, IInv, StoreInv
<1>3. /\ job[j].order \in Orders /\ effects[j] = {} /\ job[j].reply = "none"
      /\ job[j].record.status # "absent"
  BY <1>1 DEF Faithful, Active
<1>4. allowed \subseteq allowed'
  BY WatchGrows
<1>5. CASE refused
  <2>1. r \in JobRecord /\ r.pc = "done" /\ r.reply = "failed"
    BY <1>1, <1>5 DEF JobRecord
  <2> HIDE DEF r, refused
  <2>2. Faithful(r, effects[j]) /\ Truthful(r, effects[j])
        /\ CancelHolds(r, order') /\ Passed(j, r, effects[j], allowed')
    BY <2>1, <1>3 DEF Faithful, Truthful, CancelHolds, Passed, Active
  <2> QED
    BY <1>2, <2>2, StoreUnchanged, OneJobMoves
<1>6. CASE ~refused
  <2>1. /\ r \in JobRecord /\ r.pc = "mutating" /\ r.reply = "none"
        /\ r.record = job[j].record /\ r.order = job[j].order
    BY <1>1, <1>3, <1>6 DEF JobRecord, Active
  <2>2. j \in allowed'
    BY <1>1, <1>4, <1>6 DEF Passed
  <2> HIDE DEF r, refused
  <2>3. Faithful(r, effects[j])
    BY <2>1, <1>3 DEF Faithful, Active
  <2>4. Truthful(r, effects[j])
        /\ CancelHolds(r, order') /\ Passed(j, r, effects[j], allowed')
    BY <2>1, <2>2, <1>3 DEF Truthful, CancelHolds, Passed
  <2> QED
    BY <1>2, <2>3, <2>4, StoreUnchanged, OneJobMoves
<1> QED
  BY <1>5, <1>6

\* What mutate_order does to the store, whether or not it raises afterwards.
LEMMA StoreMutated ==
    ASSUME IInv, NEW j \in Jobs, job[j].pc = "mutating",
           order' = [order EXCEPT ![job[j].order] = Mutated(job[j].action, @)]
    PROVE  /\ order' \in [Orders -> OrderRecord]
           /\ \A o \in Orders :
                 order[o].status = "cancelled" => order'[o].status = "cancelled"
           /\ job[j].action = "cancel" => order'[job[j].order].status = "cancelled"
<1>1. job[j].order \in Orders
  BY DEF IInv, JobInv, Faithful, Active
<1>2. order \in [Orders -> OrderRecord]
  BY DEF IInv, StoreInv
<1>3. \A o \in Orders : order'[o] \in {order[o], Mutated(job[j].action, order[o])}
  BY <1>1, <1>2
<1>4. order'[job[j].order] = Mutated(job[j].action, order[job[j].order])
  BY <1>1, <1>2
<1>5. \A o \in Orders : order'[o] \in OrderRecord
  BY <1>2, <1>3, MutatedKeeps
<1>6. order' \in [Orders -> OrderRecord]
  BY <1>2, <1>5
<1>7. \A o \in Orders : order[o].status = "cancelled" => order'[o].status = "cancelled"
  BY <1>2, <1>3, MutatedKeeps
<1>8. job[j].action = "cancel" => order'[job[j].order].status = "cancelled"
  BY <1>1, <1>2, <1>4, MutatedKeeps
<1> QED
  BY <1>6, <1>7, <1>8

LEMMA MutatesKeeps ==
    ASSUME IInv, NEW j \in Jobs, Mutates(j), Watch
    PROVE  IInv'
<1> DEFINE r == [job[j] EXCEPT !.pc = "done", !.reply = "success"]
           eff == effects[j] \cup {"mutate"}
<1>1. /\ Faithful(job[j], effects[j]) /\ job[j].pc = "mutating" /\ job[j] \in JobRecord
      /\ Passed(j, job[j], effects[j], allowed)
  BY DEF IInv, JobInv, Mutates, Faithful
<1>2. /\ job' = [job EXCEPT ![j] = r] /\ effects' = [effects EXCEPT ![j] = eff]
      /\ order' = [order EXCEPT ![job[j].order] = Mutated(job[j].action, @)]
  BY DEF Mutates, IInv, StoreInv
<1>3. /\ allowed \subseteq allowed' /\ allowed' \subseteq Jobs
      /\ j \in allowed'
  BY <1>1, WatchGrows DEF Passed
<1>4. /\ r \in JobRecord /\ r.pc = "done" /\ r.reply = "success"
      /\ r.action = job[j].action /\ r.order = job[j].order
      /\ job[j].order \in Orders
      /\ eff = {"mutate"}
  BY <1>1 DEF Faithful, JobRecord, Active
<1>5. CancelHolds(r, order')
  BY <1>1, <1>2, <1>4, StoreMutated DEF CancelHolds
<1> HIDE DEF r, eff
<1>6. Faithful(r, eff) /\ Truthful(r, eff) /\ Passed(j, r, eff, allowed')
  BY <1>3, <1>4 DEF Faithful, Truthful, Passed, Active, Callbacks
<1> QED
  BY <1>1, <1>2, <1>3, <1>5, <1>6, StoreMutated, OneJobMoves

LEMMA EnqueuesKeeps ==
    ASSUME IInv, NEW j \in Jobs, Enqueues(j), Watch
    PROVE  IInv'
<1> DEFINE r == [job[j] EXCEPT !.pc = "done", !.reply = "pending"]
           eff == effects[j] \cup {"enqueue"}
<1>1. Faithful(job[j], effects[j]) /\ job[j].pc = "enqueueing" /\ job[j] \in JobRecord
  BY DEF IInv, JobInv, Enqueues, Faithful
<1>2. job' = [job EXCEPT ![j] = r] /\ effects' = [effects EXCEPT ![j] = eff] /\ order' = order
  BY DEF Enqueues, IInv, StoreInv
<1>3. allowed \subseteq allowed' /\ allowed' \subseteq Jobs
  BY WatchGrows
<1>4. /\ r \in JobRecord /\ r.pc = "done" /\ r.reply = "pending"
      /\ r.amount > Threshold /\ eff = {"enqueue"}
  BY <1>1 DEF Faithful, JobRecord, Active
<1> HIDE DEF r, eff
<1>5. Faithful(r, eff) /\ Truthful(r, eff) /\ CancelHolds(r, order')
      /\ Passed(j, r, eff, allowed')
  BY <1>4 DEF Faithful, Truthful, CancelHolds, Passed, Active, Callbacks
<1> QED
  BY <1>2, <1>3, <1>5, OneJobMoves DEF IInv, StoreInv

LEMMA IssuesKeeps ==
    ASSUME IInv, NEW j \in Jobs, Issues(j), Watch
    PROVE  IInv'
<1> DEFINE r == [job[j] EXCEPT !.pc = "done", !.reply = "not_required"]
           eff == effects[j] \cup {"issue"}
<1>1. Faithful(job[j], effects[j]) /\ job[j].pc = "issuing" /\ job[j] \in JobRecord
  BY DEF IInv, JobInv, Issues, Faithful
<1>2. job' = [job EXCEPT ![j] = r] /\ effects' = [effects EXCEPT ![j] = eff] /\ order' = order
  BY DEF Issues, IInv, StoreInv
<1>3. allowed \subseteq allowed' /\ allowed' \subseteq Jobs
  BY WatchGrows
<1>4. /\ r \in JobRecord /\ r.pc = "done" /\ r.reply = "not_required"
      /\ r.amount <= Threshold /\ eff = {"issue"}
  BY <1>1 DEF Faithful, JobRecord, Active
<1> HIDE DEF r, eff
<1>5. Faithful(r, eff) /\ Truthful(r, eff) /\ CancelHolds(r, order')
      /\ Passed(j, r, eff, allowed')
  BY <1>4 DEF Faithful, Truthful, CancelHolds, Passed, Active, Callbacks
<1> QED
  BY <1>2, <1>3, <1>5, OneJobMoves DEF IInv, StoreInv

LEMMA CallbackFailsKeeps ==
    ASSUME ToolsAssumption, IInv, NEW j \in Jobs, CallbackFails(j), Watch
    PROVE  IInv'
<1> DEFINE r == [job[j] EXCEPT !.pc = "raised"]
<1>1. /\ Faithful(job[j], effects[j]) /\ job[j].pc \in Active /\ job[j] \in JobRecord
      /\ Passed(j, job[j], effects[j], allowed)
  BY DEF IInv, JobInv, CallbackFails, Faithful
<1>2. job' = [job EXCEPT ![j] = r]
  BY DEF CallbackFails, IInv, StoreInv
<1>3. allowed \subseteq allowed' /\ allowed' \subseteq Jobs
  BY WatchGrows
<1>4. /\ r \in JobRecord /\ r.pc = "raised" /\ r.reply = "none" /\ r.amount = job[j].amount
      /\ effects[j] = {}
  BY <1>1 DEF Faithful, JobRecord, Active
<1>5. CASE order' = order /\ effects' = effects
  <2> HIDE DEF r
  <2>1. Faithful(r, effects[j]) /\ Truthful(r, effects[j])
        /\ CancelHolds(r, order') /\ Passed(j, r, effects[j], allowed')
    BY <1>4 DEF Faithful, Truthful, CancelHolds, Passed, Active
  <2> QED
    BY <1>2, <1>5, <2>1, StoreUnchanged, OneJobMoves
<1>6. CASE /\ job[j].pc = "mutating"
           /\ order' = [order EXCEPT ![job[j].order] = Mutated(job[j].action, @)]
           /\ effects' = [effects EXCEPT ![j] = @ \cup {"mutate"}]
  <2>1. effects' = [effects EXCEPT ![j] = {"mutate"}]
    BY <1>4, <1>6 DEF IInv, StoreInv
  <2>2. j \in allowed'
    BY <1>1, <1>3, <1>6 DEF Passed
  <2> HIDE DEF r
  <2>3. Faithful(r, {"mutate"}) /\ Truthful(r, {"mutate"})
        /\ CancelHolds(r, order') /\ Passed(j, r, {"mutate"}, allowed')
    BY <1>4, <2>2 DEF Faithful, Truthful, CancelHolds, Passed, Active, Callbacks
  <2>4. /\ order' \in [Orders -> OrderRecord]
        /\ \A o \in Orders : order[o].status = "cancelled" => order'[o].status = "cancelled"
    BY <1>6, StoreMutated
  <2> QED
    BY <1>2, <1>3, <2>1, <2>3, <2>4, OneJobMoves
<1>7. CASE /\ job[j].pc \in {"enqueueing", "issuing"}
           /\ effects' = [effects EXCEPT ![j] =
                             @ \cup {IF job[j].pc = "issuing" THEN "issue" ELSE "enqueue"}]
           /\ order' = order
  <2> DEFINE eff == {IF job[j].pc = "issuing" THEN "issue" ELSE "enqueue"}
  <2>1. effects' = [effects EXCEPT ![j] = eff]
    BY <1>4, <1>7 DEF IInv, StoreInv
  <2>2. /\ eff \subseteq {"issue", "enqueue"}
        /\ "issue" \in eff => r.amount <= Threshold
    BY <1>1, <1>4, <1>7 DEF Faithful
  <2> HIDE DEF r, eff
  <2>3. Faithful(r, eff) /\ Truthful(r, eff)
        /\ CancelHolds(r, order') /\ Passed(j, r, eff, allowed')
    BY <1>4, <2>2 DEF Faithful, Truthful, CancelHolds, Passed, Active, Callbacks
  <2> QED
    BY <1>2, <1>3, <1>7, <2>1, <2>3, OneJobMoves DEF IInv, StoreInv
<1> QED
  BY <1>5, <1>6, <1>7 DEF CallbackFails

-----------------------------------------------------------------------------
LEMMA StepKeeps == ToolsAssumption /\ IInv /\ [Next]_vars => IInv'
<1> SUFFICES ASSUME ToolsAssumption, IInv, [Next]_vars PROVE IInv'
  OBVIOUS
<1>1. CASE UNCHANGED vars
  BY <1>1 DEF vars, IInv, StoreInv, JobInv
<1>2. CASE \E o \in Orders : Warehouse(o) /\ Watch
  BY <1>2, WarehouseKeeps
<1>3. CASE \E j \in Jobs, o \in Orders, a \in Actions : OrderActionCalled(j, o, a) /\ Watch
  BY <1>3, OrderActionCalledKeeps
<1>4. CASE \E j \in Jobs, o \in Orders, amount \in Amounts :
              RefundCalled(j, o, amount) /\ Watch
  BY <1>4, RefundCalledKeeps
<1>5. ASSUME NEW j \in Jobs, JobStep(j), Watch
      PROVE  IInv'
  BY <1>5, LookupReturnsKeeps, ValidatesKeeps, MutatesKeeps, EnqueuesKeeps, IssuesKeeps,
     CallbackFailsKeeps DEF JobStep
<1> QED
  BY <1>1, <1>2, <1>3, <1>4, <1>5 DEF Next

\* The inductive invariant holds in every reachable state of the two tools.
THEOREM Invariance == Spec => []IInv
BY InitEstablishes, StepKeeps, ToolsAssumption, PTL DEF Spec

\* execute_order_action and process_high_value_refund keep their locals in shape: no
\* rule ever judges, and no mutation ever follows, an order that was not found.
THEOREM TypeCorrectness == Spec => []TypeOK
<1>1. ASSUME IInv
      PROVE  TypeOK
  <2>1. \A j \in Jobs : job[j] \in JobRecord /\ effects[j] \subseteq Callbacks
    BY <1>1 DEF IInv, JobInv, Faithful
  <2>2. job \in [Jobs -> JobRecord] /\ effects \in [Jobs -> SUBSET Callbacks]
    BY <1>1, <2>1 DEF IInv, StoreInv
  <2>3. \A j \in Jobs :
           job[j].pc \in {"validating", "mutating"} => job[j].record.status # "absent"
    BY <1>1 DEF IInv, JobInv, Faithful
  <2> QED
    BY <1>1, <2>2, <2>3 DEF TypeOK, IInv, StoreInv, JobRecord, Callbacks
<1> QED
  BY <1>1, Invariance, PTL

\* A reply tells what was done and stays true: FAILED changed nothing, a successful
\* cancellation holds, money leaves unapproved only up to the threshold.
THEOREM ReplyTheorem == Spec => []ReplyTellsEffect
<1>1. IInv => ReplyTellsEffect
  BY DEF IInv, JobInv, Truthful, CancelHolds, ReplyTellsEffect
<1> QED
  BY <1>1, Invariance, PTL

\* OrderRuleEngine: no order is mutated by an execution that the rules never let pass.
THEOREM RulesTheorem == Spec => []MutatedOnlyIfAllowed
<1>1. IInv => MutatedOnlyIfAllowed
  BY DEF IInv, JobInv, Passed, MutatedOnlyIfAllowed
<1> QED
  BY <1>1, Invariance, PTL
-----------------------------------------------------------------------------
(***************************************************************************)
(* What an answer says of the request.  The second invariant ties an       *)
(* execution's branch to its action and keeps what a cancellation found:   *)
(* an order that has left "processing" never comes back to it.             *)
(***************************************************************************)
Purposeful(r, eff, store) ==
    /\ r.pc \in {"looking", "validating", "mutating"} \/ r.reply \in {"success", "failed"} =>
          r.action \in Actions /\ r.order \in Orders
    /\ (\/ r.pc \in {"enqueueing", "issuing"}
        \/ r.reply \in {"pending", "not_required"}
        \/ "issue" \in eff) => r.action = "refund"
    /\ r.reply = "not_required" => eff = {"issue"}
    /\ r.pc = "validating" /\ r.record.status # "processing" =>
          store[r.order].status # "processing"
    /\ r.reply = "failed" /\ r.action = "cancel" => store[r.order].status # "processing"

AnswerInv == \A j \in Jobs : Purposeful(job[j], effects[j], order)

\* No order of the later store is on its way to be shipped that was not before.
Settles(old, new) ==
    \A o \in Orders : old[o].status # "processing" => new[o].status # "processing"

\* An execution stays in order while the store moves on.
LEMMA SettledKeeps ==
    ASSUME NEW r, NEW eff, NEW old, NEW new, Settles(old, new), Purposeful(r, eff, old)
    PROVE  Purposeful(r, eff, new)
BY DEF Settles, Purposeful

LEMMA OneAnswers ==
    ASSUME IInv, AnswerInv, NEW j \in Jobs, NEW r, NEW eff,
           job' = [job EXCEPT ![j] = r],
           effects' = [effects EXCEPT ![j] = eff],
           Settles(order, order'), Purposeful(r, eff, order')
    PROVE  AnswerInv'
<1>1. ASSUME NEW k \in Jobs
      PROVE  Purposeful(job'[k], effects'[k], order')
  <2>1. CASE k = j
    <3>1. job'[k] = r /\ effects'[k] = eff
      BY <2>1 DEF IInv, StoreInv
    <3> QED
      BY <3>1
  <2>2. CASE k # j
    <3>1. job'[k] = job[k] /\ effects'[k] = effects[k]
      BY <2>2 DEF IInv, StoreInv
    <3>2. Purposeful(job[k], effects[k], order)
      BY DEF AnswerInv
    <3> QED
      BY <3>1, <3>2, SettledKeeps
  <2> QED
    BY <2>1, <2>2
<1> QED
  BY <1>1 DEF AnswerInv

\* A store that is left alone, or in which one order is mutated, settles.
LEMMA StoreSettles ==
    ASSUME IInv, NEW j \in Jobs,
           \/ order' = order
           \/ /\ job[j].pc = "mutating"
              /\ order' = [order EXCEPT ![job[j].order] = Mutated(job[j].action, @)]
    PROVE  Settles(order, order')
<1>1. CASE order' = order
  BY <1>1 DEF Settles
<1>2. CASE /\ job[j].pc = "mutating"
           /\ order' = [order EXCEPT ![job[j].order] = Mutated(job[j].action, @)]
  <2>1. order \in [Orders -> OrderRecord] /\ job[j].order \in Orders
    BY <1>2 DEF IInv, StoreInv, JobInv, Faithful, Active
  <2>2. ASSUME NEW o \in Orders
        PROVE  \/ order'[o] = order[o]
               \/ order'[o] = [order[o] EXCEPT !.status = "cancelled"]
    BY <1>2, <2>1 DEF Mutated
  <2>3. \A o \in Orders : [order[o] EXCEPT !.status = "cancelled"].status # "processing"
    BY <2>1 DEF OrderRecord
  <2> QED
    BY <2>2, <2>3 DEF Settles
<1> QED
  BY <1>1, <1>2

LEMMA WarehouseAnswers ==
    ASSUME IInv, AnswerInv, NEW o \in Orders, Warehouse(o)
    PROVE  AnswerInv'
<1>1. order \in [Orders -> OrderRecord]
  BY DEF IInv, StoreInv
<1>2. \/ order' = [order EXCEPT ![o] = [order[o] EXCEPT !.status = "shipped"]]
      \/ order' = [order EXCEPT ![o] = [order[o] EXCEPT !.status = "delivered"]]
      \/ order' = [order EXCEPT ![o] = [order[o] EXCEPT !.in_stock = ~order[o].in_stock]]
  BY <1>1 DEF Warehouse
<1>3. /\ [order[o] EXCEPT !.status = "shipped"].status # "processing"
      /\ [order[o] EXCEPT !.status = "delivered"].status # "processing"
      /\ [order[o] EXCEPT !.in_stock = ~order[o].in_stock].status = order[o].status
  BY <1>1 DEF OrderRecord
<1>4. \A p \in Orders \ {o} : order'[p] = order[p]
  BY <1>1, <1>2
<1>5. order[o].status # "processing" => order'[o].status # "processing"
  BY <1>1, <1>2, <1>3
<1>6. Settles(order, order')
  BY <1>4, <1>5 DEF Settles
<1>7. UNCHANGED <<job, effects>>
  BY DEF Warehouse
<1> QED
  BY <1>6, <1>7, SettledKeeps DEF AnswerInv

LEMMA OrderActionCalledAnswers ==
    ASSUME IInv, AnswerInv, NEW j \in Jobs, NEW o \in Orders, NEW a \in Actions,
           OrderActionCalled(j, o, a)
    PROVE  AnswerInv'
<1> DEFINE r == [job[j] EXCEPT !.pc = "looking", !.action = a, !.order = o]
<1>1. Faithful(job[j], effects[j]) /\ job[j].pc = "idle" /\ job[j] \in JobRecord
  BY DEF IInv, JobInv, OrderActionCalled, Faithful
<1>2. /\ job' = [job EXCEPT ![j] = r] /\ order' = order
      /\ effects' = [effects EXCEPT ![j] = effects[j]]
  BY DEF OrderActionCalled, IInv, StoreInv
<1>3. job[j].reply = "none" /\ effects[j] = {}
  BY <1>1 DEF Faithful
<1>4. r.pc = "looking" /\ r.reply = "none" /\ r.action = a /\ r.order = o
  BY <1>1, <1>3 DEF JobRecord
<1> HIDE DEF r
<1>5. Purposeful(r, effects[j], order')
  BY <1>3, <1>4 DEF Purposeful
<1> QED
  BY <1>2, <1>5, OneAnswers, StoreSettles

LEMMA RefundCalledAnswers ==
    ASSUME IInv, AnswerInv, NEW j \in Jobs, NEW o \in Orders, NEW amount \in Amounts,
           RefundCalled(j, o, amount)
    PROVE  AnswerInv'
<1> DEFINE pc == IF amount > Threshold THEN "enqueueing" ELSE "issuing"
           r == [job[j] EXCEPT !.pc = pc, !.action = "refund", !.order = o, !.amount = amount]
<1>1. Faithful(job[j], effects[j]) /\ job[j].pc = "idle" /\ job[j] \in JobRecord
  BY DEF IInv, JobInv, RefundCalled, Faithful
<1>2. /\ job' = [job EXCEPT ![j] = r] /\ order' = order
      /\ effects' = [effects EXCEPT ![j] = effects[j]]
  BY DEF RefundCalled, IInv, StoreInv
<1>3. job[j].reply = "none" /\ effects[j] = {}
  BY <1>1 DEF Faithful
<1>4. r.pc = pc /\ r.reply = "none" /\ r.action = "refund"
  BY <1>1, <1>3 DEF JobRecord
<1>5. pc \in {"enqueueing", "issuing"}
  OBVIOUS
<1> HIDE DEF r, pc
<1>6. Purposeful(r, effects[j], order')
  BY <1>3, <1>4, <1>5 DEF Purposeful
<1> QED
  BY <1>2, <1>6, OneAnswers, StoreSettles

LEMMA LookupReturnsAnswers ==
    ASSUME IInv, AnswerInv, NEW j \in Jobs, LookupReturns(j)
    PROVE  AnswerInv'
<1> DEFINE rec == order[job[j].order]
           r == IF rec.status = "absent"
                THEN [job[j] EXCEPT !.pc = "done", !.reply = "failed"]
                ELSE [job[j] EXCEPT !.pc = "validating", !.record = rec]
<1>1. /\ Faithful(job[j], effects[j]) /\ job[j].pc = "looking" /\ job[j] \in JobRecord
      /\ Purposeful(job[j], effects[j], order)
  BY DEF IInv, JobInv, LookupReturns, Faithful, AnswerInv
<1>2. /\ job' = [job EXCEPT ![j] = r] /\ order' = order
      /\ effects' = [effects EXCEPT ![j] = effects[j]]
  BY DEF LookupReturns, IInv, StoreInv
<1>3. /\ job[j].reply = "none" /\ effects[j] = {}
      /\ job[j].action \in Actions /\ job[j].order \in Orders
  BY <1>1 DEF Faithful, Active, Purposeful
<1>4. /\ r.action = job[j].action /\ r.order = job[j].order
      /\ \/ r.pc = "done" /\ r.reply = "failed" /\ rec.status = "absent"
         \/ r.pc = "validating" /\ r.reply = "none" /\ r.record = rec
  BY <1>1, <1>3 DEF JobRecord
<1> HIDE DEF r
<1>5. Purposeful(r, effects[j], order')
  BY <1>2, <1>3, <1>4 DEF Purposeful
<1> QED
  BY <1>2, <1>5, OneAnswers, StoreSettles

LEMMA ValidatesAnswers ==
    ASSUME IInv, AnswerInv, NEW j \in Jobs, Validates(j)
    PROVE  AnswerInv'
<1> DEFINE refused == Refused(job[j].action, job[j].record)
           r == IF refused THEN [job[j] EXCEPT !.pc = "done", !.reply = "failed"]
                ELSE [job[j] EXCEPT !.pc = "mutating"]
<1>1. /\ Faithful(job[j], effects[j]) /\ job[j].pc = "validating" /\ job[j] \in JobRecord
      /\ Purposeful(job[j], effects[j], order)
  BY DEF IInv, JobInv, Validates, Faithful, AnswerInv
<1>2. /\ job' = [job EXCEPT ![j] = r] /\ order' = order
      /\ effects' = [effects EXCEPT ![j] = effects[j]]
  BY DEF Validates, IInv, StoreInv
<1>3. /\ job[j].reply = "none" /\ effects[j] = {}
      /\ job[j].action \in Actions /\ job[j].order \in Orders
  BY <1>1 DEF Faithful, Active, Purposeful
<1>4. refused /\ job[j].action = "cancel" => order[job[j].order].status # "processing"
  <2>1. refused /\ job[j].action = "cancel" => job[j].record.status # "processing"
    BY DEF Refused, AlreadyCancelled, ShippedForCancel, PastAddressChangeWindow,
           ExpediteBackordered
  <2> QED
    BY <1>1, <2>1 DEF Purposeful
<1>5. /\ r.action = job[j].action /\ r.order = job[j].order
      /\ \/ r.pc = "done" /\ r.reply = "failed" /\ refused
         \/ r.pc = "mutating" /\ r.reply = "none"
  BY <1>1, <1>3 DEF JobRecord
<1> HIDE DEF r, refused
<1>6. Purposeful(r, effects[j], order')
  BY <1>2, <1>3, <1>4, <1>5 DEF Purposeful
<1> QED
  BY <1>2, <1>6, OneAnswers, StoreSettles

\* The three callbacks that answer: mutate_order, enqueue_approval and issue_refund.
LEMMA CallbackAnswers ==
    ASSUME IInv, AnswerInv, NEW j \in Jobs, Mutates(j) \/ Enqueues(j) \/ Issues(j)
    PROVE  AnswerInv'
<1>1. PICK reply \in {"success", "pending", "not_required"}, effect \in Callbacks :
         /\ \/ job[j].pc = "mutating" /\ reply = "success" /\ effect = "mutate"
            \/ job[j].pc = "enqueueing" /\ reply = "pending" /\ effect = "enqueue"
            \/ job[j].pc = "issuing" /\ reply = "not_required" /\ effect = "issue"
         /\ job' = [job EXCEPT ![j].pc = "done", ![j].reply = reply]
         /\ effects' = [effects EXCEPT ![j] = @ \cup {effect}]
         /\ \/ order' = order
            \/ /\ job[j].pc = "mutating"
               /\ order' = [order EXCEPT ![job[j].order] = Mutated(job[j].action, @)]
  BY DEF Mutates, Enqueues, Issues, Callbacks
<1> DEFINE r == [job[j] EXCEPT !.pc = "done", !.reply = reply]
           eff == effects[j] \cup {effect}
<1>2. /\ Faithful(job[j], effects[j]) /\ job[j] \in JobRecord
      /\ Purposeful(job[j], effects[j], order)
  BY DEF IInv, JobInv, Faithful, AnswerInv
<1>3. job' = [job EXCEPT ![j] = r] /\ effects' = [effects EXCEPT ![j] = eff]
  BY <1>1 DEF IInv, StoreInv
<1>4. eff = {effect}
  BY <1>1, <1>2 DEF Faithful, Active
<1>5. /\ r.action = job[j].action /\ r.order = job[j].order
      /\ r.pc = "done" /\ r.reply = reply
  BY <1>2 DEF JobRecord
<1> HIDE DEF r, eff
<1>6. Purposeful(r, eff, order')
  BY <1>1, <1>2, <1>4, <1>5 DEF Purposeful
<1> QED
  BY <1>1, <1>3, <1>6, OneAnswers, StoreSettles

LEMMA CallbackFailsAnswers ==
    ASSUME IInv, AnswerInv, NEW j \in Jobs, CallbackFails(j)
    PROVE  AnswerInv'
<1> DEFINE r == [job[j] EXCEPT !.pc = "raised"]
<1>1. /\ Faithful(job[j], effects[j]) /\ job[j].pc \in Active /\ job[j] \in JobRecord
      /\ Purposeful(job[j], effects[j], order)
  BY DEF IInv, JobInv, CallbackFails, Faithful, AnswerInv
<1>2. job' = [job EXCEPT ![j] = r]
  BY DEF CallbackFails, IInv, StoreInv
<1>3. PICK eff \in SUBSET Callbacks :
         /\ effects' = [effects EXCEPT ![j] = eff]
         /\ "issue" \in eff => job[j].pc = "issuing"
  <2>1. effects[j] = {}
    BY <1>1 DEF Faithful
  <2> QED
    BY <1>1, <2>1 DEF CallbackFails, Callbacks, IInv, StoreInv
<1>4. \/ order' = order
      \/ /\ job[j].pc = "mutating"
         /\ order' = [order EXCEPT ![job[j].order] = Mutated(job[j].action, @)]
  BY DEF CallbackFails
<1>5. r.pc = "raised" /\ r.reply = "none" /\ r.action = job[j].action
  BY <1>1 DEF JobRecord, Faithful, Active
<1> HIDE DEF r
<1>6. Purposeful(r, eff, order')
  BY <1>1, <1>3, <1>5 DEF Purposeful
<1> QED
  BY <1>2, <1>3, <1>4, <1>6, OneAnswers, StoreSettles

LEMMA StepAnswers == IInv /\ AnswerInv /\ [Next]_vars => AnswerInv'
<1> SUFFICES ASSUME IInv, AnswerInv, [Next]_vars PROVE AnswerInv'
  OBVIOUS
<1>1. CASE UNCHANGED vars
  BY <1>1 DEF vars, AnswerInv
<1>2. CASE \E o \in Orders : Warehouse(o) /\ Watch
  BY <1>2, WarehouseAnswers
<1>3. CASE \E j \in Jobs, o \in Orders, a \in Actions : OrderActionCalled(j, o, a) /\ Watch
  BY <1>3, OrderActionCalledAnswers
<1>4. CASE \E j \in Jobs, o \in Orders, amount \in Amounts :
              RefundCalled(j, o, amount) /\ Watch
  BY <1>4, RefundCalledAnswers
<1>5. ASSUME NEW j \in Jobs, JobStep(j)
      PROVE  AnswerInv'
  BY <1>5, LookupReturnsAnswers, ValidatesAnswers, CallbackAnswers, CallbackFailsAnswers
     DEF JobStep
<1> QED
  BY <1>1, <1>2, <1>3, <1>4, <1>5 DEF Next

LEMMA InitAnswers == Init => AnswerInv
BY DEF Init, AnswerInv, Purposeful, NoJob

-----------------------------------------------------------------------------
(***************************************************************************)
(* The tools behind the MCP client (ToolChain).  The composition keeps the *)
(* invariants of both parts; what ties them together is that execution     *)
(* <<c, n>> only exists once call c was sent n times, that it runs with    *)
(* the arguments of c, and that an answer is that of an execution which    *)
(* has returned.                                                           *)
(***************************************************************************)
MP == INSTANCE McpClientProofs WITH Servers <- {Server}, StdioServers <- {}

\* Execution r runs with the arguments q.
AsRequested(q, r) ==
    r.pc # "idle" =>
        /\ r.action = q.action /\ r.order = q.order
        /\ r.action = "refund" => r.amount = q.amount

\* Call c, which looks like R and has the arguments q.
Linked(c, R, q, posts, jobs) ==
    /\ R.pc \in {"awaiting", "answered"} => R.sends >= 1
    /\ R.pc = "answered" => jobs[<<c, R.sends>>].pc = "done"
    /\ \A n \in 1 .. MaxSends :
          /\ <<c, n>> \in posts \/ jobs[<<c, n>>].pc # "idle" => n <= R.sends
          /\ AsRequested(q, jobs[<<c, n>>])

LinkInv ==
    /\ request \in [Calls -> Request \cup {NoRequest}]
    /\ \A c \in Calls : Linked(c, rpc[c], request[c], wire, job)

ChainInv == IInv /\ AnswerInv /\ MP!IInv /\ LinkInv

LEMMA ClientAssumed == MP!McpAssumption /\ Jobs = Calls \X (1 .. MaxSends)
BY ChainAssumption DEF C!McpAssumption, MP!McpAssumption, C!StartupCalls, MP!StartupCalls,
                       C!Methods, MP!Methods

\* The client's part of the state, and only that, moves as McpClient allows.
LEMMA ClientSteps == [ChainNext]_chainVars => [MP!Next]_MP!vars
<1> SUFFICES ASSUME [ChainNext]_chainVars PROVE [MP!Next]_MP!vars
  OBVIOUS
<1> USE DEF MP!stdioVars, C!stdioVars, MP!httpVars, C!httpVars
<1>1. CASE UNCHANGED clientVars
  BY <1>1 DEF clientVars, MP!vars
<1>2. ASSUME NEW c \in Calls, NEW r \in Request, Calling(c, r)
      PROVE  MP!Next
  <2>1. r.tool \in Tools
    BY DEF Request, Tools
  <2>2. MP!CallTool(c, r.tool)
    BY <1>2 DEF Calling, C!CallTool, MP!CallTool
  <2> QED
    BY <2>1, <2>2 DEF MP!Next
<1>3. ASSUME NEW c \in Calls, ClientStep(c) \/ Answered(c)
      PROVE  MP!Next
  <2>1. c \in MP!Rpcs
    BY DEF MP!Rpcs
  <2>2. C!HttpPosts(c) => MP!HttpPosts(c)
    BY DEF C!HttpPosts, MP!HttpPosts, C!HttpServers, MP!HttpServers
  <2>3. C!HttpFails(c) => MP!HttpFails(c)
    BY DEF C!HttpFails, MP!HttpFails, C!HttpServers, MP!HttpServers, C!AwaitingOn,
           MP!AwaitingOn, C!AfterTransportError, MP!AfterTransportError
  <2>4. C!HttpResponds(c) => MP!HttpResponds(c)
    BY DEF C!HttpResponds, MP!HttpResponds, C!HttpServers, MP!HttpServers, C!AwaitingOn,
           MP!AwaitingOn, C!Responds, MP!Responds
  <2>5. C!Cancelled(c) => MP!Cancelled(c)
    BY DEF C!Cancelled, MP!Cancelled, C!AwaitingOn, MP!AwaitingOn, C!GivesUp, MP!GivesUp
  <2>6. MP!Progress(c) \/ MP!Cancelled(c)
    BY <1>3, <2>2, <2>3, <2>4, <2>5 DEF ClientStep, Answered, MP!Progress
  <2> QED
    BY <2>1, <2>6 DEF MP!Next
<1>4. ASSUME NEW c \in Calls, NEW n \in 1 .. MaxSends, TakenUp(c, n)
      PROVE  MP!Next
  <2>1. MP!HttpExecutes(c, n)
    BY <1>4 DEF TakenUp, C!HttpExecutes, MP!HttpExecutes
  <2> QED
    BY <2>1 DEF MP!Next
<1>5. CASE ChainNext
  BY <1>1, <1>2, <1>3, <1>4, <1>5 DEF ChainNext, ToolStep
<1>6. CASE UNCHANGED chainVars
  BY <1>1, <1>6 DEF chainVars
<1> QED
  BY <1>5, <1>6

\* The tools' part of the state moves as OrderTools allows: the composition implements
\* OrderTools.
LEMMA ToolSteps ==
    ASSUME request \in [Calls -> Request \cup {NoRequest}], [ChainNext]_chainVars
    PROVE  [Next]_vars
<1>1. CASE UNCHANGED toolVars
  BY <1>1 DEF toolVars, vars
<1>2. ASSUME NEW c \in Calls, NEW n \in 1 .. MaxSends, TakenUp(c, n)
      PROVE  Next
  <2>1. PICK r : r = request[c] /\ r \in Request \cup {NoRequest}
    OBVIOUS
  <2>2. <<c, n>> \in Jobs
    BY ClientAssumed
  <2>3. CASE OrderActionCalled(<<c, n>>, r.order, r.action) /\ r.action \in Actions
    <3>1. r.order \in Orders
      BY <2>1, <2>3 DEF Request, NoRequest, Actions
    <3> QED
      BY <1>2, <2>2, <2>3, <3>1 DEF TakenUp, Next
  <2>4. CASE RefundCalled(<<c, n>>, r.order, r.amount) /\ r.action = "refund"
    <3>1. r.order \in Orders /\ r.amount \in Amounts
      BY <2>1, <2>4 DEF Request, NoRequest, Actions
    <3> QED
      BY <1>2, <2>2, <2>4, <3>1 DEF TakenUp, Next
  <2> QED
    BY <1>2, <2>1, <2>3, <2>4 DEF TakenUp
<1>3. CASE ChainNext
  BY <1>1, <1>2, <1>3 DEF ChainNext, Calling, ClientStep, Answered, ToolStep, Next
<1>4. CASE UNCHANGED chainVars
  BY <1>1, <1>4 DEF chainVars
<1> QED
  BY <1>3, <1>4

\* What the client's invariant says of one call.
LEMMA CallFacts ==
    ASSUME MP!IInv, NEW c \in Calls
    PROVE  /\ c \in DOMAIN rpc /\ rpc[c] \in MP!Rpc
           /\ MaxSends \in Nat /\ rpc[c].sends \in 0 .. MaxSends
           /\ rpc[c].pc = "idle" => rpc[c].sends = 0
           /\ rpc[c].pc = "ready" => rpc[c].sends < MaxSends
<1>1. c \in MP!Rpcs
  BY DEF MP!Rpcs
<1>2. c \in DOMAIN rpc /\ MP!RpcOk(rpc[c])
  BY <1>1 DEF MP!IInv, MP!RpcInv
<1>3. MaxSends \in Nat
  BY ClientAssumed DEF MP!McpAssumption
<1> QED
  BY <1>2, <1>3 DEF MP!RpcOk, MP!Rpc

\* A step that concerns one call only.
LEMMA OneCallLinks ==
    ASSUME MP!IInv, LinkInv, NEW c \in Calls,
           request' \in [Calls -> Request \cup {NoRequest}],
           \A d \in Calls \ {c} :
              /\ rpc'[d] = rpc[d] /\ request'[d] = request[d]
              /\ \A n \in 1 .. MaxSends :
                    /\ <<d, n>> \in wire' => <<d, n>> \in wire
                    /\ job'[<<d, n>>] = job[<<d, n>>],
           Linked(c, rpc'[c], request'[c], wire', job')
    PROVE  LinkInv'
<1>1. ASSUME NEW d \in Calls \ {c}
      PROVE  Linked(d, rpc'[d], request'[d], wire', job')
  <2>1. Linked(d, rpc[d], request[d], wire, job)
    BY DEF LinkInv
  <2>2. PICK R, q : R = rpc[d] /\ q = request[d]
    OBVIOUS
  <2>3. \A n \in 1 .. MaxSends :
           /\ <<d, n>> \in wire' => <<d, n>> \in wire
           /\ job'[<<d, n>>] = job[<<d, n>>]
    OBVIOUS
  <2>4. R.pc = "answered" => job'[<<d, R.sends>>].pc = "done"
    <3> SUFFICES ASSUME R.pc = "answered" PROVE job'[<<d, R.sends>>].pc = "done"
      OBVIOUS
    <3>1. R.sends \in 1 .. MaxSends /\ job[<<d, R.sends>>].pc = "done"
      BY <2>1, <2>2, CallFacts DEF Linked
    <3> QED
      BY <2>3, <3>1
  <2> QED
    BY <2>1, <2>2, <2>3, <2>4 DEF Linked
<1> QED
  BY <1>1 DEF LinkInv

LEMMA CallingLinks ==
    ASSUME ChainInv, NEW c \in Calls, NEW r \in Request, Calling(c, r)
    PROVE  LinkInv'
<1>1. /\ rpc[c].pc = "idle" /\ wire' = wire /\ job' = job
      /\ request' = [request EXCEPT ![c] = r]
  BY DEF Calling, C!CallTool, C!httpVars, toolVars
<1>2. /\ rpc'[c].pc \in {"failed", "ready"} /\ rpc'[c].sends = rpc[c].sends
      /\ \A d \in Calls \ {c} : rpc'[d] = rpc[d]
  <2> DEFINE pc == IF registry[r.tool] = NoServer THEN "failed" ELSE "ready"
             R == [rpc[c] EXCEPT !.pc = pc, !.server = registry[r.tool]]
  <2>1. rpc[c] \in MP!Rpc /\ \A d \in Calls : d \in DOMAIN rpc
    BY CallFacts DEF ChainInv
  <2>2. rpc' = [rpc EXCEPT ![c] = R]
    BY <2>1 DEF Calling, C!CallTool
  <2>3. R.pc \in {"failed", "ready"} /\ R.sends = rpc[c].sends
    BY <2>1 DEF MP!Rpc
  <2> HIDE DEF R
  <2> QED
    BY <2>1, <2>2, <2>3
<1>3. request \in [Calls -> Request \cup {NoRequest}]
  BY DEF ChainInv, LinkInv
<1>4. Linked(c, rpc[c], request[c], wire, job) /\ rpc[c].sends = 0
  BY <1>1, CallFacts DEF ChainInv, LinkInv
<1>5. \A n \in 1 .. MaxSends : job[<<c, n>>].pc = "idle" /\ <<c, n>> \notin wire
  BY <1>4 DEF Linked
<1>6. Linked(c, rpc'[c], r, wire, job)
  BY <1>2, <1>5 DEF Linked, AsRequested
<1>7. /\ request' \in [Calls -> Request \cup {NoRequest}] /\ request'[c] = r
      /\ \A d \in Calls \ {c} : request'[d] = request[d]
  BY <1>1, <1>3
<1> QED
  BY <1>1, <1>2, <1>6, <1>7, OneCallLinks DEF ChainInv

LEMMA ClientStepLinks ==
    ASSUME ChainInv, NEW c \in Calls, ClientStep(c)
    PROVE  LinkInv'
<1>1. UNCHANGED <<job, request>>
  BY DEF ClientStep, toolVars
<1>2. Linked(c, rpc[c], request[c], wire, job)
  BY DEF ChainInv, LinkInv
<1>3. /\ rpc[c] \in MP!Rpc /\ MaxSends \in Nat /\ rpc[c].sends \in 0 .. MaxSends
      /\ \A d \in Calls : d \in DOMAIN rpc
  BY CallFacts DEF ChainInv
<1>4. PICK R : rpc' = [rpc EXCEPT ![c] = R]
  BY DEF ClientStep, C!HttpPosts, C!HttpFails, C!Cancelled
<1>5. rpc'[c] = R /\ \A d \in Calls \ {c} : rpc'[d] = rpc[d]
  BY <1>3, <1>4
<1>6. CASE C!HttpPosts(c)
  <2>1. R = [rpc[c] EXCEPT !.pc = "awaiting", !.sends = rpc[c].sends + 1]
    BY <1>3, <1>5, <1>6 DEF C!HttpPosts, MP!Rpc
  <2>2. R.pc = "awaiting" /\ R.sends = rpc[c].sends + 1
    BY <1>3, <2>1 DEF MP!Rpc
  <2>3. wire' = wire \cup {<<c, rpc[c].sends + 1>>}
    BY <1>6 DEF C!HttpPosts
  <2>4. Linked(c, R, request[c], wire', job)
    BY <1>2, <1>3, <2>2, <2>3 DEF Linked
  <2>5. \A d \in Calls \ {c}, n \in 1 .. MaxSends : <<d, n>> \in wire' => <<d, n>> \in wire
    BY <2>3
  <2> QED
    BY <1>1, <1>5, <2>4, <2>5, OneCallLinks DEF ChainInv, LinkInv
<1>7. CASE C!HttpFails(c) \/ C!Cancelled(c)
  <2>1. wire' = wire
    BY <1>7 DEF C!HttpFails, C!Cancelled, C!httpVars
  <2>2. R.pc \in {"ready", "failed", "cancelled"} /\ R.sends = rpc[c].sends
    BY <1>3, <1>5, <1>7 DEF C!HttpFails, C!Cancelled, C!AfterTransportError, MP!Rpc
  <2>3. Linked(c, R, request[c], wire', job)
    BY <1>2, <2>1, <2>2 DEF Linked
  <2> QED
    BY <1>1, <1>5, <2>1, <2>3, OneCallLinks DEF ChainInv, LinkInv
<1> QED
  BY <1>6, <1>7 DEF ClientStep

LEMMA AnsweredLinks ==
    ASSUME ChainInv, NEW c \in Calls, Answered(c)
    PROVE  LinkInv'
<1>1. UNCHANGED <<job, request, wire>>
  BY DEF Answered, toolVars, C!HttpResponds, C!httpVars
<1>2. Linked(c, rpc[c], request[c], wire, job) /\ rpc[c].pc = "awaiting"
  BY DEF ChainInv, LinkInv, Answered, C!HttpResponds, C!AwaitingOn
<1>3. rpc[c] \in MP!Rpc /\ \A d \in Calls : d \in DOMAIN rpc
  BY CallFacts DEF ChainInv
<1>4. /\ rpc'[c].sends = rpc[c].sends
      /\ rpc'[c].pc \in {"answered", "failed", "raised"}
      /\ \A d \in Calls \ {c} : rpc'[d] = rpc[d]
  <2>1. PICK pc \in {"answered", "failed", "raised"} :
           rpc' = [rpc EXCEPT ![c].pc = pc,
                              ![c].answer = IF pc = "answered" THEN c ELSE Nobody]
    BY DEF Answered, C!HttpResponds, C!Responds
  <2> DEFINE R == [rpc[c] EXCEPT !.pc = pc, !.answer = IF pc = "answered" THEN c ELSE Nobody]
  <2>2. rpc' = [rpc EXCEPT ![c] = R]
    BY <1>3, <2>1
  <2>3. R.pc = pc /\ R.sends = rpc[c].sends
    BY <1>3 DEF MP!Rpc
  <2> HIDE DEF R
  <2> QED
    BY <1>3, <2>2, <2>3
<1>5. rpc'[c].pc = "answered" => job[<<c, rpc[c].sends>>].pc = "done"
  BY DEF Answered
<1>6. Linked(c, rpc'[c], request[c], wire, job)
  BY <1>2, <1>4, <1>5 DEF Linked
<1> QED
  BY <1>1, <1>4, <1>6, OneCallLinks DEF ChainInv, LinkInv

\* Every send of a call may be an execution.
LEMMA JobsOfCalls ==
    IInv => \A d \in Calls, m \in 1 .. MaxSends : <<d, m>> \in DOMAIN job
BY ClientAssumed DEF IInv, StoreInv

LEMMA TakenUpLinks ==
    ASSUME ChainInv, NEW c \in Calls, NEW n \in 1 .. MaxSends, TakenUp(c, n)
    PROVE  LinkInv'
<1> DEFINE q == request[c]
           j == <<c, n>>
<1>1. /\ UNCHANGED <<rpc, request>> /\ <<c, n>> \in wire /\ wire' = wire \ {<<c, n>>}
      /\ job[j].pc = "idle"
  BY DEF TakenUp, C!HttpExecutes, OrderActionCalled, RefundCalled
<1>2. j \in Jobs /\ job[j] \in JobRecord
  BY ClientAssumed DEF ChainInv, IInv, JobInv, Faithful
<1>3. PICK r : /\ job' = [job EXCEPT ![j] = r]
               /\ r.pc # "idle" /\ r.action = q.action /\ r.order = q.order
               /\ r.action = "refund" => r.amount = q.amount
  <2>1. CASE OrderActionCalled(j, q.order, q.action) /\ q.action \in Actions
    <3> DEFINE r == [job[j] EXCEPT !.pc = "looking", !.action = q.action, !.order = q.order]
    <3>1. job' = [job EXCEPT ![j] = r]
      BY <1>2, <2>1 DEF OrderActionCalled
    <3>2. r.pc = "looking" /\ r.action = q.action /\ r.order = q.order
      BY <1>2 DEF JobRecord
    <3>3. r.action # "refund"
      BY <2>1, <3>2 DEF Actions
    <3> HIDE DEF r, q, j
    <3> QED
      BY <3>1, <3>2, <3>3
  <2>2. CASE RefundCalled(j, q.order, q.amount) /\ q.action = "refund"
    <3> DEFINE pc == IF q.amount > Threshold THEN "enqueueing" ELSE "issuing"
               r == [job[j] EXCEPT !.pc = pc, !.action = "refund", !.order = q.order,
                                   !.amount = q.amount]
    <3>1. job' = [job EXCEPT ![j] = r]
      BY <1>2, <2>2 DEF RefundCalled
    <3>2. r.pc = pc /\ r.action = q.action /\ r.order = q.order /\ r.amount = q.amount
      BY <1>2, <2>2 DEF JobRecord
    <3>3. pc # "idle"
      OBVIOUS
    <3> HIDE DEF r, q, j, pc
    <3> QED
      BY <3>1, <3>2, <3>3
  <2> QED
    BY <2>1, <2>2 DEF TakenUp
<1>4. /\ job'[j] = r
      /\ \A d \in Calls, m \in 1 .. MaxSends : <<d, m>> # j => job'[<<d, m>>] = job[<<d, m>>]
  BY <1>3, JobsOfCalls DEF ChainInv
<1>5. Linked(c, rpc[c], q, wire, job) /\ rpc[c].sends \in 0 .. MaxSends /\ MaxSends \in Nat
  BY CallFacts DEF ChainInv, LinkInv
<1>6. rpc[c].pc = "answered" => job'[<<c, rpc[c].sends>>].pc = "done"
  <2> SUFFICES ASSUME rpc[c].pc = "answered" PROVE job'[<<c, rpc[c].sends>>].pc = "done"
    OBVIOUS
  <2>1. job[<<c, rpc[c].sends>>].pc = "done" /\ rpc[c].sends \in 1 .. MaxSends
    BY <1>5 DEF Linked
  <2> QED
    BY <1>1, <1>4, <2>1
<1> HIDE DEF q
<1>7. ASSUME NEW m \in 1 .. MaxSends
      PROVE  /\ <<c, m>> \in wire' \/ job'[<<c, m>>].pc # "idle" => m <= rpc[c].sends
             /\ AsRequested(q, job'[<<c, m>>])
  <2>1. CASE m = n
    BY <1>1, <1>3, <1>4, <1>5, <2>1 DEF Linked, AsRequested
  <2>2. CASE m # n
    <3>1. job'[<<c, m>>] = job[<<c, m>>]
      BY <1>4, <2>2
    <3> QED
      BY <1>1, <1>5, <3>1 DEF Linked
  <2> QED
    BY <2>1, <2>2
<1>8. Linked(c, rpc[c], q, wire', job')
  BY <1>5, <1>6, <1>7 DEF Linked
<1>9. \A d \in Calls \ {c} :
         \A m \in 1 .. MaxSends :
            /\ <<d, m>> \in wire' => <<d, m>> \in wire
            /\ job'[<<d, m>>] = job[<<d, m>>]
  BY <1>1, <1>4
<1> QED
  BY <1>1, <1>8, <1>9, OneCallLinks DEF ChainInv, LinkInv, q

\* Execution j has moved, with the arguments it had.
Continues(j) ==
    \E r : /\ job' = [job EXCEPT ![j] = r]
          /\ r.action = job[j].action /\ r.order = job[j].order
          /\ r.amount = job[j].amount

LEMMA JobStepMoves ==
    ASSUME IInv, NEW j \in Jobs, JobStep(j)
    PROVE  job[j].pc \in Active /\ Continues(j)
<1>1. job[j] \in JobRecord /\ j \in DOMAIN job
  BY DEF IInv, StoreInv, JobInv, Faithful
<1>2. job[j].pc \in Active
  BY DEF JobStep, LookupReturns, Validates, Mutates, Enqueues, Issues, CallbackFails, Active
<1> SUFFICES Continues(j)
  BY <1>2
<1>3. ASSUME NEW pc, NEW reply,
             job' = [job EXCEPT ![j] = [job[j] EXCEPT !.pc = pc, !.reply = reply]]
      PROVE  Continues(j)
  <2> DEFINE r == [job[j] EXCEPT !.pc = pc, !.reply = reply]
  <2>1. r.action = job[j].action /\ r.order = job[j].order /\ r.amount = job[j].amount
    BY <1>1 DEF JobRecord
  <2> HIDE DEF r
  <2> QED
    BY <1>3, <2>1 DEF Continues, r
<1>4. ASSUME NEW pc, job' = [job EXCEPT ![j] = [job[j] EXCEPT !.pc = pc]]
      PROVE  Continues(j)
  <2> DEFINE r == [job[j] EXCEPT !.pc = pc]
  <2>1. r.action = job[j].action /\ r.order = job[j].order /\ r.amount = job[j].amount
    BY <1>1 DEF JobRecord
  <2> HIDE DEF r
  <2> QED
    BY <1>4, <2>1 DEF Continues, r
<1>5. CASE LookupReturns(j)
  <2> DEFINE rec == order[job[j].order]
             r == [job[j] EXCEPT !.pc = "validating", !.record = rec]
  <2>1. CASE rec.status = "absent"
    <3>1. job' = [job EXCEPT ![j] = [job[j] EXCEPT !.pc = "done", !.reply = "failed"]]
      BY <1>5, <2>1 DEF LookupReturns
    <3> QED
      BY <1>3, <3>1
  <2>2. CASE rec.status # "absent"
    <3>1. job' = [job EXCEPT ![j] = r]
      BY <1>5, <2>2 DEF LookupReturns
    <3>2. r.action = job[j].action /\ r.order = job[j].order /\ r.amount = job[j].amount
      BY <1>1 DEF JobRecord
    <3> HIDE DEF r
    <3> QED
      BY <3>1, <3>2 DEF Continues
  <2> QED
    BY <2>1, <2>2
<1>6. CASE Validates(j)
  <2>1. CASE Refused(job[j].action, job[j].record)
    <3>1. job' = [job EXCEPT ![j] = [job[j] EXCEPT !.pc = "done", !.reply = "failed"]]
      BY <1>6, <2>1 DEF Validates
    <3> QED
      BY <1>3, <3>1
  <2>2. CASE ~Refused(job[j].action, job[j].record)
    <3>1. job' = [job EXCEPT ![j] = [job[j] EXCEPT !.pc = "mutating"]]
      BY <1>6, <2>2 DEF Validates
    <3> QED
      BY <1>4, <3>1
  <2> QED
    BY <2>1, <2>2
<1>7. CASE Mutates(j) \/ Enqueues(j) \/ Issues(j)
  <2>1. PICK reply : job' = [job EXCEPT ![j].pc = "done", ![j].reply = reply]
    BY <1>7 DEF Mutates, Enqueues, Issues
  <2>2. job' = [job EXCEPT ![j] = [job[j] EXCEPT !.pc = "done", !.reply = reply]]
    BY <2>1 DEF IInv, StoreInv
  <2> QED
    BY <1>3, <2>2
<1>8. CASE CallbackFails(j)
  <2>1. job' = [job EXCEPT ![j] = [job[j] EXCEPT !.pc = "raised"]]
    BY <1>8 DEF CallbackFails, IInv, StoreInv
  <2> QED
    BY <1>4, <2>1
<1> QED
  BY <1>5, <1>6, <1>7, <1>8 DEF JobStep

LEMMA ToolStepLinks ==
    ASSUME ChainInv, NEW j \in Jobs, ToolStep(j)
    PROVE  LinkInv'
<1>1. UNCHANGED <<rpc, request, wire>> /\ JobStep(j)
  BY DEF ToolStep, clientVars
<1>2. PICK c \in Calls, n \in 1 .. MaxSends : j = <<c, n>>
  BY ClientAssumed
<1>3. PICK r : /\ job' = [job EXCEPT ![j] = r]
               /\ r.action = job[j].action /\ r.order = job[j].order
               /\ r.amount = job[j].amount
  BY <1>1, JobStepMoves DEF ChainInv, Continues
<1>4. job[j].pc \in Active
  BY <1>1, JobStepMoves DEF ChainInv
<1>5. /\ job'[<<c, n>>] = r
      /\ \A d \in Calls, m \in 1 .. MaxSends :
            <<d, m>> # <<c, n>> => job'[<<d, m>>] = job[<<d, m>>]
  <2>1. job' = [job EXCEPT ![<<c, n>>] = r]
    BY <1>2, <1>3
  <2>2. IInv
    BY DEF ChainInv
  <2> QED
    BY <2>1, <2>2, JobsOfCalls
<1>6. /\ Linked(c, rpc[c], request[c], wire, job)
      /\ rpc[c].sends \in 0 .. MaxSends /\ MaxSends \in Nat
  BY CallFacts DEF ChainInv, LinkInv
<1>7. rpc[c].pc = "answered" => job'[<<c, rpc[c].sends>>].pc = "done"
  <2> SUFFICES ASSUME rpc[c].pc = "answered" PROVE job'[<<c, rpc[c].sends>>].pc = "done"
    OBVIOUS
  <2>1. job[<<c, rpc[c].sends>>].pc = "done" /\ rpc[c].sends \in 1 .. MaxSends
    BY <1>6 DEF Linked
  <2>2. <<c, rpc[c].sends>> # <<c, n>>
    BY <1>2, <1>4, <2>1 DEF Active
  <2> QED
    BY <1>5, <2>1, <2>2
<1>8. ASSUME NEW m \in 1 .. MaxSends
      PROVE  /\ <<c, m>> \in wire \/ job'[<<c, m>>].pc # "idle" => m <= rpc[c].sends
             /\ AsRequested(request[c], job'[<<c, m>>])
  <2>1. CASE m = n
    <3>1. n <= rpc[c].sends /\ AsRequested(request[c], job[j]) /\ job[j].pc # "idle"
      BY <1>2, <1>4, <1>6 DEF Linked, Active
    <3> QED
      BY <1>3, <1>5, <2>1, <3>1 DEF AsRequested
  <2>2. CASE m # n
    <3>1. job'[<<c, m>>] = job[<<c, m>>]
      BY <1>5, <2>2
    <3> QED
      BY <1>6, <3>1 DEF Linked
  <2> QED
    BY <2>1, <2>2
<1>9. Linked(c, rpc[c], request[c], wire, job')
  BY <1>6, <1>7, <1>8 DEF Linked
<1>10. \A d \in Calls \ {c}, m \in 1 .. MaxSends : job'[<<d, m>>] = job[<<d, m>>]
  BY <1>5
<1> QED
  BY <1>1, <1>9, <1>10, OneCallLinks DEF ChainInv, LinkInv

\* The variables of the pipes, when no server is behind one.
LEMMA NoServers ==
    ASSUME NEW e
    PROVE  <<>> = [s \in {} |-> e]
<1>1. <<>> \in Seq({e}) /\ Len(<<>>) = 0 /\ 1 .. 0 = {}
  OBVIOUS
<1>2. <<>> \in [{} -> {e}]
  BY <1>1, LenProperties
<1> QED
  BY <1>2

LEMMA ChainInitEstablishes == ChainInit => ChainInv
<1> SUFFICES ASSUME ChainInit PROVE ChainInv
  OBVIOUS
<1>1. IInv /\ AnswerInv
  BY InitEstablishes, InitAnswers, ToolsAssumption DEF ChainInit
<1>2. MP!NothingSent
  <2>1. ASSUME NEW e PROVE <<>> = [s \in {} |-> e]
    BY NoServers
  <2>2. rpc = [c \in MP!Rpcs |-> MP!NoRpc]
    BY DEF ChainInit, MP!NoRpc, C!NoRpc, MP!Rpcs, C!Rpcs, MP!StartupCalls, C!StartupCalls,
           MP!Methods, C!Methods
  <2> QED
    BY <2>1, <2>2 DEF ChainInit, MP!NothingSent
<1>3. MP!StartInv
  BY DEF ChainInit, MP!StartInv, MP!Methods
<1>4. MP!IInv
  BY <1>2, <1>3, ClientAssumed, MP!QuietEstablishes
<1>5. LinkInv
  <2>1. \A j \in Jobs : job[j] = NoJob
    BY DEF ChainInit, Init
  <2>2. ASSUME NEW c \in Calls
        PROVE  Linked(c, rpc[c], request[c], wire, job)
    <3>1. wire = {} /\ rpc[c].pc = "idle"
      BY <1>2 DEF ChainInit, MP!NothingSent, MP!NoRpc, MP!Rpcs
    <3>2. \A n \in 1 .. MaxSends : job[<<c, n>>].pc = "idle"
      BY <2>1, ClientAssumed DEF NoJob
    <3> QED
      BY <3>1, <3>2 DEF Linked, AsRequested
  <2> QED
    BY <2>2 DEF ChainInit, LinkInv
<1> QED
  BY <1>1, <1>4, <1>5 DEF ChainInv

LEMMA ChainStepKeeps == ChainInv /\ [ChainNext]_chainVars => ChainInv'
<1> SUFFICES ASSUME ChainInv, [ChainNext]_chainVars PROVE ChainInv'
  OBVIOUS
<1>1. IInv' /\ AnswerInv'
  BY ToolSteps, StepKeeps, StepAnswers, ToolsAssumption DEF ChainInv, LinkInv
<1>2. MP!IInv'
  BY ClientSteps, ClientAssumed, MP!StepKeeps DEF ChainInv
<1>3. LinkInv'
  <2>1. CASE UNCHANGED <<clientVars, job, request>>
    BY <2>1 DEF clientVars, ChainInv, LinkInv
  <2>2. CASE \E c \in Calls, r \in Request : Calling(c, r)
    BY <2>2, CallingLinks
  <2>3. CASE \E c \in Calls : ClientStep(c) \/ Answered(c)
    BY <2>3, ClientStepLinks, AnsweredLinks
  <2>4. CASE \E c \in Calls, n \in 1 .. MaxSends : TakenUp(c, n)
    BY <2>4, TakenUpLinks
  <2>5. CASE \E j \in Jobs : ToolStep(j)
    BY <2>5, ToolStepLinks
  <2>6. CASE \E o \in Orders : Warehouse(o) /\ Watch /\ UNCHANGED <<clientVars, request>>
    BY <2>1, <2>6 DEF Warehouse
  <2>7. CASE UNCHANGED chainVars
    BY <2>1, <2>7 DEF chainVars, toolVars
  <2> QED
    BY <2>2, <2>3, <2>4, <2>5, <2>6, <2>7 DEF ChainNext
<1> QED
  BY <1>1, <1>2, <1>3 DEF ChainInv

\* The inductive invariant of the composition.
THEOREM ChainInvariance == ChainSpec => []ChainInv
BY ChainInitEstablishes, ChainStepKeeps, PTL DEF ChainSpec

\* Behind the client the two tools are still those of OrderTools: whatever a client may
\* do with calls, sends and retries, every behaviour of the composition is one of
\* OrderTools, so what is proved of Spec above also holds when calls are sent again.
THEOREM ChainImplementsTools == ChainSpec => Spec
<1>1. ChainInit => Init
  BY DEF ChainInit
<1>2. ChainInv /\ [ChainNext]_chainVars => [Next]_vars
  BY ToolSteps DEF ChainInv, LinkInv
<1> QED
  BY <1>1, <1>2, ChainInvariance, PTL DEF ChainSpec, Spec

\* The client is still that of McpClient: servers that answer when their tool has
\* returned do nothing that its wire does not allow, so what its steps may never do
\* they never do here.
THEOREM ChainDrivesClient == ChainSpec => [][MP!Next]_(MP!vars)
BY ClientSteps, PTL DEF ChainSpec

\* The execution whose answer a call was told.
LEMMA ToldBy ==
    ASSUME ChainInv, NEW c \in Calls, Told(c) # "nothing"
    PROVE  \E n \in 1 .. MaxSends :
              /\ n <= rpc[c].sends /\ Told(c) = job[<<c, n>>].reply
              /\ job[<<c, n>>].pc = "done"
<1>1. rpc[c].pc = "answered" /\ Told(c) = job[<<c, rpc[c].sends>>].reply
  BY DEF Told
<1>2. Linked(c, rpc[c], request[c], wire, job)
  BY DEF ChainInv, LinkInv
<1>3. rpc[c].sends \in 0 .. MaxSends /\ MaxSends \in Nat
  BY CallFacts DEF ChainInv
<1> QED
  BY <1>1, <1>2, <1>3 DEF Linked

\* What is known of the executions of a call.
LEMMA SendFacts ==
    ASSUME ChainInv, NEW c \in Calls, NEW n \in 1 .. MaxSends
    PROVE  LET r == job[<<c, n>>]
               eff == effects[<<c, n>>] IN
           /\ Faithful(r, eff) /\ Truthful(r, eff) /\ CancelHolds(r, order)
           /\ Purposeful(r, eff, order) /\ AsRequested(request[c], r)
           /\ r.pc # "idle" \/ <<c, n>> \in wire => n <= rpc[c].sends
<1>1. <<c, n>> \in Jobs
  BY ClientAssumed
<1>2. Linked(c, rpc[c], request[c], wire, job)
  BY DEF ChainInv, LinkInv
<1> QED
  BY <1>1, <1>2 DEF ChainInv, IInv, JobInv, AnswerInv, Linked

\* _call and process_high_value_refund: one call may be paid once per send and no more,
\* late executions included; who is told that money was paid was paid, and who is told
\* anything else was not, by any of the sends.
THEOREM PaymentTheorem == ChainSpec => []PaymentsBounded
<1>1. ASSUME ChainInv, NEW c \in Calls
      PROVE  Cardinality(Did(c, "issue") \cup MayStill(c)) <= rpc[c].sends
  <2>1. rpc[c].sends \in Nat
    BY <1>1, CallFacts DEF ChainInv
  <2>2. ASSUME NEW n \in Did(c, "issue") \cup MayStill(c)
        PROVE  n \in 1 .. rpc[c].sends
    <3>1. n \in 1 .. MaxSends
      BY DEF Did, MayStill
    <3>2. job[<<c, n>>].pc # "idle" \/ <<c, n>> \in wire
      BY <1>1, <3>1, SendFacts DEF Did, MayStill, Faithful, Active
    <3>3. n <= rpc[c].sends
      BY <1>1, <3>1, <3>2, SendFacts
    <3> QED
      BY <2>1, <3>1, <3>3
  <2>3. Did(c, "issue") \cup MayStill(c) \subseteq 1 .. rpc[c].sends
    BY <2>2
  <2>4. IsFiniteSet(1 .. rpc[c].sends) /\ Cardinality(1 .. rpc[c].sends) = rpc[c].sends
    <3>1. PICK k \in Nat : k = rpc[c].sends
      BY <2>1
    <3>2. IsFiniteSet(1 .. k) /\ Cardinality(1 .. k) = IF 1 > k THEN 0 ELSE k - 1 + 1
      BY FS_Interval
    <3> QED
      BY <3>1, <3>2
  <2> QED
    BY <2>3, <2>4, FS_Subset
<1>2. ASSUME ChainInv, NEW c \in Calls, Told(c) = "not_required"
      PROVE  Did(c, "issue") # {}
  <2>1. PICK n \in 1 .. MaxSends : job[<<c, n>>].reply = "not_required"
    BY <1>2, ToldBy
  <2>2. effects[<<c, n>>] = {"issue"}
    BY <1>2, <2>1, SendFacts DEF Purposeful
  <2> QED
    BY <2>2 DEF Did
<1>3. ASSUME ChainInv, NEW c \in Calls, Told(c) \in {"pending", "failed"}
      PROVE  Did(c, "issue") = {}
  <2> SUFFICES ASSUME NEW m \in Did(c, "issue") PROVE FALSE
    OBVIOUS
  <2>1. PICK n \in 1 .. MaxSends :
           Told(c) = job[<<c, n>>].reply /\ job[<<c, n>>].pc = "done"
    BY <1>3, ToldBy
  <2>2. m \in 1 .. MaxSends /\ "issue" \in effects[<<c, m>>]
    BY DEF Did
  <2>3. /\ job[<<c, m>>].action = "refund" /\ job[<<c, m>>].pc # "idle"
        /\ job[<<c, m>>].amount <= Threshold
    BY <1>3, <2>2, SendFacts DEF Purposeful, Truthful, Faithful
  <2>4. request[c].action = "refund" /\ request[c].amount <= Threshold
    BY <1>3, <2>2, <2>3, SendFacts DEF AsRequested
  <2>5. job[<<c, n>>].action = "refund" /\ job[<<c, n>>].amount = request[c].amount
    BY <1>3, <2>1, <2>4, SendFacts DEF AsRequested
  <2>6. job[<<c, n>>].reply # "failed"
    BY <1>3, <2>5, SendFacts DEF Purposeful, Actions
  <2>7. job[<<c, n>>].amount \in Nat /\ Threshold \in Nat
    <3>1. job[<<c, n>>] \in JobRecord
      BY <1>3, SendFacts DEF Faithful
    <3>2. job[<<c, n>>].amount \in Amounts \cup {0}
      BY <3>1 DEF JobRecord
    <3>3. Amounts \subseteq Nat /\ Threshold \in Nat
      BY ToolsAssumption DEF ToolsAssumption
    <3>4. 0 \in Nat
      OBVIOUS
    <3> QED
      BY <3>2, <3>3, <3>4, Zenon
  <2>8. job[<<c, n>>].reply # "pending"
    BY <1>3, <2>4, <2>5, <2>7, SendFacts DEF Truthful
  <2> QED
    BY <1>3, <2>1, <2>6, <2>8
<1>4. ChainInv => PaymentsBounded
  BY <1>1, <1>2, <1>3 DEF PaymentsBounded
<1> QED
  BY <1>4, ChainInvariance, PTL

\* _call and execute_order_action: what a caller was told of a cancellation stays true,
\* whatever the other sends of the call, other calls and the warehouse do afterwards.
THEOREM CancelTheorem == ChainSpec => []CancelAnswerIsFinal
<1>1. ASSUME ChainInv, NEW c \in Calls, request[c].action = "cancel",
             Told(c) \in {"failed", "success"}
      PROVE  /\ Told(c) = "failed" => order[request[c].order].status # "processing"
             /\ Told(c) = "success" => order[request[c].order].status = "cancelled"
  <2>1. PICK n \in 1 .. MaxSends :
           Told(c) = job[<<c, n>>].reply /\ job[<<c, n>>].pc = "done"
    BY <1>1, ToldBy
  <2>2. job[<<c, n>>].action = "cancel" /\ job[<<c, n>>].order = request[c].order
    BY <1>1, <2>1, SendFacts DEF AsRequested
  <2> QED
    BY <1>1, <2>1, <2>2, SendFacts DEF Purposeful, CancelHolds
<1>2. ChainInv => CancelAnswerIsFinal
  BY <1>1 DEF CancelAnswerIsFinal
<1> QED
  BY <1>2, ChainInvariance, PTL
=============================================================================
