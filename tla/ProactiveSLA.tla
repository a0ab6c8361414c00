------------------------------ MODULE ProactiveSLA ------------------------------
(***************************************************************************)
(* app/agents/proactive_agent.py: the background loop of each uvicorn      *)
(* worker that escalates approvals pending past their SLA.                 *)
(*                                                                         *)
(* Time is a Tick; what the code computes from timestamps is kept as       *)
(* saturating ages.  An agent's memory is lost when its worker restarts.   *)
(***************************************************************************)
EXTENDS Integers, FiniteSets

CONSTANTS
    Approvals,      \* primary keys of approval_queue
    Agents,         \* one ProactiveSLAAgent per worker process
    NoApproval,
    SLA,            \* approval_sla_minutes, in ticks
    Cooldown,       \* escalation_cooldown_minutes, in ticks
    Poll,           \* poll_interval_seconds, in ticks
    SlowSink        \* bound: ticks that the awaits of one sweep may take

ASSUME SlaAssumption ==
    /\ NoApproval \notin Approvals
    /\ {SLA, Cooldown, Poll, SlowSink} \subseteq Nat

VARIABLES
    row,        \* row[a]: status of approval a
    age,        \* age[a]: ticks since created_at
    agent,      \* agent[w]: the loop and the locals of _sweep_stale_approvals
    since,      \* since[w][a]: ticks since _last_escalated[a]; Horizon if unset
    quiet       \* history: quiet[w][a]: ticks since this agent last delivered a

vars == <<row, age, agent, since, quiet>>

\* Old enough to make no difference to `now - last < cooldown`.
Horizon == Cooldown + SlowSink

Off == [pc |-> "off", stopping |-> FALSE, stale |-> {}, sending |-> NoApproval,
        elapsed |-> 0, timer |-> 0]

Init ==
    /\ row = [a \in Approvals |-> "absent"]
    /\ age = [a \in Approvals |-> 0]
    /\ agent = [w \in Agents |-> Off]
    /\ since = [w \in Agents |-> [a \in Approvals |-> Horizon]]
    /\ quiet = [w \in Agents |-> [a \in Approvals |-> Horizon]]

-----------------------------------------------------------------------------
\* The refund tool inserts a row; a reviewer decides it (app/api/main.py).
Enqueued(a) ==
    /\ row[a] = "absent"
    /\ row' = [row EXCEPT ![a] = "pending"]
    /\ UNCHANGED <<age, agent, since, quiet>>

Decided(a) ==
    /\ row[a] = "pending"
    /\ row' = [row EXCEPT ![a] = "decided"]
    /\ UNCHANGED <<age, agent, since, quiet>>

\* __init__ and start(), in the lifespan of a worker.
Starts(w) ==
    /\ agent[w].pc = "off"
    /\ agent' = [agent EXCEPT ![w].pc = "polling"]
    /\ UNCHANGED <<row, age, since, quiet>>

\* stop() sets the event; the loop looks at it between sweeps.
StopRequested(w) ==
    /\ agent[w].pc # "off"
    /\ agent' = [agent EXCEPT ![w].stopping = TRUE]
    /\ UNCHANGED <<row, age, since, quiet>>

\* The agent object is gone: its loop left, or its worker died.
Forgotten(w) ==
    /\ agent' = [agent EXCEPT ![w] = Off]
    /\ since' = [since EXCEPT ![w] = [a \in Approvals |-> Horizon]]
    /\ quiet' = [quiet EXCEPT ![w] = [a \in Approvals |-> Horizon]]
    /\ UNCHANGED <<row, age>>

LoopExits(w) == agent[w].pc = "sleeping" /\ agent[w].stopping /\ Forgotten(w)

Crashes(w) == agent[w].pc # "off" /\ Forgotten(w)

-----------------------------------------------------------------------------
(***************************************************************************)
(* _sweep_stale_approvals                                                  *)
(***************************************************************************)
\* Mutant: the where clause lost its conditions.
SweepReadsAll(w) ==
    /\ agent[w].pc = "polling"
    /\ agent' = [agent EXCEPT ![w].pc = "notifying", ![w].elapsed = 0,
                              ![w].stale = Approvals]
    /\ UNCHANGED <<row, age, since, quiet>>

\* The select, and `now`, which is read once for the whole sweep.
SweepReads(w) ==
    /\ agent[w].pc = "polling"
    /\ agent' = [agent EXCEPT ![w].pc = "notifying", ![w].elapsed = 0,
                    ![w].stale = {a \in Approvals : row[a] = "pending" /\ age[a] > SLA}]
    /\ UNCHANGED <<row, age, since, quiet>>

\* now - last < cooldown, both ends measured from the present.
Cooling(w, a) == since[w][a] - agent[w].elapsed < Cooldown

Sleep(R) == [R EXCEPT !.pc = "sleeping", !.stale = {}, !.sending = NoApproval, !.timer = 0]

\* The select raises: logged, and the loop sleeps.
SweepFails(w) ==
    /\ agent[w].pc = "polling"
    /\ agent' = [agent EXCEPT ![w] = Sleep(@)]
    /\ UNCHANGED <<row, age, since, quiet>>

\* Mutant: the cooldown is not looked at.
NotifyBeginsHot(w, a) ==
    /\ agent[w].pc = "notifying"
    /\ a \in agent[w].stale
    /\ agent' = [agent EXCEPT ![w].pc = "sending", ![w].sending = a, ![w].stale = @ \ {a}]
    /\ since' = [since EXCEPT ![w][a] = agent[w].elapsed]
    /\ UNCHANGED <<row, age, quiet>>

\* The next row that is not cooling down: _last_escalated is set to the sweep's
\* `now`, then the sink is awaited.
NotifyBegins(w, a) ==
    /\ agent[w].pc = "notifying"
    /\ a \in agent[w].stale
    /\ ~Cooling(w, a)
    /\ agent' = [agent EXCEPT ![w].pc = "sending", ![w].sending = a, ![w].stale = @ \ {a}]
    /\ since' = [since EXCEPT ![w][a] = agent[w].elapsed]
    /\ UNCHANGED <<row, age, quiet>>

NotifyDelivers(w) ==
    /\ agent[w].pc = "sending"
    /\ agent' = [agent EXCEPT ![w].pc = "notifying", ![w].sending = NoApproval]
    /\ quiet' = [quiet EXCEPT ![w][agent[w].sending] = 0]
    /\ UNCHANGED <<row, age, since>>

\* Mutant: _last_escalated is only set once the sink has accepted the event.
NotifyFailsUnrecorded(w) ==
    /\ agent[w].pc = "sending"
    /\ agent' = [agent EXCEPT ![w] = Sleep(@)]
    /\ since' = [since EXCEPT ![w][agent[w].sending] = Horizon]
    /\ UNCHANGED <<row, age, quiet>>

\* The sink raises: _run_loop catches it, and the sweep's other rows are dropped.
NotifyFails(w) ==
    /\ agent[w].pc = "sending"
    /\ agent' = [agent EXCEPT ![w] = Sleep(@)]
    /\ UNCHANGED <<row, age, since, quiet>>

SweepEnds(w) ==
    /\ agent[w].pc = "notifying"
    /\ \A a \in agent[w].stale : Cooling(w, a)
    /\ agent' = [agent EXCEPT ![w] = Sleep(@)]
    /\ UNCHANGED <<row, age, since, quiet>>

\* wait_for(stopping.wait(), poll) times out.
Wakes(w) ==
    /\ agent[w].pc = "sleeping"
    /\ ~agent[w].stopping
    /\ agent[w].timer = Poll
    /\ agent' = [agent EXCEPT ![w].pc = "polling"]
    /\ UNCHANGED <<row, age, since, quiet>>

-----------------------------------------------------------------------------
UpTo(max, n) == IF n < max THEN n + 1 ELSE max

\* Time passes; a poll timer that is due and a select fire at once, and the sinks
\* of one sweep take at most SlowSink.
Tick ==
    /\ \A w \in Agents :
          /\ agent[w].pc # "polling"
          /\ agent[w].pc = "sleeping" => agent[w].timer < Poll
          /\ agent[w].pc \in {"notifying", "sending"} => agent[w].elapsed < SlowSink
    /\ age' = [a \in Approvals |-> IF row[a] = "pending" THEN UpTo(SLA + 1, age[a]) ELSE age[a]]
    /\ agent' = [w \in Agents |->
                    CASE agent[w].pc = "sleeping" -> [agent[w] EXCEPT !.timer = @ + 1]
                      [] agent[w].pc = "off" -> agent[w]
                      [] OTHER -> [agent[w] EXCEPT !.elapsed = @ + 1]]
    /\ since' = [w \in Agents |-> [a \in Approvals |-> UpTo(Horizon, since[w][a])]]
    /\ quiet' = [w \in Agents |-> [a \in Approvals |-> UpTo(Horizon, quiet[w][a])]]
    /\ UNCHANGED row

Loop(w) ==
    \/ SweepReads(w)
    \/ SweepFails(w)
    \/ \E a \in Approvals : NotifyBegins(w, a)
    \/ NotifyDelivers(w)
    \/ NotifyFails(w)
    \/ SweepEnds(w)
    \/ Wakes(w)
    \/ LoopExits(w)

Next ==
    \/ Tick
    \/ \E a \in Approvals : Enqueued(a) \/ Decided(a)
    \/ \E w \in Agents : Starts(w) \/ StopRequested(w) \/ Crashes(w) \/ Loop(w)

Spec == Init /\ [][Next]_vars

\* The clock runs, the event loop gives the agent's task its turns, and from some
\* moment on the database answers.  The sink returns or raises, as
\* it likes.
FairSpec ==
    /\ Spec
    /\ WF_vars(Tick)
    /\ \A w \in Agents : WF_vars(Loop(w))
    /\ <>[][\A w \in Agents : ~SweepFails(w)]_vars

-----------------------------------------------------------------------------
(***************************************************************************)
(* Properties                                                              *)
(***************************************************************************)
TypeOK ==
    /\ row \in [Approvals -> {"absent", "pending", "decided"}]
    /\ age \in [Approvals -> 0 .. SLA + 1]
    /\ agent \in [Agents -> [pc : {"off", "polling", "notifying", "sending", "sleeping"},
                             stopping : BOOLEAN,
                             stale : SUBSET Approvals,
                             sending : Approvals \cup {NoApproval},
                             elapsed : 0 .. SlowSink,
                             timer : 0 .. Poll]]
    /\ \A w \in Agents :
          /\ (agent[w].pc = "sending") <=> (agent[w].sending # NoApproval)
          /\ \A a \in agent[w].stale : row[a] # "absent" /\ age[a] > SLA
    /\ since \in [Agents -> [Approvals -> 0 .. Horizon]]
    /\ quiet \in [Agents -> [Approvals -> 0 .. Horizon]]

\* escalation_cooldown_minutes: an agent delivers an approval again only after
\* the cooldown, less what a slow sink delayed the first delivery by (the code
\* counts from the start of the sweep, not from the delivery).
NotFlooded ==
    [][\A w \in Agents, a \in Approvals :
          NotifyBegins(w, a) => quiet[w][a] >= Cooldown - SlowSink]_vars

\* _sweep_stale_approvals: as long as an agent stays up, it gets round to every
\* approval that stays pending, even when the sink fails for the others each time
\* and each failure cuts the sweep short.
NobodyStarves ==
    \A w \in Agents, a \in Approvals :
        (row[a] = "pending" /\ agent[w].pc # "off") ~>
            \/ row[a] # "pending"
            \/ agent[w].pc = "off"
            \/ since[w][a] < Horizon
=============================================================================
